----------------------------- MODULE ResolverProofs -----------------------------
(***************************************************************************)
(* What holds of the resolver for every set of names and every profile.    *)
(*                                                                         *)
(* The inductive invariant is IInv.  To TypeOK and DeclarationsAccounted   *)
(* it adds how the table, the stacks, scope_map and the program so far     *)
(* hang together: the stacks are nested, each symbol is found under its    *)
(* name where it says it is declared, and each scope belongs to a construct*)
(* of the program (`owner`), later scopes to later constructs, which has a *)
(* place on the stack of open constructs as long as the scope is on the    *)
(* stack of scopes.                                                        *)
(*                                                                         *)
(* An action is first shown to be one of a few kinds of step, by what it   *)
(* does to the arena (DeclareStep, QuietStep, EnterScope, Leave).  Lemmas  *)
(* about the arena speak of any table, program and map, so that they serve *)
(* for the state before a step, after it, and between its parts.           *)
(*                                                                         *)
(* On IInv rests that the symbol table implements lexical scoping: what    *)
(* `lookup` finds in the arena is the declaration that the program's text  *)
(* gives the name, and each step of the walk is one of LexicalScopes.      *)
(***************************************************************************)
EXTENDS Resolver, FiniteSetTheorems, SequenceTheorems, Induction, TLAPS

\* The stacks grow: later scopes and constructs are further in.
Nested ==
  /\ scope_stack # <<>> /\ scope_stack[1] = root_scope
  /\ \A d \in DOMAIN scope_stack : scope_stack[d] \in DOMAIN table.scopes
  /\ \A c, d \in DOMAIN scope_stack : c < d => scope_stack[c] < scope_stack[d]
  /\ \A i \in DOMAIN open : open[i].at \in DOMAIN prog /\ prog[open[i].at].what = open[i].kind
  /\ \A i, j \in DOMAIN open : i < j => open[i].at < open[j].at
  /\ DOMAIN scope_map = {k \in DOMAIN prog : prog[k].what \in {"module", "fn"}}
  /\ \A k \in DOMAIN prog : prog[k].scope < k

\* A variant belongs to an enum that has an id.
VariantsCounted == header = "variants" => next_id["Enum"] > 0

\* A declaration, and the construct whose scope it belongs to (Declares and
\* BlockOf, in any program).
IsDeclaration(rec) == rec.what \notin {"generic", "body", "gen"} \union Mentions
Block(p, k) == IF p[k].what = "for" THEN k ELSE p[k].scope

\* A symbol is the one that its name leads to in its scope, and is in the program.
Links(t, p, i) ==
  /\ t.symbols[i].scope \in DOMAIN t.scopes
  /\ lookup_local(t, t.symbols[i].scope, t.symbols[i].name) = i
  /\ t.symbols[i].span \in DOMAIN p
  /\ IsDeclaration(p[t.symbols[i].span])
  /\ p[t.symbols[i].span].name = t.symbols[i].name

LinkedIn(t, p) == \A i \in DOMAIN t.symbols : Links(t, p, i)
Linked == LinkedIn(table, prog)

\* The construct that each scope belongs to, 0 for the file.
Owns(t, p, map, owner) ==
  /\ owner \in [DOMAIN t.scopes -> 0 .. Len(p)]
  /\ root_scope \in DOMAIN t.scopes /\ owner[root_scope] = 0
  /\ \A s, r \in DOMAIN t.scopes : s < r => owner[s] < owner[r]
  /\ \A s \in DOMAIN t.scopes \ {root_scope} :
       t.scopes[s].parent # 0 /\ owner[t.scopes[s].parent] = p[owner[s]].scope
  /\ \A k \in DOMAIN map : map[k] \in DOMAIN t.scopes /\ owner[map[k]] = k
  /\ \A i \in DOMAIN t.symbols : owner[t.symbols[i].scope] = Block(p, t.symbols[i].span)

Owner(owner) == Owns(table, prog, scope_map, owner)

\* Where in `open` the construct of each scope on the stack is.
Places(stack, constructs, owner, place) ==
  /\ place \in [DOMAIN stack -> 0 .. Len(constructs)]
  /\ place[1] = 0
  /\ \A c, d \in DOMAIN stack : c < d => place[c] < place[d]
  /\ \A i \in DOMAIN constructs :
       constructs[i].kind \in Scoping <=> \E d \in 2 .. Len(stack) : place[d] = i
  /\ \A d \in 2 .. Len(stack) : owner[stack[d]] = constructs[place[d]].at

Place(owner, place) == Places(scope_stack, open, owner, place)

Owned == \E owner, place : Owner(owner) /\ Place(owner, place)

\* A constant's symbol has the value bound to its name, unless another constant
\* has that name.
Bound ==
  \A i \in DOMAIN meaning :
    meaning[i].is # "none" =>
      /\ prog[table.symbols[i].span].what = "const"
      /\ Once => const_values[table.symbols[i].name] = meaning[i]

-----------------------------------------------------------------------------
(* The arena. *)

\* What the proofs need of the type of a table.
LEMMA TableFacts ==
  ASSUME NEW t \in Table
  PROVE  /\ t = [scopes |-> t.scopes, symbols |-> t.symbols]
         /\ t.scopes \in Seq(Scope) /\ t.symbols \in Seq(Symbol)
         /\ Len(t.scopes) \in Nat /\ Len(t.symbols) \in Nat
         /\ DOMAIN t.scopes = 1 .. Len(t.scopes)
         /\ DOMAIN t.symbols = 1 .. Len(t.symbols)
         /\ \A s \in DOMAIN t.scopes : t.scopes[s] \in Scope
         /\ \A i \in DOMAIN t.symbols : t.symbols[i] \in Symbol
         /\ \A s \in DOMAIN t.scopes, x \in Names : lookup_local(t, s, x) \in Nat
<1>1. t.scopes \in Seq(Scope) /\ t.symbols \in Seq(Symbol) /\ t = [scopes |-> t.scopes, symbols |-> t.symbols]
  BY DEF Table
<1>2. \A s \in DOMAIN t.scopes : t.scopes[s] \in Scope
  BY <1>1
<1>3. \A s \in DOMAIN t.scopes, x \in Names : lookup_local(t, s, x) \in Nat
  BY <1>2 DEF lookup_local, Scope
<1> QED
  BY <1>1, <1>2, <1>3


-----------------------------------------------------------------------------
(* Looking names up. *)

\* The recursion of lookup, unfolded once.
LEMMA LookupStep ==
  ASSUME NEW t \in Table, WellFormed(t), NEW x \in Names
  PROVE  /\ lookup(t, 0, x) = 0
         /\ \A s \in DOMAIN t.scopes :
              lookup(t, s, x) = IF lookup_local(t, s, x) # 0 THEN lookup_local(t, s, x)
                                ELSE lookup(t, t.scopes[s].parent, x)
<1> DEFINE n == Len(t.scopes)
           here(s) == lookup_local(t, s, x)
           Step(f) == [s \in 0 .. n |-> IF s = 0 \/ here(s) # 0
                                          THEN IF s = 0 THEN 0 ELSE here(s)
                                          ELSE f[t.scopes[s].parent]]
           find == CHOOSE f : f = Step(f)
<1>1. /\ n \in Nat /\ DOMAIN t.scopes = 1 .. n
      /\ \A s \in 1 .. n : here(s) \in Nat /\ t.scopes[s].parent \in Nat
                           /\ t.scopes[s].parent < s
  <2>1. \A s \in DOMAIN t.scopes : t.scopes[s].parent \in Nat
    BY TableFacts DEF Scope
  <2> QED
    BY <2>1, TableFacts DEF WellFormed
<1> DEFINE up == [s \in 1 .. n |-> t.scopes[s].parent]
           G == [s \in 1 .. n |-> [v \in Nat |-> IF here(s) # 0 THEN here(s) ELSE v]]
<1> HIDE DEF here
<1>2. PICK f : Computed(f, n, Nat, 0, up, G)
  <2>1. Descending(n, Nat, 0, up, G)
    BY <1>1 DEF Descending
  <2> HIDE DEF up, G, n
  <2> QED
    BY <2>1, Descent, Zenon
<1>8. f \in [0 .. n -> Nat] /\ f[0] = 0 /\ \A s \in 1 .. n : f[s] = G[s][f[up[s]]]
  BY <1>2 DEF Computed
<1>3. f = Step(f)
  <2>1. \A s \in 0 .. n : f[s] = Step(f)[s]
    <3>1. ASSUME NEW s \in 1 .. n PROVE f[s] = Step(f)[s]
      <4>1. f[up[s]] \in Nat /\ up[s] = t.scopes[s].parent
        BY <1>1, <1>8
      <4> QED
        BY <4>1, <1>1, <1>8
    <3>2. f[0] = Step(f)[0]
      BY <1>1, <1>8
    <3> HIDE DEF Step
    <3> QED
      BY <3>1, <3>2, <1>1
  <2>2. Step(f) = [s \in 0 .. n |-> Step(f)[s]]
    OBVIOUS
  <2> HIDE DEF Step
  <2> QED
    BY <2>1, <2>2, <1>8
<1>4. find = Step(find)
  <2> HIDE DEF Step
  <2> QED
    BY <1>3, Zenon
<1>5. \A s : lookup(t, s, x) = find[s]
  BY Zenon DEF lookup, here, find, Step
<1> HIDE DEF find
<1>6. find[0] = 0
  <2>1. 0 \in 0 .. n /\ find[0] = Step(find)[0]
    BY <1>1, <1>4
  <2> QED
    BY <2>1
<1>7. ASSUME NEW s \in 1 .. n
      PROVE  find[s] = IF here(s) # 0 THEN here(s) ELSE find[t.scopes[s].parent]
  <2>1. s \in 0 .. n /\ s # 0 /\ find[s] = Step(find)[s]
    BY <1>1, <1>4
  <2> QED
    BY <2>1
<1> QED
  BY <1>1, <1>5, <1>6, <1>7 DEF here

\* What lookup returns, if not nothing, is a symbol of that name.
LEMMA LookupLands ==
  ASSUME NEW t \in Table, WellFormed(t), NEW x \in Names, NEW s \in 0 .. Len(t.scopes)
  PROVE  \/ lookup(t, s, x) = 0
         \/ /\ lookup(t, s, x) \in DOMAIN t.symbols
            /\ t.symbols[lookup(t, s, x)].name = x
<1> DEFINE Lands(c) == \/ lookup(t, c, x) = 0
                       \/ /\ lookup(t, c, x) \in DOMAIN t.symbols
                          /\ t.symbols[lookup(t, c, x)].name = x
           T == {c \in Nat : c <= Len(t.scopes) => Lands(c)}
<1>1. ASSUME NEW c \in Nat, \A m \in 0 .. c - 1 : m \in T
      PROVE  c \in T
  <2>1. SUFFICES ASSUME c <= Len(t.scopes) PROVE Lands(c)
    OBVIOUS
  <2>2. CASE c = 0
    BY <2>2, LookupStep
  <2>3. CASE c # 0
    <3>1. c \in DOMAIN t.scopes /\ Len(t.scopes) \in Nat
      BY <2>1, <2>3, TableFacts
    <3>2. CASE lookup_local(t, c, x) # 0
      <4>1. lookup(t, c, x) = lookup_local(t, c, x)
        BY <3>1, <3>2, LookupStep
      <4> QED
        BY <4>1, <3>1, <3>2 DEF WellFormed
    <3>3. CASE lookup_local(t, c, x) = 0
      <4>1. lookup(t, c, x) = lookup(t, t.scopes[c].parent, x)
        BY <3>1, <3>3, LookupStep
      <4>2. t.scopes[c].parent \in Nat /\ t.scopes[c].parent < c
        BY <3>1, TableFacts DEF WellFormed, Scope
      <4>3. t.scopes[c].parent \in 0 .. c - 1 /\ t.scopes[c].parent <= Len(t.scopes)
        BY <4>2, <3>1, <2>1
      <4>4. Lands(t.scopes[c].parent)
        <5> HIDE DEF Lands
        <5> QED
          BY <1>1, <4>3
      <4> QED
        BY <4>1, <4>4
    <3> QED
      BY <3>2, <3>3
  <2> QED
    BY <2>2, <2>3
<1>2. T = Nat
  <2> HIDE DEF T
  <2>1. T \subseteq Nat
    BY DEF T
  <2> QED
    BY <1>1, <2>1, Below
<1>3. s \in Nat /\ s <= Len(t.scopes)
  BY TableFacts
<1>4. Lands(s)
  <2> HIDE DEF Lands
  <2>1. s \in T
    BY <1>2, <1>3
  <2> QED
    BY <2>1, <1>3
<1> QED
  BY <1>4

-----------------------------------------------------------------------------
(* Types. *)

Shapes == {"None", "Bool", "Bare", "Partial", "Literal", "Named"} \union Counted
TypeErrors == {"UndefinedName", "ConstEvalError", "Custom"}

LEMMA TypeExprFacts ==
  ASSUME NEW te \in OptType
  PROVE  /\ te.form \in Shapes /\ te.form \in Forms \union {"None"}
         /\ te.form = "Literal" => te.n \in Nat
         /\ te.form \in {"Named"} \union Counted => te.name \in Names
         /\ te.form # "None" => te \in TypeExpr
<1>1. LiveForms \subseteq Forms
  BY DEF LiveForms, Forms, Live
<1> HIDE DEF LiveForms, Forms
<1>2. CASE te \in [form : LiveForms \intersect {"Bool", "Bare", "Partial"}]
  BY <1>1, <1>2 DEF Shapes, Counted, TypeExpr
<1>3. CASE te \in [form : LiveForms \intersect {"Literal"}, n : Widths]
  BY <1>1, <1>3, WidthsAssumption DEF Shapes, Counted, TypeExpr
<1>4. CASE te \in [form : LiveForms \intersect ({"Named"} \union Counted), name : Names]
  BY <1>1, <1>4 DEF Shapes, Counted, TypeExpr
<1>5. CASE te \in [form : {"None"}]
  BY <1>5 DEF Shapes, Counted
<1> QED
  BY <1>2, <1>3, <1>4, <1>5 DEF OptType, TypeExpr

LEMMA InitialiserFacts ==
  ASSUME NEW init \in Initialiser
  PROVE  /\ init.init \in {"number", "bool", "name", "call"}
         /\ init.init = "number" => init.n \in Nat
         /\ init.init = "name" => init.name \in Names
BY WidthsAssumption DEF Initialiser

LEMMA TyFacts ==
  /\ \A t \in {"Void", "Bool", "MetaUInt", "Memory", "Clock", "Error"} :
       NoType(t) \in Ty /\ NoType(t).ty = t /\ NoType(t).n = 0
  /\ \A n \in Nat, t \in {"UInt", "Array", "Memory", "Clock", "Struct", "Enum", "Interface"} :
       [ty |-> t, n |-> n] \in Ty
BY DEF Ty, NoType

\* The walk is in one of the scopes, and what it finds there is a symbol.
LEMMA CurrentScope ==
  ASSUME TypeOK, Nested
  PROVE  /\ Len(scope_stack) \in Nat \ {0}
         /\ scope_stack \in Seq(Nat) /\ DOMAIN scope_stack = 1 .. Len(scope_stack)
         /\ current_scope \in DOMAIN table.scopes
         /\ current_scope \in 1 .. Len(table.scopes)
<1>1. scope_stack \in Seq(Nat) /\ scope_stack # <<>>
  BY DEF TypeOK, Nested
<1>2. Len(scope_stack) \in Nat \ {0} /\ DOMAIN scope_stack = 1 .. Len(scope_stack)
  BY <1>1
<1>3. current_scope \in DOMAIN table.scopes
  BY <1>2 DEF Nested, current_scope
<1>4. DOMAIN table.scopes = 1 .. Len(table.scopes)
  BY TableFacts DEF TypeOK
<1> QED
  BY <1>1, <1>2, <1>3, <1>4

LEMMA LookupFound ==
  ASSUME TypeOK, Nested, NEW x \in Names
  PROVE  \/ Lookup(x) = 0
         \/ Lookup(x) \in DOMAIN table.symbols /\ table.symbols[Lookup(x)].name = x
            /\ table.symbols[Lookup(x)] \in Symbol
<1>1. current_scope \in 0 .. Len(table.scopes)
  <2>1. Len(table.scopes) \in Nat
    BY TableFacts DEF TypeOK
  <2> QED
    BY <2>1, CurrentScope
<1>2. table \in Table /\ WellFormed(table)
  BY DEF TypeOK
<1>3. \/ Lookup(x) = 0
      \/ Lookup(x) \in DOMAIN table.symbols /\ table.symbols[Lookup(x)].name = x
  BY <1>1, <1>2, LookupLands DEF Lookup
<1> QED
  BY <1>2, <1>3, TableFacts

\* A constant's value, and a name's meaning, are values.
LEMMA Values ==
  ASSUME TypeOK, Nested
  PROVE  /\ NoValue \in Value
         /\ \A x \in Names : EvalName(x) \in Value /\ Meaning(x) \in Value
         /\ \A init \in Initialiser : Eval(init) \in Value
<1>1. NoValue \in Value
  BY DEF NoValue, Value
<1>2. \A x \in Names : EvalName(x) \in Value
  BY DEF EvalName, TypeOK
<1>3. ASSUME NEW x \in Names PROVE Meaning(x) \in Value
  <2>1. CASE Lookup(x) = 0
    BY <2>1, <1>1 DEF Meaning
  <2>2. CASE Lookup(x) # 0
    <3>1. Lookup(x) \in DOMAIN table.symbols
      BY <2>2, LookupFound
    <3>2. meaning \in Seq(Value) /\ Len(meaning) = Len(table.symbols)
          /\ DOMAIN table.symbols = 1 .. Len(table.symbols)
      BY TableFacts DEF TypeOK
    <3> QED
      BY <2>2, <3>1, <3>2 DEF Meaning
  <2> QED
    BY <2>1, <2>2
<1>4. ASSUME NEW init \in Initialiser PROVE Eval(init) \in Value
  <2>1. CASE init.init = "number"
    BY <2>1, InitialiserFacts DEF Eval, Value
  <2>2. CASE init.init = "bool"
    BY <2>2 DEF Eval, Value
  <2>3. CASE init.init = "name"
    BY <2>3, <1>2, InitialiserFacts DEF Eval
  <2>4. CASE init.init = "call"
    BY <2>4, <1>1 DEF Eval
  <2> QED
    BY <2>1, <2>2, <2>3, <2>4, InitialiserFacts
<1> QED
  BY <1>1, <1>2, <1>3, <1>4

LEMMA NamedTypeFacts ==
  ASSUME TypeOK, Nested, NEW x \in Names
  PROVE  /\ NamedType(x).ty \in Ty /\ NamedType(x).errs \subseteq TypeErrors
         /\ NamedType(x).ty.ty = "Error" =>
              \/ NamedType(x).errs # {}
              \/ Lookup(x) \in DOMAIN table.symbols /\ table.symbols[Lookup(x)].ty.ty = "Error"
<1>1. CASE Lookup(x) = 0
  BY <1>1, TyFacts DEF NamedType, TypeErrors
<1>2. CASE Lookup(x) # 0
  <2>1. Lookup(x) \in DOMAIN table.symbols /\ table.symbols[Lookup(x)] \in Symbol
    BY <1>2, LookupFound
  <2>2. NamedType(x) = [ty |-> table.symbols[Lookup(x)].ty, errs |-> {}]
    BY <1>2 DEF NamedType
  <2>3. table.symbols[Lookup(x)].ty \in Ty
    BY <2>1 DEF Symbol
  <2> QED
    BY <2>1, <2>2, <2>3
<1> QED
  BY <1>1, <1>2

\* A width is a number, however large the constant.
LEMMA WidthsAreNumbers ==
  \A n \in Nat : to_u64(n) \in Nat
BY WidthsAssumption DEF to_u64

LEMMA WidthParamFacts ==
  ASSUME TypeOK, Nested, NEW x \in Names
  PROVE  /\ WidthParam(x).n \in Nat /\ WidthParam(x).errs \subseteq TypeErrors
         /\ EvalName(x).is = "UInt" => WidthParam(x).n = to_u64(EvalName(x).n)
<1>1. EvalName(x) \in Value
  BY Values
<1>2. NamedType(x).errs \subseteq TypeErrors
  BY NamedTypeFacts
<1>3. CASE EvalName(x).is = "UInt"
  <2>1. WidthParam(x) = [n |-> to_u64(EvalName(x).n), errs |-> {}]
    BY <1>3 DEF WidthParam
  <2>2. EvalName(x).n \in Nat
    BY <1>1 DEF Value
  <2> QED
    BY <1>3, <2>1, <2>2, WidthsAreNumbers
<1>4. CASE EvalName(x).is # "UInt" /\ x \notin Capitalised
  BY <1>4 DEF WidthParam, TypeErrors
<1>5. CASE EvalName(x).is # "UInt" /\ x \in Capitalised
  <2> DEFINE errs == IF /\ Lookup(x) # 0
                        /\ table.symbols[Lookup(x)].kind \in {"Const", "GenericParam"}
                       THEN {} ELSE NamedType(x).errs \union {"Custom"}
  <2>1. WidthParam(x) = [n |-> 0, errs |-> errs]
    BY <1>5 DEF WidthParam
  <2>2. errs \subseteq TypeErrors
    BY <1>2 DEF TypeErrors
  <2> HIDE DEF errs
  <2> QED
    BY <2>1, <2>2, <1>5
<1> QED
  BY <1>3, <1>4, <1>5

\* Every type expression is resolved to a type; an error type has an error, a
\* symbol of an error type behind it, or is a partial interface.
LEMMA ResolveType ==
  ASSUME TypeOK, Nested, NEW te \in OptType, NEW default \in {"Void", "MetaUInt"},
         NEW r, r = resolve_opt(te, default)
  PROVE  /\ r.ty \in Ty /\ r.errs \subseteq TypeErrors
         /\ r.ty.ty = "Error" =>
              \/ r.errs # {}
              \/ te.form = "Partial"
              \/ te.form = "Named" /\ \E i \in DOMAIN table.symbols : table.symbols[i].ty.ty = "Error"
         /\ te.form \in Counted =>
              /\ r = resolve_type(te) /\ te.name \in Names
              /\ EvalName(te.name).is = "UInt" => r.ty.n = to_u64(EvalName(te.name).n)
<1> DEFINE v == EvalName(te.name)
<1>1. te.form \in Shapes /\ (te.form = "Literal" => te.n \in Nat)
      /\ (te.form \in {"Named"} \union Counted => te.name \in Names)
  BY TypeExprFacts
<1>2. te.form # "None" => r = resolve_type(te)
  BY DEF resolve_opt
<1>11. te.form \in Counted <=> te.form \in {"Width", "Array", "Memory", "Clock"}
  BY DEF Counted
<1>3. CASE te.form = "None"
  <2>1. r = [ty |-> NoType(default), errs |-> {}]
    BY <1>3 DEF resolve_opt
  <2>2. r.ty = NoType(default) /\ r.errs = {}
    BY <2>1
  <2> QED
    BY <2>2, <1>11, <1>3, TyFacts
<1>4. CASE te.form = "Bool"
  <2>1. r = [ty |-> NoType("Bool"), errs |-> {}]
    BY <1>2, <1>4 DEF resolve_type
  <2>2. r.ty = NoType("Bool") /\ r.errs = {}
    BY <2>1
  <2> QED
    BY <2>2, <1>11, <1>4, TyFacts
<1>5. CASE te.form = "Bare"
  <2>1. r = [ty |-> NoType("Error"), errs |-> {"Custom"}]
    BY <1>2, <1>5 DEF resolve_type
  <2>2. r.ty = NoType("Error") /\ r.errs = {"Custom"}
    BY <2>1
  <2> QED
    BY <2>2, <1>11, <1>5, TyFacts DEF TypeErrors
<1>6. CASE te.form = "Partial"
  <2>1. r = [ty |-> NoType("Error"), errs |-> {}]
    BY <1>2, <1>6 DEF resolve_type
  <2>2. r.ty = NoType("Error") /\ r.errs = {}
    BY <2>1
  <2> QED
    BY <2>2, <1>11, <1>6, TyFacts
<1>7. CASE te.form = "Literal"
  <2>1. r = [ty |-> [ty |-> "UInt", n |-> to_u64(te.n)], errs |-> {}]
    BY <1>2, <1>7 DEF resolve_type
  <2>2. r.ty = [ty |-> "UInt", n |-> to_u64(te.n)] /\ r.ty.ty = "UInt" /\ r.errs = {}
    BY <2>1
  <2>3. r.ty \in Ty
    BY <2>2, <1>1, <1>7, WidthsAreNumbers, TyFacts
  <2> QED
    BY <2>2, <2>3, <1>11, <1>7
<1>8. CASE te.form = "Named"
  <2>1. r = NamedType(te.name) /\ te.name \in Names
    BY <1>1, <1>2, <1>8 DEF resolve_type
  <2> QED
    BY <2>1, <1>11, <1>8, NamedTypeFacts
<1>9. CASE te.form = "Width"
  <2> DEFINE w == WidthParam(te.name)
  <2>1. r = [ty |-> [ty |-> "UInt", n |-> w.n], errs |-> w.errs]
    BY <1>2, <1>9 DEF resolve_type
  <2>2. te.name \in Names
    BY <1>1, <1>11, <1>9
  <2>3. w.n \in Nat /\ w.errs \subseteq TypeErrors /\ (v.is = "UInt" => w.n = to_u64(v.n))
    BY <2>2, WidthParamFacts
  <2> HIDE DEF w
  <2>4. r.ty = [ty |-> "UInt", n |-> w.n] /\ r.ty.ty = "UInt" /\ r.ty.n = w.n /\ r.errs = w.errs
    BY <2>1
  <2>5. r.ty \in Ty
    BY <2>3, <2>4, TyFacts
  <2> QED
    BY <2>2, <2>3, <2>4, <2>5, <1>2, <1>9
<1>10. CASE te.form \in {"Array", "Memory", "Clock"}
  <2>1. te.name \in Names
    BY <1>1, <1>11, <1>10
  <2>2. v \in Value
    BY <2>1, Values
  <2>3. r = IF v.is = "UInt" THEN [ty |-> [ty |-> te.form, n |-> to_u64(v.n)], errs |-> {}]
            ELSE [ty |-> NoType(IF te.form = "Array" THEN "Error" ELSE te.form),
                  errs |-> IF te.form = "Clock" THEN {} ELSE {"ConstEvalError"}]
    BY <1>2, <1>10 DEF resolve_type
  <2> HIDE DEF v
  <2>4. CASE v.is = "UInt"
    <3>1. r = [ty |-> [ty |-> te.form, n |-> to_u64(v.n)], errs |-> {}] /\ to_u64(v.n) \in Nat
      BY <2>2, <2>3, <2>4, WidthsAreNumbers DEF Value
    <3>2. /\ r.ty = [ty |-> te.form, n |-> to_u64(v.n)] /\ r.errs = {}
          /\ r.ty.ty = te.form /\ r.ty.n = to_u64(v.n)
      BY <3>1
    <3>3. r.ty \in Ty
      BY <3>1, <3>2, <1>10, TyFacts
    <3> QED
      BY <3>2, <3>3, <2>1, <1>2, <1>10 DEF v
  <2>5. CASE v.is # "UInt"
    <3>1. r.ty = NoType(IF te.form = "Array" THEN "Error" ELSE te.form)
          /\ r.errs = IF te.form = "Clock" THEN {} ELSE {"ConstEvalError"}
      BY <2>3, <2>5
    <3>2. r.ty \in Ty /\ r.errs \subseteq TypeErrors /\ (r.ty.ty = "Error" => r.errs # {})
      BY <3>1, <1>10, TyFacts DEF TypeErrors
    <3> QED
      BY <3>2, <2>1, <2>5, <1>2, <1>10 DEF v
  <2> QED
    BY <2>4, <2>5
<1> QED
  BY <1>1, <1>3, <1>4, <1>5, <1>6, <1>7, <1>8, <1>9, <1>10 DEF Shapes, Counted

-----------------------------------------------------------------------------
(* Where the walk is. *)

LEMMA MaxSizeBounds ==
  ASSUME NEW p \in Profiles
  PROVE  MaxSize \in Nat /\ p.size <= MaxSize
<1> DEFINE Bounds(m) == \A q \in Profiles : q.size <= m
           Sizes == {q.size : q \in Profiles}
           n == Cardinality(Profiles)
<1>1. \A q \in Profiles : q.size \in Nat
  BY ProfilesAssumption
<1>2. n \in Nat /\ ExistsBijection(1 .. n, Profiles)
  BY ProfilesAssumption, FS_CardinalityType
<1>3. n # 0
  BY ProfilesAssumption, FS_EmptySet
<1> HIDE DEF n
<1>4. PICK f : f \in Bijection(1 .. n, Profiles)
  BY <1>2 DEF ExistsBijection
<1>5. f \in [1 .. n -> Profiles] /\ \A q \in Profiles : \E i \in 1 .. n : f[i] = q
  BY <1>4 DEF Bijection, Surjection, Injection
<1> DEFINE g == [i \in 1 .. n |-> f[i].size]
<1>6. g \in [1 .. n -> Nat]
  BY <1>1, <1>5
<1>7. PICK j \in 1 .. n : \A i \in 1 .. n : g[i] <= g[j]
  <2> HIDE DEF g
  <2> QED
    BY <1>2, <1>3, <1>6, Largest
<1>8. f[j].size \in Sizes /\ Bounds(f[j].size)
  BY <1>5, <1>7
<1>9. MaxSize \in Sizes /\ Bounds(MaxSize)
  <2> HIDE DEF Bounds, Sizes
  <2>1. \E m \in Sizes : Bounds(m)
    BY <1>8
  <2>2. MaxSize = CHOOSE m \in Sizes : Bounds(m)
    BY DEF MaxSize, Sizes, Bounds
  <2> QED
    BY <2>1, <2>2
<1> QED
  BY <1>1, <1>9

\* The construct whose scope the walk is in.
LEMMA ScopeAtOwner ==
  ASSUME TypeOK, Nested, NEW owner, NEW place, Owner(owner), Place(owner, place)
  PROVE  ScopeAt = owner[current_scope] /\ ScopeAt \in 0 .. Len(prog)
<1> DEFINE n == Len(scope_stack)
           scoping == {i \in DOMAIN open : open[i].kind \in Scoping}
<1>1. /\ n \in Nat \ {0} /\ DOMAIN scope_stack = 1 .. n
      /\ current_scope = scope_stack[n]
      /\ current_scope \in DOMAIN table.scopes
  BY CurrentScope DEF current_scope
<1>2. /\ Len(open) \in Nat /\ DOMAIN open = 1 .. Len(open)
  BY DEF TypeOK
<1>3. /\ place \in [1 .. n -> 0 .. Len(open)] /\ place[1] = 0
      /\ \A c, d \in 1 .. n : c < d => place[c] < place[d]
      /\ \A i \in 1 .. Len(open) : i \in scoping <=> \E d \in 2 .. n : place[d] = i
      /\ \A d \in 2 .. n : owner[scope_stack[d]] = open[place[d]].at
  BY <1>1, <1>2 DEF Place, Places
<1>4. owner[current_scope] \in 0 .. Len(prog)
  BY <1>1 DEF Owner, Owns
<1>5. CASE n = 1
  <2>1. scoping = {}
    BY <1>2, <1>3, <1>5
  <2>2. ScopeAt = 0
    BY <2>1 DEF ScopeAt
  <2>3. owner[current_scope] = 0
    BY <1>1, <1>5 DEF Nested, Owner, Owns
  <2> QED
    BY <1>4, <2>2, <2>3
<1>6. CASE n > 1
  <2>1. place[n] \in 1 .. Len(open) /\ n \in 2 .. n
    BY <1>1, <1>2, <1>3, <1>6
  <2>2. place[n] \in scoping
    BY <1>3, <2>1
  <2>3. ASSUME NEW i \in scoping PROVE i <= place[n]
    <3>1. i \in 1 .. Len(open)
      BY <1>2
    <3>2. PICK d \in 2 .. n : place[d] = i
      BY <1>3, <3>1
    <3>3. d = n \/ place[d] < place[n]
      <4>0. n \in Nat
        BY <1>1
      <4> HIDE DEF n
      <4>1. d \in 1 .. n /\ n \in 1 .. n /\ (d = n \/ d < n)
        BY <4>0
      <4> QED
        BY <1>3, <4>1
    <3> QED
      BY <1>2, <2>1, <3>1, <3>2, <3>3
  <2> DEFINE last == CHOOSE i \in scoping : \A j \in scoping : j <= i
  <2>4. last = place[n]
    <3>1. last \in scoping /\ \A j \in scoping : j <= last
      <4> HIDE DEF scoping
      <4> QED
        BY <2>2, <2>3
    <3>2. last <= place[n] /\ place[n] <= last
      BY <3>1, <2>2, <2>3
    <3>3. last \in 1 .. Len(open)
      BY <3>1, <1>2
    <3> QED
      BY <2>1, <3>2, <3>3
  <2>5. ScopeAt = open[last].at
    BY <2>2 DEF ScopeAt
  <2> QED
    BY <1>1, <1>3, <1>4, <2>1, <2>4, <2>5
<1> QED
  BY <1>1, <1>5, <1>6

-----------------------------------------------------------------------------
(* The steps of the walk, by what they do to the arena. *)

IInv == TypeOK /\ Nested /\ VariantsCounted /\ Linked /\ Owned /\ DeclarationsAccounted

Declaring == {"parameter", "signal", "let", "type", "nominal", "variant", "opaque", "const"}
ErrorKinds == TypeErrors \union {"DuplicateDefinition"}

Statement == [what : Constructs, name : Names \union {NoName}, form : Forms \union {"None"},
              block : Nat, scope : Nat]

\* What the program gains where the walk is.
Met(what, x, form) ==
  [what |-> what, name |-> x, form |-> form, block |-> Innermost.at, scope |-> ScopeAt]

\* A declaration in the current scope.
DeclareStep(what, x, kind, ty, errs, value, form) ==
  /\ prog' = Append(prog, Met(what, x, form))
  /\ table' = Defined(x, kind, ty)
  /\ Push(x, errs)
  /\ Remember(value)
  /\ UNCHANGED <<scope_stack, scope_map, open>>

\* A construct or statement that declares nothing and has no scope.
QuietStep(what, x) ==
  /\ prog' = Append(prog, Met(what, x, "None"))
  /\ UNCHANGED <<table, scope_stack, scope_map, errors, meaning>>
  /\ \/ open' = open
     \/ what \in {"body", "gen"} /\ open' = Append(open, [kind |-> what, at |-> Here])

LEMMA OpenFacts ==
  ASSUME TypeOK
  PROVE  /\ Len(open) \in Nat /\ DOMAIN open = 1 .. Len(open)
         /\ open \in Seq([kind : Scoping \union {"body", "gen"}, at : Nat])
         /\ Len(prog) \in Nat /\ DOMAIN prog = 1 .. Len(prog) /\ prog \in Seq(Statement)
         /\ Here \in Nat /\ Here = Len(prog) + 1
         /\ Innermost.at \in Nat
<1>1. open \in Seq([kind : Scoping \union {"body", "gen"}, at : Nat])
  BY DEF TypeOK
<1>2. Len(open) \in Nat /\ DOMAIN open = 1 .. Len(open)
  BY <1>1
<1>3. prog \in Seq(Statement)
  BY DEF TypeOK, Statement
<1>4. Len(prog) \in Nat /\ DOMAIN prog = 1 .. Len(prog)
  BY <1>3
<1>5. Innermost.at \in Nat
  <2>1. CASE open = <<>>
    BY <2>1 DEF Innermost
  <2>2. CASE open # <<>>
    <3>1. open[Len(open)] \in [kind : Scoping \union {"body", "gen"}, at : Nat]
      <4>1. Len(open) \in 1 .. Len(open)
        BY <1>1, <2>2, EmptySeq
      <4> QED
        BY <1>1, <4>1, ElementOfSeq
    <3>2. Innermost = open[Len(open)]
      BY <2>2 DEF Innermost
    <3> QED
      BY <3>1, <3>2
  <2> QED
    BY <2>1, <2>2
<1> QED
  BY <1>1, <1>2, <1>3, <1>4, <1>5 DEF Here

\* What is met is a statement of one of the profiles, and there is room for it.
LEMMA MeetFacts ==
  ASSUME IInv, NEW what, NEW x \in Names \union {NoName}, NEW form, Meet(what, x, form)
  PROVE  /\ Met(what, x, form) \in Statement
         /\ prog' = Append(prog, Met(what, x, form))
         /\ Here \in 1 .. MaxSize
<1>1. PICK p \in Live : what \in p.constructs /\ form \in p.forms \union {"None"}
  BY DEF Meet, Fits
<1>2. p \in Profiles /\ Len(prog) < p.size
  BY <1>1 DEF Live
<1>3. what \in Constructs /\ form \in Forms \union {"None"}
  BY <1>1, <1>2 DEF Constructs, Forms
<1>4. PICK owner, place : Owner(owner) /\ Place(owner, place)
  BY DEF IInv, Owned
<1>5. ScopeAt \in 0 .. Len(prog)
  BY <1>4, ScopeAtOwner DEF IInv
<1>6. Innermost.at \in Nat /\ Len(prog) \in Nat /\ Here = Len(prog) + 1
  BY OpenFacts DEF IInv
<1>7. Met(what, x, form) \in Statement
  BY <1>3, <1>5, <1>6 DEF Met, Statement
<1>8. prog' = Append(prog, Met(what, x, form))
  BY DEF Meet, Met
<1>9. MaxSize \in Nat /\ p.size <= MaxSize /\ p.size \in Nat
  BY <1>2, MaxSizeBounds, ProfilesAssumption
<1> QED
  BY <1>2, <1>6, <1>7, <1>8, <1>9

LEMMA ProgGrows ==
  ASSUME IInv, NEW rec \in Statement, prog' = Append(prog, rec)
  PROVE  /\ Len(prog) \in Nat /\ DOMAIN prog = 1 .. Len(prog) /\ Here = Len(prog) + 1
         /\ prog' \in Seq(Statement) /\ Len(prog') = Here /\ DOMAIN prog' = 1 .. Here
         /\ prog'[Here] = rec
         /\ \A k \in DOMAIN prog :
              prog'[k] = prog[k] /\ (Declares(k)' <=> Declares(k)) /\ BlockOf(k)' = BlockOf(k)
<1>1. prog \in Seq(Statement) /\ Len(prog) \in Nat /\ DOMAIN prog = 1 .. Len(prog) /\ Here = Len(prog) + 1
  BY OpenFacts DEF IInv
<1>2. /\ prog' \in Seq(Statement) /\ Len(prog') = Here /\ DOMAIN prog' = 1 .. Here
      /\ prog'[Here] = rec
      /\ \A k \in DOMAIN prog : prog'[k] = prog[k]
  BY <1>1
<1> QED
  BY <1>1, <1>2 DEF Declares, BlockOf


-----------------------------------------------------------------------------
(* What the methods of the arena do to it, and to the invariants about it. *)

\* The table u has the scopes of t, up to what they declare.
SameScopes(t, u) ==
  /\ DOMAIN u.scopes = DOMAIN t.scopes /\ Len(u.scopes) = Len(t.scopes)
  /\ \A c \in DOMAIN t.scopes : u.scopes[c].parent = t.scopes[c].parent

\* The table u has one symbol more than t, for a name free in its scope.
Adds(t, u, sym) ==
  /\ lookup_local(t, sym.scope, sym.name) = 0
  /\ \A c \in DOMAIN t.scopes, y \in Names :
       lookup_local(u, c, y) = IF c = sym.scope /\ y = sym.name THEN Len(t.symbols) + 1
                               ELSE lookup_local(t, c, y)
  /\ u.symbols = Append(t.symbols, sym)

\* The table u has one scope more than t, that declares nothing.
Pushes(t, u, parent) ==
  /\ Len(u.scopes) = Len(t.scopes) + 1 /\ DOMAIN u.scopes = 1 .. Len(t.scopes) + 1
  /\ \A c \in DOMAIN t.scopes : u.scopes[c].parent = t.scopes[c].parent
  /\ u.scopes[Len(t.scopes) + 1].parent = parent
  /\ \A y \in Names : lookup_local(u, Len(t.scopes) + 1, y) = 0
  /\ \A c \in DOMAIN t.scopes, y \in Names : lookup_local(u, c, y) = lookup_local(t, c, y)
  /\ u.symbols = t.symbols

Made(s, x, kind, ty, span) ==
  [name |-> x, kind |-> kind, ty |-> ty, span |-> span, scope |-> s]

LEMMA Appended ==
  ASSUME NEW S, NEW q \in Seq(S), NEW e \in S
  PROVE  /\ Append(q, e) \in Seq(S) /\ Len(q) \in Nat
         /\ DOMAIN q = 1 .. Len(q) /\ DOMAIN Append(q, e) = 1 .. Len(q) + 1
         /\ Len(Append(q, e)) = Len(q) + 1
         /\ \A i \in DOMAIN q : Append(q, e)[i] = q[i]
         /\ Append(q, e)[Len(q) + 1] = e
OBVIOUS

\* A declaration of a name its scope has already changes nothing; any other
\* adds one symbol.
LEMMA DefineTable ==
  ASSUME NEW t \in Table, WellFormed(t), NEW s \in DOMAIN t.scopes, NEW x \in Names,
         NEW kind \in SymbolKind, NEW ty \in Ty, NEW span \in Nat
  PROVE  /\ define(t, s, x, kind, ty, span) \in Table
         /\ WellFormed(define(t, s, x, kind, ty, span))
         /\ SameScopes(t, define(t, s, x, kind, ty, span))
         /\ lookup_local(t, s, x) # 0 => define(t, s, x, kind, ty, span) = t
         /\ lookup_local(t, s, x) = 0 =>
              Adds(t, define(t, s, x, kind, ty, span), Made(s, x, kind, ty, span))
<1> DEFINE u == define(t, s, x, kind, ty, span)
           n == Len(t.symbols) + 1
           sym == Made(s, x, kind, ty, span)
           new == [t.scopes[s] EXCEPT !.symbols = [t.scopes[s].symbols EXCEPT ![x] = n]]
           scopes == [t.scopes EXCEPT ![s] = new]
           symbols == Append(t.symbols, sym)
<1>1. CASE lookup_local(t, s, x) # 0
  BY <1>1 DEF define, SameScopes
<1>2. CASE lookup_local(t, s, x) = 0
  <2>1. u = [scopes |-> scopes, symbols |-> symbols]
    BY <1>2 DEF define, Made
  <2>2. /\ t.scopes \in Seq(Scope) /\ t.symbols \in Seq(Symbol)
        /\ Len(t.scopes) \in Nat /\ Len(t.symbols) \in Nat /\ n \in Nat
        /\ DOMAIN t.scopes = 1 .. Len(t.scopes) /\ DOMAIN t.symbols = 1 .. Len(t.symbols)
        /\ \A c \in DOMAIN t.scopes : t.scopes[c] \in Scope
    BY TableFacts
  <2>3. sym \in Symbol /\ sym.name = x /\ sym.scope = s
    BY <2>2 DEF Symbol, Made
  <2>4. new \in Scope /\ new.parent = t.scopes[s].parent
        /\ \A y \in Names : new.symbols[y] = IF y = x THEN n ELSE t.scopes[s].symbols[y]
    <3>1. t.scopes[s] \in Scope
      BY <2>2
    <3> HIDE DEF n
    <3> QED
      BY <3>1, <2>2 DEF Scope
  <2> HIDE DEF new, sym, u
  <2>5. /\ scopes \in Seq(Scope) /\ DOMAIN scopes = DOMAIN t.scopes /\ Len(scopes) = Len(t.scopes)
        /\ \A c \in DOMAIN t.scopes : scopes[c] = IF c = s THEN new ELSE t.scopes[c]
    BY <2>2, <2>4
  <2>6. /\ symbols \in Seq(Symbol) /\ DOMAIN symbols = 1 .. n
        /\ \A i \in DOMAIN t.symbols : symbols[i] = t.symbols[i]
        /\ symbols[n] = sym
    BY <2>2, <2>3
  <2> HIDE DEF scopes
  <2>7. u.scopes = scopes /\ u.symbols = symbols
    BY <2>1
  <2> HIDE DEF symbols
  <2>8. u \in Table
    BY <2>1, <2>5, <2>6 DEF Table
  <2>9. \A c \in DOMAIN t.scopes, y \in Names :
          lookup_local(u, c, y) = IF c = s /\ y = x THEN n ELSE lookup_local(t, c, y)
    BY <2>4, <2>5, <2>7 DEF lookup_local
  <2>10. SameScopes(t, u)
    BY <2>4, <2>5, <2>7 DEF SameScopes
  <2>11. Adds(t, u, sym)
    BY <1>2, <2>3, <2>7, <2>9 DEF Adds, symbols
  <2>12. WellFormed(u)
    <3>1. ASSUME NEW c \in DOMAIN t.scopes PROVE u.scopes[c].parent < c
      BY <2>10 DEF WellFormed, SameScopes
    <3>2. ASSUME NEW c \in DOMAIN t.scopes, NEW y \in Names, lookup_local(u, c, y) # 0
          PROVE  /\ lookup_local(u, c, y) \in DOMAIN u.symbols
                 /\ u.symbols[lookup_local(u, c, y)].name = y
                 /\ u.symbols[lookup_local(u, c, y)].scope = c
      <4>1. CASE c = s /\ y = x
        <5>1. lookup_local(u, c, y) = n
          BY <2>9, <4>1
        <5>2. n \in DOMAIN u.symbols /\ u.symbols[n] = sym
          BY <2>2, <2>6, <2>7
        <5> QED
          BY <4>1, <5>1, <5>2, <2>3
      <4>2. CASE ~ (c = s /\ y = x)
        <5> DEFINE i == lookup_local(t, c, y)
        <5>1. lookup_local(u, c, y) = i /\ i # 0
          BY <4>2, <2>9, <3>2
        <5>2. i \in DOMAIN t.symbols /\ t.symbols[i].name = y /\ t.symbols[i].scope = c
          BY <5>1 DEF WellFormed
        <5> HIDE DEF i
        <5>3. i \in DOMAIN u.symbols /\ u.symbols[i] = t.symbols[i]
          BY <5>2, <2>2, <2>6, <2>7
        <5> QED
          BY <5>1, <5>2, <5>3
      <4> QED
        BY <4>1, <4>2
    <3> QED
      BY <3>1, <3>2, <2>5, <2>7 DEF WellFormed
  <2> QED
    BY <1>2, <2>8, <2>10, <2>11, <2>12 DEF u, sym
<1> QED
  BY <1>1, <1>2

\* A new scope is the last one, and has no symbols.
LEMMA PushTable ==
  ASSUME NEW t \in Table, WellFormed(t), NEW parent \in 0 .. Len(t.scopes), NEW kind \in ScopeKind
  PROVE  /\ push_scope(t, parent, kind) \in Table
         /\ WellFormed(push_scope(t, parent, kind))
         /\ Pushes(t, push_scope(t, parent, kind), parent)
<1> DEFINE u == push_scope(t, parent, kind)
           n == Len(t.scopes) + 1
           new == NewScope(parent, kind)
           scopes == Append(t.scopes, new)
<1>1. u = [scopes |-> scopes, symbols |-> t.symbols]
  <2>1. t = [scopes |-> t.scopes, symbols |-> t.symbols]
    BY TableFacts
  <2> HIDE DEF new
  <2> QED
    BY <2>1 DEF push_scope, new
<1>2. /\ t.scopes \in Seq(Scope) /\ t.symbols \in Seq(Symbol) /\ Len(t.scopes) \in Nat
      /\ DOMAIN t.scopes = 1 .. Len(t.scopes)
  BY TableFacts
<1>3. new \in Scope /\ new.parent = parent /\ \A y \in Names : new.symbols[y] = 0
  BY <1>2 DEF Scope, NewScope
<1> HIDE DEF new, u
<1>4. /\ scopes \in Seq(Scope) /\ DOMAIN scopes = 1 .. n /\ Len(scopes) = n
      /\ \A c \in DOMAIN t.scopes : scopes[c] = t.scopes[c]
      /\ scopes[n] = new
  BY <1>2, <1>3
<1> HIDE DEF scopes
<1>5. u \in Table
  BY <1>1, <1>2, <1>4 DEF Table
<1>6. u.scopes = scopes /\ u.symbols = t.symbols
  BY <1>1
<1>7. \A y \in Names : lookup_local(u, n, y) = 0
  BY <1>3, <1>4, <1>6 DEF lookup_local
<1>8. \A c \in DOMAIN t.scopes, y \in Names : lookup_local(u, c, y) = lookup_local(t, c, y)
  BY <1>4, <1>6 DEF lookup_local
<1>9. Pushes(t, u, parent)
  BY <1>3, <1>4, <1>6, <1>7, <1>8 DEF Pushes
<1>10. WellFormed(u)
  <2>1. ASSUME NEW c \in DOMAIN u.scopes PROVE u.scopes[c].parent < c
    <3>1. c \in DOMAIN t.scopes \/ c = n
      BY <1>2, <1>4, <1>6
    <3> QED
      BY <3>1, <1>2, <1>3, <1>4, <1>6 DEF WellFormed
  <2>2. ASSUME NEW c \in DOMAIN u.scopes, NEW y \in Names, lookup_local(u, c, y) # 0
        PROVE  /\ lookup_local(u, c, y) \in DOMAIN u.symbols
               /\ u.symbols[lookup_local(u, c, y)].name = y
               /\ u.symbols[lookup_local(u, c, y)].scope = c
    <3>1. c \in DOMAIN t.scopes
      <4>1. c \in DOMAIN t.scopes \/ c = n
        BY <1>2, <1>4, <1>6
      <4> QED
        BY <4>1, <2>2, <1>7
    <3> QED
      BY <3>1, <2>2, <1>6, <1>8 DEF WellFormed
  <2> QED
    BY <2>1, <2>2 DEF WellFormed
<1> QED
  BY <1>5, <1>9, <1>10 DEF u

-----------------------------------------------------------------------------
(* Each symbol is found under its name. *)

LEMMA LinkGrow ==
  ASSUME NEW t, NEW p \in Seq(Statement), NEW rec \in Statement, LinkedIn(t, p)
  PROVE  LinkedIn(t, Append(p, rec))
<1>1. /\ DOMAIN p \subseteq DOMAIN Append(p, rec)
      /\ \A k \in DOMAIN p : Append(p, rec)[k] = p[k]
  BY Appended
<1> QED
  BY <1>1 DEF LinkedIn, Links

LEMMA LinkPush ==
  ASSUME NEW t \in Table, NEW u, NEW p, NEW parent, LinkedIn(t, p), Pushes(t, u, parent)
  PROVE  LinkedIn(u, p)
<1>1. /\ DOMAIN t.scopes = 1 .. Len(t.scopes) /\ Len(t.scopes) \in Nat
      /\ \A i \in DOMAIN t.symbols : t.symbols[i].name \in Names
  BY TableFacts DEF Symbol
<1>2. DOMAIN t.scopes \subseteq DOMAIN u.scopes
  BY <1>1 DEF Pushes
<1>3. u.symbols = t.symbols
      /\ \A c \in DOMAIN t.scopes, y \in Names : lookup_local(u, c, y) = lookup_local(t, c, y)
  BY DEF Pushes
<1> QED
  BY <1>1, <1>2, <1>3 DEF LinkedIn, Links

LEMMA LinkAdd ==
  ASSUME NEW t \in Table, NEW u, NEW p, NEW sym \in Symbol,
         LinkedIn(t, p), Adds(t, u, sym), SameScopes(t, u),
         sym.scope \in DOMAIN t.scopes, sym.span \in DOMAIN p,
         IsDeclaration(p[sym.span]), p[sym.span].name = sym.name
  PROVE  LinkedIn(u, p)
<1> DEFINE n == Len(t.symbols) + 1
<1>1. /\ Len(t.symbols) \in Nat /\ DOMAIN t.symbols = 1 .. Len(t.symbols)
      /\ t.symbols \in Seq(Symbol)
      /\ \A i \in DOMAIN t.symbols : t.symbols[i].name \in Names
  BY TableFacts DEF Symbol
<1>2. /\ DOMAIN u.symbols = 1 .. n /\ u.symbols[n] = sym
      /\ \A i \in DOMAIN t.symbols : u.symbols[i] = t.symbols[i]
  BY <1>1, Appended DEF Adds
<1>3. DOMAIN u.scopes = DOMAIN t.scopes
  BY DEF SameScopes
<1>4. /\ lookup_local(t, sym.scope, sym.name) = 0
      /\ \A c \in DOMAIN t.scopes, y \in Names :
           lookup_local(u, c, y) = IF c = sym.scope /\ y = sym.name THEN n
                                   ELSE lookup_local(t, c, y)
  BY DEF Adds
<1>5. sym.name \in Names
  BY DEF Symbol
<1>6. ASSUME NEW i \in DOMAIN t.symbols PROVE Links(u, p, i)
  <2> DEFINE c == t.symbols[i].scope
             y == t.symbols[i].name
  <2>1. c \in DOMAIN t.scopes /\ y \in Names /\ lookup_local(t, c, y) = i
    BY <1>1 DEF LinkedIn, Links
  <2>2. i # 0
    BY <1>1
  <2>3. /\ t.symbols[i].span \in DOMAIN p /\ IsDeclaration(p[t.symbols[i].span])
        /\ p[t.symbols[i].span].name = y
    BY DEF LinkedIn, Links
  <2>4. lookup_local(u, c, y) = i
    <3> HIDE DEF c, y, n
    <3> QED
      BY <2>1, <2>2, <1>4
  <2> QED
    BY <2>1, <2>3, <2>4, <1>2, <1>3 DEF Links
<1>7. Links(u, p, n)
  BY <1>2, <1>3, <1>4, <1>5 DEF Links
<1>8. \A i \in DOMAIN u.symbols : i \in DOMAIN t.symbols \/ i = n
  BY <1>1, <1>2
<1> QED
  BY <1>6, <1>7, <1>8 DEF LinkedIn

-----------------------------------------------------------------------------
(* Each scope belongs to a construct. *)

LEMMA OwnGrow ==
  ASSUME NEW t \in Table, NEW p \in Seq(Statement), NEW rec \in Statement, NEW map, NEW owner,
         LinkedIn(t, p), Owns(t, p, map, owner)
  PROVE  Owns(t, Append(p, rec), map, owner)
<1> DEFINE q == Append(p, rec)
<1>1. /\ Len(p) \in Nat /\ DOMAIN p = 1 .. Len(p) /\ Len(q) = Len(p) + 1
      /\ \A k \in DOMAIN p : q[k] = p[k]
  BY Appended
<1> HIDE DEF q
<1>2. DOMAIN t.scopes = 1 .. Len(t.scopes) /\ Len(t.scopes) \in Nat
  BY TableFacts
<1>3. owner \in [DOMAIN t.scopes -> 0 .. Len(q)]
  BY <1>1 DEF Owns
<1>4. ASSUME NEW s \in DOMAIN t.scopes \ {root_scope} PROVE owner[s] \in DOMAIN p
  <2>1. root_scope < s
    BY <1>2 DEF root_scope
  <2>2. owner[s] \in 0 .. Len(p) /\ owner[root_scope] = 0 /\ owner[root_scope] < owner[s]
    BY <2>1 DEF Owns
  <2> QED
    BY <2>2, <1>1
<1>5. \A s \in DOMAIN t.scopes \ {root_scope} : p[owner[s]] = q[owner[s]]
  BY <1>1, <1>4
<1>6. \A i \in DOMAIN t.symbols : Block(q, t.symbols[i].span) = Block(p, t.symbols[i].span)
  BY <1>1 DEF LinkedIn, Links, Block
<1> QED
  BY <1>3, <1>5, <1>6 DEF Owns, q

LEMMA OwnAdd ==
  ASSUME NEW t \in Table, NEW u, NEW p, NEW map, NEW owner, NEW sym \in Symbol,
         Owns(t, p, map, owner), Adds(t, u, sym), SameScopes(t, u),
         owner[sym.scope] = Block(p, sym.span)
  PROVE  Owns(u, p, map, owner)
<1> DEFINE n == Len(t.symbols) + 1
<1>1. /\ Len(t.symbols) \in Nat /\ DOMAIN t.symbols = 1 .. Len(t.symbols)
      /\ t.symbols \in Seq(Symbol)
  BY TableFacts
<1>2. /\ DOMAIN u.symbols = 1 .. n /\ u.symbols[n] = sym
      /\ \A i \in DOMAIN t.symbols : u.symbols[i] = t.symbols[i]
  BY <1>1, Appended DEF Adds
<1>3. \A i \in DOMAIN u.symbols : owner[u.symbols[i].scope] = Block(p, u.symbols[i].span)
  BY <1>1, <1>2 DEF Owns
<1> HIDE DEF n
<1> QED
  BY <1>3 DEF Owns, SameScopes

\* The owners once there is one more scope, that belongs to the construct h.
More(t, owner, h) == [s \in 1 .. Len(t.scopes) + 1 |-> IF s \in DOMAIN t.scopes THEN owner[s] ELSE h]

LEMMA OwnPush ==
  ASSUME NEW t \in Table, NEW u, NEW p, NEW map, NEW map2, NEW owner,
         NEW parent \in DOMAIN t.scopes, NEW h \in 1 .. Len(p), Len(p) \in Nat,
         WellFormed(t), LinkedIn(t, p), Owns(t, p, map, owner), Pushes(t, u, parent),
         \A s \in DOMAIN t.scopes : owner[s] < h,
         owner[parent] = p[h].scope,
         \/ map2 = map
         \/ map2 = [k \in DOMAIN map \union {h} |-> IF k = h THEN Len(t.scopes) + 1 ELSE map[k]]
  PROVE  Owns(u, p, map2, More(t, owner, h))
<1> DEFINE n == Len(t.scopes) + 1
           own == More(t, owner, h)
<1>1. DOMAIN t.scopes = 1 .. Len(t.scopes) /\ Len(t.scopes) \in Nat
  BY TableFacts
<1>2. DOMAIN u.scopes = 1 .. n /\ n \in 1 .. n
  BY <1>1 DEF Pushes
<1>3. own \in [1 .. n -> 0 .. Len(p)]
  BY <1>1 DEF Owns, More
<1>4. \A s \in DOMAIN t.scopes : s \in 1 .. n /\ own[s] = owner[s]
  BY <1>1 DEF More
<1>5. own[n] = h /\ n \notin DOMAIN t.scopes
  BY <1>1, <1>2 DEF More
<1>6. \A s \in 1 .. n : s \in DOMAIN t.scopes \/ s = n
  BY <1>1
<1>7. \A s \in DOMAIN t.scopes : s < n
  BY <1>1
<1> HIDE DEF own
<1>8. root_scope \in DOMAIN u.scopes /\ own[root_scope] = 0
  BY <1>2, <1>4 DEF Owns
<1>9. \A s, r \in DOMAIN u.scopes : s < r => own[s] < own[r]
  <2>1. SUFFICES ASSUME NEW s \in DOMAIN u.scopes, NEW r \in DOMAIN u.scopes, s < r
                 PROVE  own[s] < own[r]
    OBVIOUS
  <2>2. CASE r \in DOMAIN t.scopes
    <3>1. s \in DOMAIN t.scopes
      BY <2>1, <2>2, <1>1, <1>2
    <3> QED
      BY <3>1, <2>1, <2>2, <1>4 DEF Owns
  <2>3. CASE r = n
    <3>1. s \in DOMAIN t.scopes
      BY <2>1, <2>3, <1>1, <1>2
    <3> QED
      BY <3>1, <2>3, <1>4, <1>5
  <2> QED
    BY <2>2, <2>3, <1>2, <1>6
<1>10. ASSUME NEW s \in DOMAIN u.scopes \ {root_scope}
       PROVE  u.scopes[s].parent # 0 /\ own[u.scopes[s].parent] = p[own[s]].scope
  <2>1. CASE s \in DOMAIN t.scopes
    <3>1. u.scopes[s].parent = t.scopes[s].parent /\ t.scopes[s].parent # 0
          /\ owner[t.scopes[s].parent] = p[owner[s]].scope
      BY <2>1 DEF Pushes, Owns
    <3>2. t.scopes[s].parent \in DOMAIN t.scopes
      <4>1. t.scopes[s].parent \in Nat /\ t.scopes[s].parent < s
        BY <2>1, TableFacts DEF WellFormed, Scope
      <4> QED
        BY <4>1, <3>1, <2>1, <1>1
    <3> QED
      BY <3>1, <3>2, <2>1, <1>4
  <2>2. CASE s = n
    <3>1. u.scopes[s].parent = parent
      BY <2>2 DEF Pushes
    <3>2. parent # 0
      BY <1>1
    <3> QED
      BY <3>1, <3>2, <2>2, <1>4, <1>5
  <2> QED
    BY <2>1, <2>2, <1>2, <1>6
<1>11. \A k \in DOMAIN map2 : map2[k] \in DOMAIN u.scopes /\ own[map2[k]] = k
  <2>1. \A k \in DOMAIN map : map[k] \in DOMAIN t.scopes /\ owner[map[k]] = k
    BY DEF Owns
  <2>2. CASE map2 = map
    BY <2>1, <2>2, <1>2, <1>4
  <2>3. CASE map2 = [k \in DOMAIN map \union {h} |-> IF k = h THEN n ELSE map[k]]
    <3> HIDE DEF n
    <3> QED
      BY <2>1, <2>3, <1>2, <1>4, <1>5
  <2> QED
    BY <2>2, <2>3
<1>12. \A i \in DOMAIN u.symbols : own[u.symbols[i].scope] = Block(p, u.symbols[i].span)
  BY <1>4 DEF Pushes, Owns, LinkedIn, Links
<1> QED
  BY <1>2, <1>3, <1>8, <1>9, <1>10, <1>11, <1>12 DEF Owns, own

-----------------------------------------------------------------------------
(* Each declaration has a symbol or an error. *)

Recorded(t) == {t.symbols[i].span : i \in DOMAIN t.symbols}
Refused(errs) == {e \in errs : e.error = "DuplicateDefinition"}
Seconds(errs) == {e.second : e \in Refused(errs)}

\* DeclarationsAccounted, of any table, program and errors.
Accounts(t, p, errs) ==
  /\ Recorded(t) \intersect Seconds(errs) = {}
  /\ Recorded(t) \union Seconds(errs) = {k \in DOMAIN p : IsDeclaration(p[k])}
  /\ \A e \in Refused(errs) :
       /\ e.first < e.second /\ e.first \in Recorded(t)
       /\ p[e.first].name = p[e.second].name
       /\ Block(p, e.first) = Block(p, e.second)

LEMMA AccountsMean == DeclarationsAccounted <=> Accounts(table, prog, errors)
<1>1. Duplicates = Refused(errors)
  BY DEF Duplicates, Refused
<1>2. \A k : (Declares(k) <=> IsDeclaration(prog[k])) /\ BlockOf(k) = Block(prog, k)
  BY DEF Declares, IsDeclaration, BlockOf, Block
<1> HIDE DEF Duplicates, Declares, BlockOf
<1> QED
  BY <1>1, <1>2 DEF DeclarationsAccounted, Accounts, Recorded, Seconds

\* What was accounted for still is in the program q, one statement longer.
Grown(t, errs, q) ==
  /\ \A e \in Refused(errs) :
       /\ e.first < e.second /\ e.first \in Recorded(t)
       /\ q[e.first].name = q[e.second].name
       /\ Block(q, e.first) = Block(q, e.second)
  /\ {k \in DOMAIN q : IsDeclaration(q[k])}
       = Recorded(t) \union Seconds(errs)
           \union (IF IsDeclaration(q[Len(q)]) THEN {Len(q)} ELSE {})
  /\ Len(q) \notin Recorded(t) \union Seconds(errs)

LEMMA AccountsGrow ==
  ASSUME NEW t, NEW errs, NEW p \in Seq(Statement), NEW rec \in Statement,
         Accounts(t, p, errs)
  PROVE  Grown(t, errs, Append(p, rec))
<1> DEFINE q == Append(p, rec)
<1>1. /\ Len(p) \in Nat /\ DOMAIN p = 1 .. Len(p) /\ DOMAIN q = 1 .. Len(p) + 1
      /\ \A k \in DOMAIN p : q[k] = p[k]
      /\ q[Len(p) + 1] = rec /\ Len(q) = Len(p) + 1
  BY Appended
<1> HIDE DEF q
<1>2. Recorded(t) \union Seconds(errs) \subseteq DOMAIN p
  BY DEF Accounts
<1>3. \A e \in Refused(errs) : e.first \in DOMAIN p /\ e.second \in DOMAIN p
  BY <1>2 DEF Accounts, Seconds
<1>4. \A k \in DOMAIN p : Block(q, k) = Block(p, k)
  BY <1>1 DEF Block
<1>5. ASSUME NEW e \in Refused(errs)
      PROVE  /\ e.first < e.second /\ e.first \in Recorded(t)
             /\ q[e.first].name = q[e.second].name
             /\ Block(q, e.first) = Block(q, e.second)
  <2>1. /\ e.first < e.second /\ e.first \in Recorded(t)
        /\ p[e.first].name = p[e.second].name
        /\ Block(p, e.first) = Block(p, e.second)
    BY DEF Accounts
  <2> QED
    BY <2>1, <1>1, <1>3, <1>4
<1>6. Len(p) + 1 \notin DOMAIN p
  BY <1>1
<1>7. {k \in DOMAIN q : IsDeclaration(q[k])}
        = {k \in DOMAIN p : IsDeclaration(p[k])}
            \union (IF IsDeclaration(rec) THEN {Len(p) + 1} ELSE {})
  <2>1. \A k : k \in DOMAIN q <=> k \in DOMAIN p \/ k = Len(p) + 1
    BY <1>1
  <2> HIDE DEF IsDeclaration
  <2> QED
    BY <2>1, <1>1
<1>8. Recorded(t) \union Seconds(errs) = {k \in DOMAIN p : IsDeclaration(p[k])}
  BY DEF Accounts
<1>9. Grown(t, errs, q)
  BY <1>1, <1>2, <1>5, <1>6, <1>7, <1>8 DEF Grown
<1> QED
  BY <1>9 DEF q

\* A symbol for a new declaration.
LEMMA AccountsAdd ==
  ASSUME NEW t \in Table, NEW u, NEW errs, NEW errs2, NEW p \in Seq(Statement), NEW rec \in Statement,
         NEW sym \in Symbol, Accounts(t, p, errs), IsDeclaration(rec),
         u.symbols = Append(t.symbols, sym), sym.span = Len(p) + 1,
         Refused(errs2) = Refused(errs)
  PROVE  Accounts(u, Append(p, rec), errs2)
<1> DEFINE q == Append(p, rec)
<1>1. Recorded(u) = Recorded(t) \union {Len(p) + 1}
  <2>1. /\ DOMAIN u.symbols = DOMAIN t.symbols \union {Len(t.symbols) + 1}
        /\ u.symbols[Len(t.symbols) + 1] = sym
        /\ \A i \in DOMAIN t.symbols : u.symbols[i] = t.symbols[i]
    <3>1. t.symbols \in Seq(Symbol)
      BY TableFacts
    <3>2. /\ DOMAIN t.symbols = 1 .. Len(t.symbols) /\ Len(t.symbols) \in Nat
          /\ DOMAIN u.symbols = 1 .. Len(t.symbols) + 1
          /\ u.symbols[Len(t.symbols) + 1] = sym
          /\ \A i \in DOMAIN t.symbols : u.symbols[i] = t.symbols[i]
      BY <3>1, Appended
    <3> QED
      BY <3>2
  <2> QED
    BY <2>1 DEF Recorded
<1>2. Seconds(errs2) = Seconds(errs)
  BY DEF Seconds
<1>3. Grown(t, errs, q) /\ Len(q) = Len(p) + 1 /\ q[Len(q)] = rec /\ Len(p) \in Nat
  BY AccountsGrow, Appended
<1> HIDE DEF q
<1>4. Recorded(t) \intersect Seconds(errs) = {}
  BY DEF Accounts
<1>5. Accounts(u, q, errs2)
  BY <1>1, <1>2, <1>3, <1>4 DEF Accounts, Grown
<1> QED
  BY <1>5 DEF q

\* An error for a new declaration, that leads to a symbol.
LEMMA AccountsRefuse ==
  ASSUME NEW t \in Table, NEW u, NEW errs, NEW errs2, NEW p \in Seq(Statement), NEW rec \in Statement,
         NEW dup, NEW i \in DOMAIN t.symbols,
         Accounts(t, p, errs), IsDeclaration(rec), LinkedIn(t, p),
         u.symbols = t.symbols, dup.second = Len(p) + 1, dup.first = t.symbols[i].span,
         t.symbols[i].name = rec.name,
         Block(p, t.symbols[i].span) = Block(Append(p, rec), Len(p) + 1),
         Refused(errs2) = Refused(errs) \union {dup}
  PROVE  Accounts(u, Append(p, rec), errs2)
<1> DEFINE q == Append(p, rec)
<1>1. Recorded(u) = Recorded(t)
  BY DEF Recorded
<1>2. Seconds(errs2) = Seconds(errs) \union {Len(p) + 1}
  BY DEF Seconds
<1>3. Grown(t, errs, q) /\ Len(q) = Len(p) + 1 /\ q[Len(q)] = rec /\ Len(p) \in Nat
  BY AccountsGrow, Appended
<1>4. /\ Len(p) \in Nat /\ DOMAIN p = 1 .. Len(p)
      /\ \A k \in DOMAIN p : q[k] = p[k]
      /\ q[Len(p) + 1] = rec
  BY Appended
<1>5. /\ dup.first \in DOMAIN p /\ p[dup.first].name = rec.name
      /\ Block(q, dup.first) = Block(q, dup.second)
  <2>1. dup.first \in DOMAIN p /\ p[dup.first].name = rec.name
    BY DEF LinkedIn, Links
  <2>2. Block(q, dup.first) = Block(p, dup.first)
    BY <2>1, <1>4 DEF Block
  <2> QED
    BY <2>1, <2>2
<1>6. dup.first < dup.second /\ dup.first \in Recorded(t)
  BY <1>4, <1>5 DEF Recorded
<1> HIDE DEF q
<1>7. Recorded(t) \intersect Seconds(errs) = {}
  BY DEF Accounts
<1>8. \A e \in Refused(errs2) :
        /\ e.first < e.second /\ e.first \in Recorded(u)
        /\ q[e.first].name = q[e.second].name
        /\ Block(q, e.first) = Block(q, e.second)
  BY <1>1, <1>3, <1>4, <1>5, <1>6 DEF Grown
<1>9. Accounts(u, q, errs2)
  BY <1>1, <1>2, <1>3, <1>7, <1>8 DEF Accounts, Grown
<1> QED
  BY <1>9 DEF q

\* What is no declaration needs neither.
LEMMA AccountsQuiet ==
  ASSUME NEW t, NEW errs, NEW p \in Seq(Statement), NEW rec \in Statement,
         Accounts(t, p, errs), ~ IsDeclaration(rec)
  PROVE  Accounts(t, Append(p, rec), errs)
<1> DEFINE q == Append(p, rec)
<1>1. Grown(t, errs, q) /\ Len(q) = Len(p) + 1 /\ q[Len(q)] = rec /\ Len(p) \in Nat
  BY AccountsGrow, Appended
<1> HIDE DEF q
<1>2. Accounts(t, q, errs)
  BY <1>1 DEF Accounts, Grown
<1> QED
  BY <1>2 DEF q

-----------------------------------------------------------------------------
(* The scopes on the stack are those of the constructs around the walk. *)

\* A construct with a scope, entered.
LEMMA PlaceScope ==
  ASSUME NEW stack \in Seq(Nat), NEW c \in Nat, NEW S, NEW opn \in Seq(S), NEW con \in S,
         NEW owner, NEW owner2, NEW place, stack # <<>>,
         Places(stack, opn, owner, place), con.kind \in Scoping,
         \A d \in DOMAIN stack : owner2[stack[d]] = owner[stack[d]],
         owner2[c] = con.at
  PROVE  \E place2 : Places(Append(stack, c), Append(opn, con), owner2, place2)
<1> DEFINE n == Len(stack)
           m == Len(opn)
           stack2 == Append(stack, c)
           opn2 == Append(opn, con)
           place2 == [d \in 1 .. n + 1 |-> IF d = n + 1 THEN m + 1 ELSE place[d]]
<1>1. /\ n \in Nat \ {0} /\ DOMAIN stack = 1 .. n /\ Len(stack2) = n + 1 /\ DOMAIN stack2 = 1 .. n + 1
      /\ stack2[n + 1] = c /\ \A d \in 1 .. n : stack2[d] = stack[d]
  BY EmptySeq, Appended
<1>2. /\ m \in Nat /\ DOMAIN opn = 1 .. m /\ Len(opn2) = m + 1 /\ DOMAIN opn2 = 1 .. m + 1
      /\ opn2[m + 1] = con /\ \A i \in 1 .. m : opn2[i] = opn[i]
  BY Appended
<1>3. /\ place \in [1 .. n -> 0 .. m] /\ place[1] = 0
      /\ \A a, b \in 1 .. n : a < b => place[a] < place[b]
      /\ \A i \in 1 .. m : opn[i].kind \in Scoping <=> \E d \in 2 .. n : place[d] = i
      /\ \A d \in 2 .. n : owner[stack[d]] = opn[place[d]].at
  BY <1>1, <1>2 DEF Places
<1> HIDE DEF n, m, stack2, opn2
<1>4. /\ place2[n + 1] = m + 1 /\ \A d \in 1 .. n : place2[d] = place[d] /\ place2[d] \in 0 .. m
      /\ place2 \in [1 .. n + 1 -> 0 .. m + 1]
  <2>1. n + 1 \in 1 .. n + 1 /\ m + 1 \in 0 .. m + 1 /\ n + 1 \notin 1 .. n
    BY <1>1, <1>2
  <2>2. \A d \in 1 .. n : place[d] \in 0 .. m /\ d \in 1 .. n + 1 /\ d # n + 1
    <3>1. \A d \in 1 .. n : d \in 1 .. n + 1 /\ d # n + 1
      BY <1>1
    <3>2. \A d \in 1 .. n : place[d] \in 0 .. m
      BY <1>3
    <3> QED
      BY <3>1, <3>2
  <2>3. \A d \in 1 .. n + 1 : d = n + 1 \/ d \in 1 .. n
    BY <1>1
  <2>4. \A i \in 0 .. m : i \in 0 .. m + 1
    BY <1>2
  <2> QED
    BY <2>1, <2>2, <2>3, <2>4
<1> HIDE DEF place2
<1>5. place2[1] = 0 /\ 1 \in 1 .. n /\ n + 1 \in 2 .. n + 1
  BY <1>1, <1>3, <1>4
<1>6. \A a, b \in 1 .. n + 1 : a < b => place2[a] < place2[b]
  <2>1. SUFFICES ASSUME NEW a \in 1 .. n + 1, NEW b \in 1 .. n + 1, a < b PROVE place2[a] < place2[b]
    OBVIOUS
  <2>2. a \in 1 .. n /\ (b \in 1 .. n \/ b = n + 1)
    BY <2>1, <1>1
  <2> QED
    BY <2>1, <2>2, <1>2, <1>3, <1>4
<1>7. \A d \in 2 .. n : d \in 1 .. n /\ place[d] \in 1 .. m /\ d \in 2 .. n + 1
  BY <1>1, <1>3
<1>8. \A i \in 1 .. m + 1 : opn2[i].kind \in Scoping <=> \E d \in 2 .. n + 1 : place2[d] = i
  <2>1. ASSUME NEW i \in 1 .. m
        PROVE  opn2[i].kind \in Scoping <=> \E d \in 2 .. n + 1 : place2[d] = i
    <3>1. opn2[i].kind \in Scoping <=> \E d \in 2 .. n : place[d] = i
      BY <1>2, <1>3
    <3>2. ASSUME NEW d \in 2 .. n + 1, place2[d] = i PROVE d \in 2 .. n
      BY <3>2, <1>1, <1>2, <1>4
    <3> QED
      BY <3>1, <3>2, <1>4, <1>7
  <2>2. ASSUME NEW i \in 1 .. m + 1, i \notin 1 .. m PROVE i = m + 1
    BY <2>2, <1>2
  <2> QED
    BY <2>1, <2>2, <1>2, <1>4, <1>5
<1>9. \A d \in 2 .. n + 1 : owner2[stack2[d]] = opn2[place2[d]].at
  <2>1. ASSUME NEW d \in 2 .. n PROVE owner2[stack2[d]] = opn2[place2[d]].at
    <3>1. d \in 1 .. n /\ place[d] \in 1 .. m /\ place2[d] = place[d]
      BY <1>4, <1>7
    <3>2. owner2[stack2[d]] = owner[stack[d]]
      BY <3>1, <1>1
    <3> QED
      BY <3>1, <3>2, <1>2, <1>3
  <2>2. ASSUME NEW d \in 2 .. n + 1, d \notin 2 .. n PROVE d = n + 1
    BY <2>2, <1>1
  <2>3. owner2[stack2[n + 1]] = opn2[place2[n + 1]].at
    BY <1>1, <1>2, <1>4
  <2> QED
    BY <2>1, <2>2, <2>3
<1>10. Places(stack2, opn2, owner2, place2)
  BY <1>1, <1>2, <1>4, <1>5, <1>6, <1>8, <1>9 DEF Places
<1> QED
  BY <1>10 DEF stack2, opn2

\* A construct without one, entered.
LEMMA PlaceBody ==
  ASSUME NEW stack \in Seq(Nat), NEW S, NEW opn \in Seq(S), NEW con \in S, NEW owner, NEW place,
         stack # <<>>,
         Places(stack, opn, owner, place), con.kind \notin Scoping
  PROVE  Places(stack, Append(opn, con), owner, place)
<1> DEFINE n == Len(stack)
           m == Len(opn)
           opn2 == Append(opn, con)
<1>1. n \in Nat \ {0} /\ DOMAIN stack = 1 .. n
  BY EmptySeq
<1>2. /\ m \in Nat /\ DOMAIN opn = 1 .. m /\ Len(opn2) = m + 1 /\ DOMAIN opn2 = 1 .. m + 1
      /\ opn2[m + 1] = con /\ \A i \in 1 .. m : opn2[i] = opn[i]
  BY Appended
<1>3. /\ place \in [1 .. n -> 0 .. m] /\ place[1] = 0
      /\ \A a, b \in 1 .. n : a < b => place[a] < place[b]
      /\ \A i \in 1 .. m : opn[i].kind \in Scoping <=> \E d \in 2 .. n : place[d] = i
      /\ \A d \in 2 .. n : owner[stack[d]] = opn[place[d]].at
  BY <1>1, <1>2 DEF Places
<1> HIDE DEF n, m, opn2
<1>4. \A d \in 2 .. n : d \in 1 .. n /\ 1 \in 1 .. n /\ place[d] \in 1 .. m
  BY <1>1, <1>3
<1>5. \A i \in 1 .. m + 1 : opn2[i].kind \in Scoping <=> \E d \in 2 .. n : place[d] = i
  <2>1. \A i \in 1 .. m + 1 : i \in 1 .. m \/ i = m + 1
    BY <1>2
  <2>2. m + 1 \notin 1 .. m
    BY <1>2
  <2> QED
    BY <2>1, <2>2, <1>2, <1>3, <1>4
<1>6. place \in [1 .. n -> 0 .. m + 1]
  BY <1>2, <1>3
<1>7. \A d \in 2 .. n : owner[stack[d]] = opn2[place[d]].at
  BY <1>2, <1>3, <1>4
<1> QED
  BY <1>1, <1>2, <1>3, <1>5, <1>6, <1>7 DEF Places, n, opn2

LEMMA Shortened ==
  ASSUME NEW S, NEW q \in Seq(S), q # <<>>
  PROVE  /\ Len(q) \in Nat \ {0} /\ DOMAIN q = 1 .. Len(q)
         /\ SubSeq(q, 1, Len(q) - 1) \in Seq(S)
         /\ Len(SubSeq(q, 1, Len(q) - 1)) = Len(q) - 1
         /\ DOMAIN SubSeq(q, 1, Len(q) - 1) = 1 .. Len(q) - 1
         /\ \A i \in 1 .. Len(q) - 1 : SubSeq(q, 1, Len(q) - 1)[i] = q[i]
<1>1. Len(q) \in Nat \ {0} /\ DOMAIN q = 1 .. Len(q)
  BY EmptySeq
<1>2. \A i \in 1 .. Len(q) - 1 : q[i] \in S
  BY <1>1, ElementOfSeq
<1>3. SubSeq(q, 1, Len(q) - 1) = [i \in 1 .. Len(q) - 1 |-> q[i]]
  BY <1>1
<1> QED
  BY <1>1, <1>2, <1>3

\* The innermost construct, left; if it has a scope, that is the innermost one.
LEMMA PlaceLeave ==
  ASSUME NEW stack \in Seq(Nat), NEW S, NEW opn \in Seq(S), NEW owner, NEW place,
         stack # <<>>, opn # <<>>, Places(stack, opn, owner, place)
  PROVE  /\ opn[Len(opn)].kind \in Scoping =>
              /\ Len(stack) > 1
              /\ owner[stack[Len(stack)]] = opn[Len(opn)].at
              /\ \E place2 : Places(SubSeq(stack, 1, Len(stack) - 1), SubSeq(opn, 1, Len(opn) - 1),
                                    owner, place2)
         /\ opn[Len(opn)].kind \notin Scoping =>
              Places(stack, SubSeq(opn, 1, Len(opn) - 1), owner, place)
<1> DEFINE n == Len(stack)
           m == Len(opn)
           opn2 == SubSeq(opn, 1, m - 1)
<1>1. n \in Nat \ {0} /\ DOMAIN stack = 1 .. n
  BY EmptySeq
<1>2. /\ m \in Nat \ {0} /\ DOMAIN opn = 1 .. m /\ Len(opn2) = m - 1 /\ DOMAIN opn2 = 1 .. m - 1
      /\ \A i \in 1 .. m - 1 : opn2[i] = opn[i]
  BY Shortened
<1>3. /\ place \in [1 .. n -> 0 .. m] /\ place[1] = 0
      /\ \A a, b \in 1 .. n : a < b => place[a] < place[b]
      /\ \A i \in 1 .. m : opn[i].kind \in Scoping <=> \E d \in 2 .. n : place[d] = i
      /\ \A d \in 2 .. n : owner[stack[d]] = opn[place[d]].at
  BY <1>1, <1>2 DEF Places
<1>4. ASSUME opn[m].kind \in Scoping
      PROVE  /\ n > 1 /\ owner[stack[n]] = opn[m].at
             /\ \E place2 : Places(SubSeq(stack, 1, n - 1), opn2, owner, place2)
  <2> DEFINE stack2 == SubSeq(stack, 1, n - 1)
             place2 == [d \in 1 .. n - 1 |-> place[d]]
  <2>1. m \in 1 .. m
    BY <1>2
  <2>2. PICK d \in 2 .. n : place[d] = m
    BY <1>3, <1>4, <2>1
  <2> HIDE DEF m, opn2
  <2>3. n > 1
    BY <1>1, <2>2
  <2>4. /\ Len(stack2) = n - 1 /\ DOMAIN stack2 = 1 .. n - 1
        /\ \A c \in 1 .. n - 1 : stack2[c] = stack[c]
    BY Shortened
  <2> HIDE DEF n, stack2
  <2>5. \A c \in 1 .. n : place[c] \in 0 .. m
    BY <1>3
  <2>6. d = n
    <3>1. d \in 1 .. n /\ n \in 1 .. n /\ (d = n \/ d < n)
      BY <1>1, <2>2
    <3>2. d < n => place[d] < place[n]
      BY <1>3, <3>1
    <3> QED
      BY <2>2, <2>5, <3>1, <3>2
  <2>7. place[n] = m /\ \A c \in 1 .. n - 1 : place[c] \in 0 .. m - 1
    <3>1. \A c \in 1 .. n - 1 : c \in 1 .. n /\ c < n /\ n \in 1 .. n
      BY <1>1
    <3>2. \A c \in 1 .. n - 1 : place[c] < place[n]
      BY <1>3, <3>1
    <3> QED
      BY <2>2, <2>5, <2>6, <3>1, <3>2
  <2>8. owner[stack[n]] = opn[m].at
    BY <1>3, <2>2, <2>6
  <2>9. place2 \in [1 .. n - 1 -> 0 .. m - 1] /\ \A c \in 1 .. n - 1 : place2[c] = place[c]
    BY <2>7
  <2> HIDE DEF place2
  <2>10. place2[1] = 0
    <3>1. 1 \in 1 .. n - 1
      BY <1>1, <2>3
    <3> QED
      BY <3>1, <1>3, <2>9
  <2>11. \A a, b \in 1 .. n - 1 : a < b => place2[a] < place2[b]
    <3>1. \A a \in 1 .. n - 1 : a \in 1 .. n
      BY <1>1
    <3> QED
      BY <3>1, <1>3, <2>9
  <2>12. \A c \in 2 .. n - 1 : c \in 2 .. n /\ c \in 1 .. n - 1 /\ place[c] \in 1 .. m - 1
    <3>1. \A c \in 2 .. n - 1 : c \in 2 .. n /\ c \in 1 .. n - 1 /\ 1 \in 1 .. n /\ c \in 1 .. n /\ 1 < c
      BY <1>1
    <3>2. \A c \in 2 .. n - 1 : 0 < place[c]
      BY <3>1, <1>3
    <3> QED
      BY <3>1, <3>2, <2>7
  <2>13. \A i \in 1 .. m - 1 : opn2[i].kind \in Scoping <=> \E c \in 2 .. n - 1 : place2[c] = i
    <3>1. ASSUME NEW i \in 1 .. m - 1, NEW c \in 2 .. n, place[c] = i PROVE c \in 2 .. n - 1
      <4>1. c # n
        BY <3>1, <1>2, <2>7
      <4> QED
        BY <4>1, <1>1
    <3>2. \A i \in 1 .. m - 1 : i \in 1 .. m
      BY <1>2
    <3> QED
      BY <3>1, <3>2, <1>2, <1>3, <2>9, <2>12
  <2>14. \A c \in 2 .. n - 1 : owner[stack2[c]] = opn2[place2[c]].at
    BY <2>4, <2>9, <2>12, <1>2, <1>3
  <2>15. Places(stack2, opn2, owner, place2)
    BY <1>2, <2>4, <2>9, <2>10, <2>11, <2>13, <2>14 DEF Places
  <2> QED
    BY <2>3, <2>8, <2>15 DEF stack2
<1>5. ASSUME opn[m].kind \notin Scoping PROVE Places(stack, opn2, owner, place)
  <2>1. m \in 1 .. m
    BY <1>2
  <2>2. \A d \in 2 .. n : place[d] # m
    BY <1>3, <1>5, <2>1
  <2> HIDE DEF n, m, opn2
  <2>3. \A d \in 1 .. n : place[d] \in 0 .. m - 1
    <3>1. \A d \in 1 .. n : place[d] \in 0 .. m /\ (d = 1 \/ d \in 2 .. n)
      BY <1>1, <1>3
    <3> QED
      BY <3>1, <1>2, <1>3, <2>2
  <2>4. place \in [1 .. n -> 0 .. m - 1]
    BY <1>3, <2>3
  <2>5. \A d \in 2 .. n : d \in 1 .. n /\ place[d] \in 1 .. m - 1
    <3>1. \A d \in 2 .. n : d \in 1 .. n /\ 1 \in 1 .. n /\ 1 < d
      BY <1>1
    <3>2. \A d \in 2 .. n : 0 < place[d]
      BY <3>1, <1>3
    <3> QED
      BY <3>1, <3>2, <2>3
  <2>6. \A d \in 2 .. n : owner[stack[d]] = opn2[place[d]].at
    BY <1>2, <1>3, <2>5
  <2>7. \A i \in 1 .. m - 1 : i \in 1 .. m
    BY <1>2
  <2>8. Places(stack, opn2, owner, place)
    BY <1>1, <1>2, <1>3, <2>4, <2>6, <2>7 DEF Places, n
  <2> QED
    BY <2>8
<1> QED
  BY <1>4, <1>5

-----------------------------------------------------------------------------
(* What a declaration where the walk is makes of the arena. *)

Report == [error : ErrorKinds, name : Names, first : Nat, second : Nat]
Construct == [kind : Scoping \union {"body", "gen"}, at : Nat]

Taken(x) == lookup_local(table, current_scope, x) # 0

\* The errors that Push adds to.
LEMMA PushTypes ==
  ASSUME IInv, NEW x \in Names, NEW errs \in SUBSET TypeErrors, Push(x, errs)
  PROVE  /\ errors' \subseteq Report /\ errors \subseteq errors'
         /\ ~ Taken(x) => Refused(errors') = Refused(errors)
         /\ Taken(x) =>
              /\ lookup_local(table, current_scope, x) \in DOMAIN table.symbols
              /\ table.symbols[lookup_local(table, current_scope, x)].name = x
              /\ table.symbols[lookup_local(table, current_scope, x)].scope = current_scope
              /\ Refused(errors') = Refused(errors) \union
                   {[error |-> "DuplicateDefinition", name |-> x, second |-> Here,
                     first |-> table.symbols[lookup_local(table, current_scope, x)].span]}
<1> DEFINE i == lookup_local(table, current_scope, x)
           fresh == {[error |-> e, name |-> x, first |-> 0, second |-> Here] : e \in errs}
           dup == [error |-> "DuplicateDefinition", name |-> x, second |-> Here,
                   first |-> table.symbols[i].span]
<1>1. errors \subseteq Report
  BY DEF IInv, TypeOK, ErrorKinds, TypeErrors, Report
<1>2. Here \in Nat
  BY OpenFacts DEF IInv
<1>3. fresh \subseteq Report /\ Refused(fresh) = {}
  BY <1>2 DEF ErrorKinds, Report, Refused, TypeErrors
<1>4. ASSUME Taken(x)
      PROVE  /\ i \in DOMAIN table.symbols /\ table.symbols[i].name = x
             /\ table.symbols[i].scope = current_scope
             /\ dup \in Report /\ dup.error = "DuplicateDefinition"
  <2>1. current_scope \in DOMAIN table.scopes /\ table \in Table /\ WellFormed(table)
    BY CurrentScope DEF TypeOK, IInv
  <2>2. /\ i \in DOMAIN table.symbols /\ table.symbols[i].name = x
        /\ table.symbols[i].scope = current_scope
    BY <1>4, <2>1 DEF WellFormed, Taken
  <2>3. table.symbols[i].span \in Nat
    BY <2>1, <2>2, TableFacts DEF Symbol
  <2> HIDE DEF i
  <2> QED
    BY <1>2, <2>2, <2>3 DEF ErrorKinds, Report
<1>5. /\ ~ Taken(x) => errors' = errors \union fresh
      /\ Taken(x) => errors' = errors \union fresh \union {dup}
  <2>1. errors' = errors \union fresh \union (IF i = 0 THEN {} ELSE {dup})
    BY DEF Push
  <2> HIDE DEF fresh, dup
  <2> QED
    BY <2>1 DEF Taken
<1> HIDE DEF fresh, dup, i
<1>6. CASE ~ Taken(x)
  <2>1. Refused(errors') = Refused(errors) \union Refused(fresh)
    BY <1>5, <1>6 DEF Refused
  <2> QED
    BY <2>1, <1>1, <1>3, <1>5, <1>6
<1>7. CASE Taken(x)
  <2>1. Refused(errors') = Refused(errors) \union Refused(fresh) \union {dup}
    BY <1>4, <1>5, <1>7 DEF Refused
  <2> QED
    BY <2>1, <1>1, <1>3, <1>4, <1>5, <1>7 DEF dup, i
<1> QED
  BY <1>6, <1>7

\* The table u, after a declaration at the end of the program q.
Kept(u, q) ==
  /\ u \in Table /\ WellFormed(u) /\ SameScopes(table, u) /\ LinkedIn(u, q)
  /\ \A owner : Owner(owner) /\ owner[current_scope] = ScopeAt => Owns(u, q, scope_map, owner)
  /\ Len(u.symbols) \in {Len(table.symbols), Len(table.symbols) + 1}

LEMMA DefineKeeps ==
  ASSUME IInv, NEW x \in Names, NEW kind \in SymbolKind, NEW ty \in Ty,
         NEW errs \in SUBSET TypeErrors, NEW rec \in Statement, Push(x, errs),
         IsDeclaration(rec), rec.name = x, rec.what # "for", rec.scope = ScopeAt
  PROVE  /\ Kept(Defined(x, kind, ty), Append(prog, rec))
         /\ Accounts(Defined(x, kind, ty), Append(prog, rec), errors')
         /\ errors' \subseteq Report
<1> DEFINE u == Defined(x, kind, ty)
           q == Append(prog, rec)
           sym == Made(current_scope, x, kind, ty, Here)
<1>1. /\ prog \in Seq(Statement) /\ Len(prog) \in Nat /\ DOMAIN prog = 1 .. Len(prog)
      /\ Here = Len(prog) + 1 /\ Here \in Nat
  BY OpenFacts DEF IInv
<1>2. /\ table \in Table /\ WellFormed(table) /\ current_scope \in DOMAIN table.scopes
      /\ current_scope \in Nat
  BY CurrentScope DEF TypeOK, IInv
<1>3. LinkedIn(table, prog) /\ Accounts(table, prog, errors)
  BY AccountsMean DEF IInv, Linked
<1>4. LinkedIn(table, q)
  BY <1>1, <1>3, LinkGrow
<1>5. \A owner : Owner(owner) => Owns(table, q, scope_map, owner)
  BY <1>1, <1>2, <1>3, OwnGrow DEF Owner
<1>6. /\ q[Here] = rec /\ Here \in DOMAIN q /\ Block(q, Here) = ScopeAt
      /\ \A k \in DOMAIN prog : q[k] = prog[k]
  BY <1>1, Appended DEF Block
<1>7. /\ u \in Table /\ WellFormed(u) /\ SameScopes(table, u)
      /\ Taken(x) => u = table
      /\ ~ Taken(x) => Adds(table, u, sym)
  BY <1>1, <1>2, DefineTable DEF Defined, Taken
<1>8. Len(table.symbols) \in Nat
  BY <1>2, TableFacts
<1> HIDE DEF u
<1>9. errors' \subseteq Report
  BY PushTypes
<1>10. CASE Taken(x)
  <2> DEFINE i == lookup_local(table, current_scope, x)
             dup == [error |-> "DuplicateDefinition", name |-> x, second |-> Here,
                     first |-> table.symbols[i].span]
  <2>1. u = table
    BY <1>7, <1>10
  <2>2. Kept(u, q)
    <3> HIDE DEF q
    <3> QED
      BY <1>4, <1>5, <1>7, <1>8, <2>1 DEF Kept
  <2>3. /\ i \in DOMAIN table.symbols /\ table.symbols[i].name = x
        /\ table.symbols[i].scope = current_scope
        /\ Refused(errors') = Refused(errors) \union {dup}
    BY <1>10, PushTypes
  <2>4. dup.second = Len(prog) + 1 /\ dup.first = table.symbols[i].span
    BY <1>1
  <2> HIDE DEF dup, i
  <2>5. Block(prog, table.symbols[i].span) = ScopeAt
    <3>1. PICK owner, place : Owner(owner) /\ Place(owner, place)
      BY DEF IInv, Owned
    <3>2. owner[current_scope] = ScopeAt
      BY <3>1, ScopeAtOwner DEF IInv
    <3> QED
      BY <3>1, <3>2, <2>3 DEF Owner, Owns
  <2>6. Accounts(u, q, errors')
    BY <1>1, <1>2, <1>3, <1>6, <2>1, <2>3, <2>4, <2>5, AccountsRefuse
  <2> QED
    BY <1>9, <2>2, <2>6 DEF u
<1>11. CASE ~ Taken(x)
  <2>1. /\ sym.scope = current_scope /\ sym.name = x /\ sym.span = Here
        /\ sym \in Symbol
    BY <1>1, <1>2 DEF Made, Symbol
  <2>2. Adds(table, u, sym) /\ SameScopes(table, u)
    BY <1>7, <1>11
  <2> HIDE DEF sym
  <2>3. u.symbols = Append(table.symbols, sym)
    BY <2>2 DEF Adds
  <2>4. LinkedIn(u, q)
    <3> HIDE DEF q
    <3> QED
      BY <1>2, <1>4, <1>6, <2>1, <2>2, LinkAdd
  <2>5. ASSUME NEW owner, Owner(owner), owner[current_scope] = ScopeAt
        PROVE  Owns(u, q, scope_map, owner)
    <3> HIDE DEF q
    <3> QED
      BY <1>2, <1>5, <1>6, <2>1, <2>2, <2>5, OwnAdd
  <2>6. Refused(errors') = Refused(errors)
    BY <1>11, PushTypes
  <2>7. Accounts(u, q, errors')
    BY <1>1, <1>2, <1>3, <2>1, <2>3, <2>6, AccountsAdd
  <2>8. Len(u.symbols) = Len(table.symbols) + 1
    BY <1>2, <2>1, <2>3, Appended, TableFacts
  <2>9. Kept(u, q)
    <3> HIDE DEF q
    <3> QED
      BY <1>7, <2>2, <2>4, <2>5, <2>8 DEF Kept
  <2> QED
    BY <1>9, <2>7, <2>9 DEF u
<1> QED
  BY <1>10, <1>11

-----------------------------------------------------------------------------
(* The stacks, when the walk goes on. *)

\* What Nested says of the program p, with the constructs and the map that
\* there are before its last statement.
Inside(p) ==
  /\ \A k \in DOMAIN p : p[k].scope < k
  /\ \A i \in DOMAIN open :
       open[i].at \in DOMAIN p /\ open[i].at < Len(p) /\ p[open[i].at].what = open[i].kind
  /\ {k \in DOMAIN p : p[k].what \in {"module", "fn"}}
       = DOMAIN scope_map \union (IF p[Len(p)].what \in {"module", "fn"} THEN {Len(p)} ELSE {})
  /\ DOMAIN scope_map \subseteq DOMAIN p

LEMMA InsideGrows ==
  ASSUME IInv, NEW rec \in Statement, rec.scope = ScopeAt
  PROVE  Inside(Append(prog, rec))
<1> DEFINE q == Append(prog, rec)
<1>1. /\ prog \in Seq(Statement) /\ Len(prog) \in Nat /\ DOMAIN prog = 1 .. Len(prog)
      /\ Here = Len(prog) + 1 /\ Here \in Nat
  BY OpenFacts DEF IInv
<1>2. /\ DOMAIN q = 1 .. Here /\ Len(q) = Here /\ q[Here] = rec
      /\ \A k \in DOMAIN prog : q[k] = prog[k]
  BY <1>1, Appended
<1> HIDE DEF q
<1>3. ScopeAt < Here
  BY <1>1, ScopeAtOwner DEF Owned, IInv
<1>4. \A k \in DOMAIN q : k \in DOMAIN prog \/ k = Here
  BY <1>1, <1>2
<1>5. \A k \in DOMAIN q : q[k].scope < k
  BY <1>2, <1>3, <1>4 DEF IInv, Nested
<1>6. ASSUME NEW i \in DOMAIN open
      PROVE  open[i].at \in DOMAIN q /\ open[i].at < Len(q) /\ q[open[i].at].what = open[i].kind
  <2>1. open[i].at \in DOMAIN prog /\ prog[open[i].at].what = open[i].kind
    BY DEF IInv, Nested
  <2>2. open[i].at \in DOMAIN q /\ open[i].at < Here
    BY <2>1, <1>1, <1>2
  <2> QED
    BY <2>1, <2>2, <1>2
<1>7. DOMAIN scope_map = {k \in DOMAIN prog : prog[k].what \in {"module", "fn"}}
  BY DEF IInv, Nested
<1>8. DOMAIN prog \subseteq DOMAIN q /\ Here \in DOMAIN q
  BY <1>1, <1>2
<1>9. {k \in DOMAIN q : q[k].what \in {"module", "fn"}}
        = DOMAIN scope_map \union (IF rec.what \in {"module", "fn"} THEN {Here} ELSE {})
  BY <1>2, <1>4, <1>7, <1>8
<1>10. Inside(q)
  BY <1>2, <1>5, <1>6, <1>7, <1>8, <1>9 DEF Inside
<1> QED
  BY <1>10 DEF q

\* A construct with a scope of its own is entered.
EnterScope(kind) ==
  /\ DOMAIN table'.scopes = 1 .. Len(table.scopes) + 1
  /\ scope_stack' = Append(scope_stack, Len(table.scopes) + 1)
  /\ scope_map' = IF kind \in {"module", "fn"}
                    THEN [k \in DOMAIN scope_map \union {Here} |->
                            IF k = Here THEN Len(table.scopes) + 1 ELSE scope_map[k]]
                    ELSE scope_map
  /\ open' = Append(open, [kind |-> kind, at |-> Here])

LEMMA EnterNested ==
  ASSUME IInv, NEW rec \in Statement, rec.scope = ScopeAt, rec.what \in Scoping,
         prog' = Append(prog, rec), EnterScope(rec.what)
  PROVE  /\ Nested'
         /\ scope_stack' \in Seq(Nat) /\ open' \in Seq(Construct)
         /\ scope_map' \in [DOMAIN scope_map' -> Nat]
<1> DEFINE c == Len(table.scopes) + 1
           con == [kind |-> rec.what, at |-> Here]
           n == Len(scope_stack)
           m == Len(open)
<1>1. /\ Len(table.scopes) \in Nat /\ DOMAIN table.scopes = 1 .. Len(table.scopes)
  BY TableFacts DEF IInv, TypeOK
<1>2. /\ n \in Nat \ {0} /\ scope_stack \in Seq(Nat) /\ DOMAIN scope_stack = 1 .. n
  BY CurrentScope DEF IInv
<1>3. /\ open \in Seq(Construct) /\ m \in Nat /\ DOMAIN open = 1 .. m
      /\ Here \in Nat /\ Here = Len(prog) + 1 /\ prog \in Seq(Statement)
  BY OpenFacts DEF IInv, Construct
<1>4. Len(prog') = Here /\ prog'[Here] = rec /\ Here \in DOMAIN prog'
  BY <1>3, Appended
<1>5. Inside(prog')
  BY InsideGrows
<1>6. con \in Construct /\ c \in Nat
  BY <1>1, <1>3 DEF Construct
<1>7. /\ scope_stack' = Append(scope_stack, c) /\ open' = Append(open, con)
      /\ DOMAIN table'.scopes = 1 .. c
  BY DEF EnterScope
<1>8. /\ scope_stack' \in Seq(Nat) /\ DOMAIN scope_stack' = 1 .. n + 1 /\ Len(scope_stack') = n + 1
      /\ scope_stack'[n + 1] = c
      /\ \A d \in 1 .. n : scope_stack'[d] = scope_stack[d]
  BY <1>2, <1>6, <1>7, Appended
<1>9. /\ open' \in Seq(Construct) /\ DOMAIN open' = 1 .. m + 1
      /\ open'[m + 1] = con
      /\ \A i \in 1 .. m : open'[i] = open[i]
  BY <1>3, <1>6, <1>7, Appended
<1>10. con.at = Here /\ con.kind = rec.what
  OBVIOUS
<1> HIDE DEF con, n, m
<1>11. scope_stack' # <<>> /\ scope_stack'[1] = root_scope
  <2>1. 1 \in 1 .. n /\ scope_stack[1] = root_scope
    BY <1>2 DEF IInv, Nested
  <2> QED
    BY <2>1, <1>2, <1>8
<1>12. \A d \in 1 .. n : scope_stack[d] \in DOMAIN table.scopes /\ scope_stack[d] < c
  <2>1. \A d \in 1 .. n : scope_stack[d] \in DOMAIN table.scopes
    BY <1>2 DEF IInv, Nested
  <2> QED
    BY <2>1, <1>1
<1>13. \A d \in DOMAIN scope_stack' : d \in 1 .. n \/ d = n + 1
  BY <1>2, <1>8
<1>14. c \in 1 .. c /\ DOMAIN table.scopes \subseteq 1 .. c
  BY <1>1
<1>15. \A d \in DOMAIN scope_stack' : scope_stack'[d] \in DOMAIN table'.scopes
  <2> HIDE DEF c
  <2> QED
    BY <1>7, <1>8, <1>12, <1>13, <1>14
<1>16. \A a, b \in DOMAIN scope_stack' : a < b => scope_stack'[a] < scope_stack'[b]
  <2>1. \A a, b \in 1 .. n : a < b => scope_stack[a] < scope_stack[b]
    BY <1>2 DEF IInv, Nested
  <2>2. SUFFICES ASSUME NEW a \in DOMAIN scope_stack', NEW b \in DOMAIN scope_stack', a < b
                 PROVE  scope_stack'[a] < scope_stack'[b]
    OBVIOUS
  <2>3. a \in 1 .. n
    BY <2>2, <1>2, <1>8
  <2> HIDE DEF c
  <2> QED
    BY <2>1, <2>2, <2>3, <1>8, <1>12, <1>13
<1>17. \A i \in DOMAIN open' : i \in 1 .. m \/ i = m + 1
  BY <1>3, <1>9
<1>18. \A i \in DOMAIN open' : open'[i].at \in DOMAIN prog' /\ prog'[open'[i].at].what = open'[i].kind
  BY <1>3, <1>4, <1>5, <1>9, <1>10, <1>17 DEF Inside
<1>19. \A i, j \in DOMAIN open' : i < j => open'[i].at < open'[j].at
  <2>1. \A i, j \in 1 .. m : i < j => open[i].at < open[j].at
    BY <1>3 DEF IInv, Nested
  <2>2. SUFFICES ASSUME NEW i \in DOMAIN open', NEW j \in DOMAIN open', i < j
                 PROVE  open'[i].at < open'[j].at
    OBVIOUS
  <2>3. i \in 1 .. m
    BY <2>2, <1>3, <1>9
  <2>4. open[i].at < Here
    BY <2>3, <1>3, <1>4, <1>5 DEF Inside
  <2> QED
    BY <2>1, <2>2, <2>3, <2>4, <1>9, <1>10, <1>17
<1>20. DOMAIN scope_map' = DOMAIN scope_map \union (IF rec.what \in {"module", "fn"} THEN {Here} ELSE {})
  BY DEF EnterScope
<1>21. DOMAIN scope_map' = {k \in DOMAIN prog' : prog'[k].what \in {"module", "fn"}}
  BY <1>4, <1>5, <1>20 DEF Inside
<1>22. \A k \in DOMAIN prog' : prog'[k].scope < k
  BY <1>5 DEF Inside
<1>23. Nested'
  BY <1>11, <1>15, <1>16, <1>18, <1>19, <1>21, <1>22 DEF Nested
<1>24. scope_map' \in [DOMAIN scope_map' -> Nat]
  <2>1. scope_map \in [DOMAIN scope_map -> Nat]
    BY DEF IInv, TypeOK
  <2>2. c \in Nat /\ scope_map' = IF rec.what \in {"module", "fn"}
                    THEN [k \in DOMAIN scope_map \union {Here} |-> IF k = Here THEN c ELSE scope_map[k]]
                    ELSE scope_map
    BY <1>6 DEF EnterScope
  <2> HIDE DEF c
  <2> QED
    BY <2>1, <2>2
<1> QED
  BY <1>8, <1>9, <1>23, <1>24

\* It is in its place on the stacks.
LEMMA EnterPlaces ==
  ASSUME IInv, NEW rec \in Statement, rec.what \in Scoping, EnterScope(rec.what),
         NEW owner, NEW place, Owner(owner), Place(owner, place)
  PROVE  \E place2 : Places(scope_stack', open', More(table, owner, Here), place2)
<1> DEFINE c == Len(table.scopes) + 1
           con == [kind |-> rec.what, at |-> Here]
           own == More(table, owner, Here)
<1>1. /\ Len(table.scopes) \in Nat /\ DOMAIN table.scopes = 1 .. Len(table.scopes)
  BY TableFacts DEF IInv, TypeOK
<1>2. scope_stack \in Seq(Nat) /\ scope_stack # <<>> /\ c \in Nat
  BY <1>1, CurrentScope DEF IInv, Nested
<1>3. open \in Seq(Construct) /\ con \in Construct
  BY OpenFacts DEF IInv, Construct
<1>4. own[c] = con.at
  BY <1>1 DEF More
<1>5. \A s \in DOMAIN table.scopes : own[s] = owner[s]
  BY <1>1 DEF More
<1>6. \A d \in DOMAIN scope_stack : own[scope_stack[d]] = owner[scope_stack[d]]
  BY <1>5 DEF IInv, Nested
<1>7. con.kind \in Scoping
  OBVIOUS
<1> HIDE DEF own, con, c
<1>8. \E place2 : Places(Append(scope_stack, c), Append(open, con), own, place2)
  BY <1>2, <1>3, <1>4, <1>6, <1>7, PlaceScope DEF Place
<1> QED
  BY <1>8 DEF own, con, c, EnterScope

-----------------------------------------------------------------------------
(* Each kind of step keeps the arena. *)

\* The part of the invariant about the arena, the program and the stacks.
ArenaOK ==
  /\ table \in Table /\ WellFormed(table)
  /\ scope_stack \in Seq(Nat)
  /\ open \in Seq(Construct)
  /\ prog \in Seq(Statement)
  /\ errors \subseteq Report
  /\ meaning \in Seq(Value) /\ Len(meaning) = Len(table.symbols)
  /\ scope_map \in [DOMAIN scope_map -> Nat]
  /\ Nested /\ Linked /\ Owned /\ Accounts(table, prog, errors)

\* The rest of it.
CountersOK ==
  /\ const_values \in [Names -> Value]
  /\ next_id \in [Nominal -> Nat]
  /\ header \in {"generics", "parameters", "variants", "none"}
  /\ VariantsCounted

LEMMA Parts == IInv <=> ArenaOK /\ CountersOK
<1>1. ASSUME ArenaOK, CountersOK PROVE TypeOK
  <2>1. /\ scope_map \in [DOMAIN scope_map -> 1 .. Len(table.scopes)]
        /\ DOMAIN scope_map \subseteq DOMAIN prog
    <3>1. DOMAIN table.scopes = 1 .. Len(table.scopes)
      BY <1>1, TableFacts DEF ArenaOK
    <3>2. PICK owner : Owner(owner)
      BY <1>1 DEF ArenaOK, Owned
    <3>3. DOMAIN scope_map \subseteq DOMAIN prog
      BY <1>1 DEF ArenaOK, Nested
    <3> QED
      BY <1>1, <3>1, <3>2, <3>3 DEF Owner, Owns, ArenaOK
  <2> QED
    BY <1>1, <2>1 DEF ArenaOK, CountersOK, TypeOK, Construct, Statement, Report, ErrorKinds, TypeErrors
<1>2. ASSUME IInv PROVE ArenaOK /\ CountersOK
  <2>1. scope_map \in [DOMAIN scope_map -> Nat]
    BY <1>2 DEF IInv, TypeOK
  <2> QED
    BY <1>2, <2>1, AccountsMean
       DEF IInv, ArenaOK, CountersOK, TypeOK, Construct, Statement, Report, ErrorKinds, TypeErrors
<1> QED
  BY <1>1, <1>2, AccountsMean DEF ArenaOK, CountersOK, IInv

LEMMA RememberTypes ==
  ASSUME IInv, NEW value \in Value, Remember(value),
         Len(table'.symbols) \in {Len(table.symbols), Len(table.symbols) + 1}
  PROVE  meaning' \in Seq(Value) /\ Len(meaning') = Len(table'.symbols)
<1>1. meaning \in Seq(Value) /\ Len(meaning) = Len(table.symbols) /\ Len(table.symbols) \in Nat
  BY TableFacts DEF IInv, TypeOK
<1>2. CASE Len(table'.symbols) = Len(table.symbols)
  BY <1>1, <1>2 DEF Remember
<1>3. CASE Len(table'.symbols) = Len(table.symbols) + 1
  <2>1. meaning' = Append(meaning, value)
    BY <1>1, <1>3 DEF Remember
  <2> QED
    BY <2>1, <1>1, <1>3, Appended
<1> QED
  BY <1>2, <1>3

LEMMA AccountsSymbols ==
  ASSUME NEW t, NEW u, NEW p, NEW errs, u.symbols = t.symbols, Accounts(t, p, errs)
  PROVE  Accounts(u, p, errs)
BY DEF Accounts, Recorded

LEMMA DeclareKeeps ==
  ASSUME IInv, NEW what \in Declaring, NEW x \in Names, NEW kind \in SymbolKind, NEW ty \in Ty,
         NEW errs \in SUBSET TypeErrors, NEW value \in Value, NEW form,
         Met(what, x, form) \in Statement,
         DeclareStep(what, x, kind, ty, errs, value, form)
  PROVE  ArenaOK'
<1> DEFINE rec == Met(what, x, form)
<1>1. /\ prog' = Append(prog, rec) /\ table' = Defined(x, kind, ty)
      /\ Push(x, errs) /\ Remember(value)
      /\ scope_stack' = scope_stack /\ scope_map' = scope_map /\ open' = open
  BY DEF DeclareStep
<1>2. rec.what = what /\ rec.name = x /\ rec.scope = ScopeAt /\ rec \in Statement
      /\ rec.what \notin {"for", "module", "fn"} /\ IsDeclaration(rec)
  BY DEF Met, Declaring, IsDeclaration, Mentions
<1> HIDE DEF rec
<1>3. Kept(table', prog') /\ Accounts(table', prog', errors') /\ errors' \subseteq Report
  BY <1>1, <1>2, DefineKeeps
<1>4. Inside(prog')
  BY <1>1, <1>2, InsideGrows
<1>5. /\ prog' \in Seq(Statement) /\ Len(prog') = Here /\ prog'[Here] = rec
  BY <1>1, <1>2, OpenFacts, Appended DEF IInv
<1>6. meaning' \in Seq(Value) /\ Len(meaning') = Len(table'.symbols)
  BY <1>1, <1>3, RememberTypes DEF Kept
<1>7. Nested'
  BY <1>1, <1>2, <1>3, <1>4, <1>5 DEF IInv, Nested, Inside, Kept, SameScopes
<1>8. Owned'
  <2>1. PICK owner, place : Owner(owner) /\ Place(owner, place)
    BY DEF IInv, Owned
  <2>2. owner[current_scope] = ScopeAt
    BY <2>1, ScopeAtOwner DEF IInv
  <2>3. Owner(owner)'
    BY <1>1, <1>3, <2>1, <2>2 DEF Kept, Owner
  <2>4. Place(owner, place)'
    BY <1>1, <2>1 DEF Place
  <2> QED
    BY <2>3, <2>4 DEF Owned
<1>9. scope_stack' \in Seq(Nat) /\ open' \in Seq(Construct) /\ scope_map' \in [DOMAIN scope_map' -> Nat]
  <2>1. scope_map \in [DOMAIN scope_map -> Nat]
    BY Parts DEF ArenaOK
  <2> QED
    BY <1>1, <2>1, OpenFacts, CurrentScope DEF IInv, Construct
<1> QED
  BY <1>3, <1>5, <1>6, <1>7, <1>8, <1>9 DEF ArenaOK, Linked, Kept

LEMMA EnterItemKeeps ==
  ASSUME IInv, NEW what \in {"module", "extern", "fn"}, NEW x \in Names, EnterItem(what, x)
  PROVE  ArenaOK'
<1> DEFINE rec == Met(what, x, "None")
           kind == IF what = "fn" THEN "Fn" ELSE "Module"
           scope == IF what = "fn" THEN "Function" ELSE "Module"
           u == Defined(x, kind, NoType("Void"))
<1>1. /\ rec \in Statement /\ prog' = Append(prog, rec)
  BY MeetFacts DEF EnterItem
<1>2. rec.what = what /\ rec.name = x /\ rec.scope = ScopeAt
      /\ rec.what # "for" /\ rec.what \in Scoping /\ IsDeclaration(rec)
  BY DEF Met, IsDeclaration, Mentions, Scoping
<1>3. /\ table' = push_scope(u, current_scope, scope)
      /\ scope_stack' = Append(scope_stack, Len(u.scopes) + 1)
      /\ Push(x, {}) /\ Remember(NoValue)
      /\ open' = Append(open, [kind |-> what, at |-> Here])
      /\ scope_map' = IF what = "extern" THEN scope_map
                      ELSE [k \in DOMAIN scope_map \union {Here} |->
                              IF k = Here THEN Len(table.scopes) + 1 ELSE scope_map[k]]
  BY DEF EnterItem, Enter, MapName
<1>4. kind \in SymbolKind /\ scope \in ScopeKind /\ NoType("Void") \in Ty
  BY TyFacts DEF SymbolKind, ScopeKind
<1> HIDE DEF rec, kind, scope
<1>5. Kept(u, prog') /\ Accounts(u, prog', errors') /\ errors' \subseteq Report
  BY <1>1, <1>2, <1>3, <1>4, DefineKeeps
<1> HIDE DEF u
<1>6. /\ current_scope \in DOMAIN table.scopes /\ current_scope \in 1 .. Len(table.scopes)
      /\ Len(table.scopes) \in Nat /\ DOMAIN table.scopes = 1 .. Len(table.scopes)
  BY CurrentScope, TableFacts DEF IInv, TypeOK
<1>7. /\ u \in Table /\ WellFormed(u) /\ LinkedIn(u, prog')
      /\ DOMAIN u.scopes = DOMAIN table.scopes /\ Len(u.scopes) = Len(table.scopes)
      /\ Len(u.symbols) \in {Len(table.symbols), Len(table.symbols) + 1}
  BY <1>5 DEF Kept, SameScopes
<1>8. table' \in Table /\ WellFormed(table') /\ Pushes(u, table', current_scope)
  BY <1>3, <1>4, <1>6, <1>7, PushTable
<1>9. table'.symbols = u.symbols /\ DOMAIN table'.scopes = 1 .. Len(table.scopes) + 1
  BY <1>7, <1>8 DEF Pushes
<1>10. LinkedIn(table', prog')
  BY <1>7, <1>8, LinkPush
<1>11. Accounts(table', prog', errors')
  BY <1>5, <1>9, AccountsSymbols
<1>12. /\ prog' \in Seq(Statement) /\ Len(prog') = Here /\ prog'[Here] = rec
       /\ Here = Len(prog) + 1 /\ Len(prog) \in Nat
  BY <1>1, OpenFacts, Appended DEF IInv
<1>13. meaning' \in Seq(Value) /\ Len(meaning') = Len(table'.symbols)
  BY <1>3, <1>7, <1>9, Values, RememberTypes DEF IInv
<1>14. EnterScope(rec.what)
  BY <1>2, <1>3, <1>7, <1>9 DEF EnterScope
<1>15. Nested' /\ scope_stack' \in Seq(Nat) /\ open' \in Seq(Construct) /\ scope_map' \in [DOMAIN scope_map' -> Nat]
  BY <1>1, <1>2, <1>14, EnterNested
<1>16. Owned'
  <2>1. PICK owner, place : Owner(owner) /\ Place(owner, place)
    BY DEF IInv, Owned
  <2>2. owner[current_scope] = ScopeAt
    BY <2>1, ScopeAtOwner DEF IInv
  <2>3. Owns(u, prog', scope_map, owner)
    BY <1>5, <2>1, <2>2 DEF Kept
  <2>4. \A s \in DOMAIN u.scopes : owner[s] < Here
    BY <1>7, <1>12, <2>1 DEF Owner, Owns
  <2>5. owner[current_scope] = prog'[Here].scope
    BY <1>2, <1>12, <2>2
  <2>6. More(u, owner, Here) = More(table, owner, Here)
    BY <1>7 DEF More
  <2>7. \/ scope_map' = scope_map
        \/ scope_map' = [k \in DOMAIN scope_map \union {Here} |->
                           IF k = Here THEN Len(u.scopes) + 1 ELSE scope_map[k]]
    BY <1>3, <1>7
  <2>8. Here \in 1 .. Len(prog') /\ Len(prog') \in Nat /\ current_scope \in DOMAIN u.scopes
    BY <1>6, <1>7, <1>12
  <2>9. Owns(table', prog', scope_map', More(u, owner, Here))
    BY <1>7, <1>8, <2>3, <2>4, <2>5, <2>7, <2>8, OwnPush
  <2>10. PICK place2 : Places(scope_stack', open', More(table, owner, Here), place2)
    BY <1>1, <1>2, <1>14, <2>1, EnterPlaces
  <2> QED
    BY <2>6, <2>9, <2>10 DEF Owned, Owner, Place
<1> QED
  BY <1>5, <1>8, <1>10, <1>11, <1>12, <1>13, <1>15, <1>16 DEF ArenaOK, Linked

LEMMA EnterForKeeps ==
  ASSUME IInv, NEW x \in Names, EnterFor(x)
  PROVE  ArenaOK'
<1> DEFINE rec == Met("for", x, "None")
           child == push_scope(table, current_scope, "Block")
           id == Len(table.scopes) + 1
           ty == NoType("MetaUInt")
           sym == Made(id, x, "LoopVar", ty, Here)
<1>1. /\ rec \in Statement /\ prog' = Append(prog, rec)
  BY MeetFacts DEF EnterFor
<1>2. rec.what = "for" /\ rec.name = x /\ rec.scope = ScopeAt
      /\ rec.what \in Scoping /\ IsDeclaration(rec)
  BY DEF Met, IsDeclaration, Mentions, Scoping
<1> HIDE DEF rec
<1>3. /\ current_scope \in DOMAIN table.scopes /\ current_scope \in 1 .. Len(table.scopes)
      /\ Len(table.scopes) \in Nat /\ DOMAIN table.scopes = 1 .. Len(table.scopes)
      /\ table \in Table /\ WellFormed(table)
  BY CurrentScope, TableFacts DEF IInv, TypeOK
<1>4. child \in Table /\ WellFormed(child) /\ Pushes(table, child, current_scope)
  BY <1>3, PushTable DEF ScopeKind
<1>5. /\ DOMAIN child.scopes = 1 .. id /\ Len(child.scopes) = id /\ id \in DOMAIN child.scopes
      /\ lookup_local(child, id, x) = 0 /\ child.symbols = table.symbols
  BY <1>3, <1>4 DEF Pushes
<1>6. /\ table' = define(child, id, x, "LoopVar", ty, Here)
      /\ scope_stack' = Append(scope_stack, id)
      /\ Remember(NoValue)
      /\ open' = Append(open, [kind |-> "for", at |-> Here])
      /\ scope_map' = scope_map /\ errors' = errors
  BY <1>5 DEF EnterFor
<1> HIDE DEF child
<1>7. ty \in Ty /\ Here \in Nat /\ Here = Len(prog) + 1 /\ Len(prog) \in Nat
      /\ prog \in Seq(Statement)
  BY TyFacts, OpenFacts DEF IInv
<1> HIDE DEF ty
<1>8. /\ table' \in Table /\ WellFormed(table') /\ SameScopes(child, table')
      /\ Adds(child, table', sym)
  BY <1>4, <1>5, <1>6, <1>7, DefineTable DEF SymbolKind
<1>9. sym \in Symbol /\ sym.scope = id /\ sym.name = x /\ sym.span = Here
  BY <1>3, <1>7 DEF Symbol, Made, SymbolKind
<1> HIDE DEF sym
<1>10. /\ prog' \in Seq(Statement) /\ Len(prog') = Here /\ prog'[Here] = rec
       /\ Here \in DOMAIN prog' /\ Block(prog', Here) = Here
  BY <1>1, <1>2, <1>7, Appended DEF Block
<1>11. LinkedIn(table, prog) /\ Accounts(table, prog, errors)
  BY AccountsMean DEF IInv, Linked
<1>12. LinkedIn(table, prog') /\ LinkedIn(child, prog')
  <2>1. LinkedIn(table, prog')
    BY <1>1, <1>7, <1>11, LinkGrow
  <2> QED
    BY <2>1, <1>3, <1>4, LinkPush
<1>13. LinkedIn(table', prog')
  BY <1>2, <1>4, <1>5, <1>8, <1>9, <1>10, <1>12, LinkAdd
<1>14. table'.symbols = Append(table.symbols, sym)
  BY <1>5, <1>8 DEF Adds
<1>15. Accounts(table', prog', errors')
  BY <1>1, <1>2, <1>3, <1>6, <1>7, <1>9, <1>11, <1>14, AccountsAdd
<1>16. Len(table'.symbols) = Len(table.symbols) + 1
  BY <1>3, <1>9, <1>14, TableFacts, Appended
<1>17. meaning' \in Seq(Value) /\ Len(meaning') = Len(table'.symbols)
  BY <1>6, <1>16, Values, RememberTypes DEF IInv
<1>18. EnterScope(rec.what)
  BY <1>2, <1>5, <1>6, <1>8 DEF EnterScope, SameScopes
<1>19. Nested' /\ scope_stack' \in Seq(Nat) /\ open' \in Seq(Construct) /\ scope_map' \in [DOMAIN scope_map' -> Nat]
  BY <1>1, <1>2, <1>18, EnterNested
<1>20. Owned'
  <2>1. PICK owner, place : Owner(owner) /\ Place(owner, place)
    BY DEF IInv, Owned
  <2>2. owner[current_scope] = ScopeAt
    BY <2>1, ScopeAtOwner DEF IInv
  <2>3. Owns(table, prog', scope_map, owner)
    BY <1>1, <1>3, <1>7, <1>11, <2>1, OwnGrow DEF Owner
  <2>4. \A s \in DOMAIN table.scopes : owner[s] < Here
    BY <1>7, <2>1 DEF Owner, Owns
  <2>5. owner[current_scope] = prog'[Here].scope
    BY <1>2, <1>10, <2>2
  <2>6. Here \in 1 .. Len(prog') /\ Len(prog') \in Nat
    BY <1>7, <1>10
  <2>7. Owns(child, prog', scope_map, More(table, owner, Here))
    BY <1>3, <1>4, <1>12, <2>3, <2>4, <2>5, <2>6, OwnPush
  <2>8. More(table, owner, Here)[id] = Here
    BY <1>3 DEF More
  <2>9. Owns(table', prog', scope_map, More(table, owner, Here))
    BY <1>4, <1>8, <1>9, <1>10, <2>7, <2>8, OwnAdd
  <2>10. PICK place2 : Places(scope_stack', open', More(table, owner, Here), place2)
    BY <1>1, <1>2, <1>18, <2>1, EnterPlaces
  <2> QED
    BY <1>6, <2>9, <2>10 DEF Owned, Owner, Place
<1>21. errors' \subseteq Report
  BY <1>6 DEF IInv, TypeOK, Report, ErrorKinds, TypeErrors
<1> QED
  BY <1>8, <1>10, <1>13, <1>15, <1>17, <1>19, <1>20, <1>21 DEF ArenaOK, Linked

LEMMA QuietKeeps ==
  ASSUME IInv, NEW what, NEW x, Met(what, x, "None") \in Statement,
         what \in {"generic", "body", "gen"} \union Mentions, QuietStep(what, x)
  PROVE  ArenaOK'
<1> DEFINE rec == Met(what, x, "None")
           con == [kind |-> what, at |-> Here]
<1>1. /\ prog' = Append(prog, rec) /\ rec \in Statement
      /\ table' = table /\ scope_stack' = scope_stack /\ scope_map' = scope_map
      /\ errors' = errors /\ meaning' = meaning
      /\ \/ open' = open
         \/ what \in {"body", "gen"} /\ open' = Append(open, con)
  BY DEF QuietStep
<1>2. rec.what = what /\ rec.scope = ScopeAt /\ ~ IsDeclaration(rec)
      /\ what \notin {"module", "fn"} \union Scoping
  BY DEF Met, IsDeclaration, Mentions, Scoping
<1> HIDE DEF rec
<1>3. /\ table \in Table /\ WellFormed(table) /\ scope_stack \in Seq(Nat) /\ scope_stack # <<>>
      /\ open \in Seq(Construct) /\ prog \in Seq(Statement)
      /\ errors \subseteq Report /\ meaning \in Seq(Value) /\ Len(meaning) = Len(table.symbols)
      /\ scope_map \in [DOMAIN scope_map -> Nat]
      /\ LinkedIn(table, prog) /\ Accounts(table, prog, errors)
  BY Parts DEF ArenaOK, Nested, Linked
<1>4. /\ prog' \in Seq(Statement) /\ Len(prog') = Here /\ prog'[Here] = rec
      /\ Here = Len(prog) + 1 /\ Len(prog) \in Nat /\ Here \in DOMAIN prog' /\ Here \in Nat
  BY <1>1, <1>3, Appended, OpenFacts DEF IInv
<1>5. LinkedIn(table', prog') /\ Accounts(table', prog', errors')
  BY <1>1, <1>2, <1>3, LinkGrow, AccountsQuiet
<1>6. con \in Construct \/ open' = open
  BY <1>1, <1>4 DEF Construct
<1>7. open' \in Seq(Construct)
  <2> HIDE DEF con
  <2>1. CASE open' = open
    BY <2>1, <1>3
  <2>2. CASE open' = Append(open, con) /\ con \in Construct
    BY <2>2, <1>3, Appended
  <2> QED
    BY <2>1, <2>2, <1>1, <1>6
<1>8. Inside(prog')
  BY <1>1, <1>2, InsideGrows
<1>9. con.kind = what /\ con.at = Here
  OBVIOUS
<1> HIDE DEF con
<1>10. Nested'
  <2>1. /\ \A i \in DOMAIN open' : open'[i].at \in DOMAIN prog' /\ prog'[open'[i].at].what = open'[i].kind
        /\ \A i, j \in DOMAIN open' : i < j => open'[i].at < open'[j].at
    <3>1. CASE open' = open
      BY <3>1, <1>8 DEF IInv, Nested, Inside
    <3>2. CASE open' = Append(open, con) /\ con \in Construct
      <4> DEFINE m == Len(open)
      <4>1. /\ m \in Nat /\ DOMAIN open = 1 .. m /\ DOMAIN open' = 1 .. m + 1
            /\ open'[m + 1] = con /\ \A i \in 1 .. m : open'[i] = open[i]
        BY <3>2, <1>3, Appended
      <4> HIDE DEF m
      <4>2. \A i \in DOMAIN open' : i \in 1 .. m \/ i = m + 1
        BY <4>1
      <4>3. \A i \in 1 .. m : open[i].at \in DOMAIN prog' /\ open[i].at < Here
                              /\ prog'[open[i].at].what = open[i].kind
        BY <4>1, <1>4, <1>8 DEF Inside
      <4>4. \A i, j \in 1 .. m : i < j => open[i].at < open[j].at
        BY <4>1 DEF IInv, Nested
      <4>5. \A i, j \in DOMAIN open' : i < j => i \in 1 .. m
        BY <4>1
      <4> QED
        BY <4>1, <4>2, <4>3, <4>4, <4>5, <1>2, <1>4, <1>9
    <3> QED
      BY <3>1, <3>2, <1>1, <1>6
  <2>2. DOMAIN scope_map' = {k \in DOMAIN prog' : prog'[k].what \in {"module", "fn"}}
    BY <1>1, <1>2, <1>4, <1>8 DEF Inside
  <2> QED
    BY <1>1, <1>8, <2>1, <2>2 DEF IInv, Nested, Inside
<1>11. Owned'
  <2>1. PICK owner, place : Owner(owner) /\ Place(owner, place)
    BY DEF IInv, Owned
  <2>2. Owner(owner)'
    BY <1>1, <1>3, <2>1, OwnGrow DEF Owner
  <2>3. Place(owner, place)'
    <3>1. CASE open' = open
      BY <3>1, <1>1, <2>1 DEF Place
    <3>2. CASE open' = Append(open, con) /\ con \in Construct
      BY <3>2, <1>1, <1>2, <1>3, <1>9, <2>1, PlaceBody DEF Place
    <3> QED
      BY <3>1, <3>2, <1>1, <1>6
  <2> QED
    BY <2>2, <2>3 DEF Owned
<1> QED
  BY <1>1, <1>3, <1>4, <1>5, <1>7, <1>10, <1>11 DEF ArenaOK, Linked

\* What Leave does to the stacks; a construct with a scope has the innermost one.
LEMMA LeaveFacts ==
  ASSUME IInv, Leave, NEW owner, NEW place, Owner(owner), Place(owner, place)
  PROVE  /\ open # <<>> /\ Innermost = open[Len(open)] /\ Innermost.at \in DOMAIN prog
         /\ prog[Innermost.at].what = Innermost.kind
         /\ open' = SubSeq(open, 1, Len(open) - 1)
         /\ Innermost.kind \in Scoping =>
              /\ Len(scope_stack) > 1
              /\ scope_stack' = SubSeq(scope_stack, 1, Len(scope_stack) - 1)
              /\ owner[current_scope] = Innermost.at
         /\ Innermost.kind \notin Scoping => scope_stack' = scope_stack
         /\ \E place2 : Places(scope_stack', open', owner, place2)
<1>1. open # <<>> /\ Innermost = open[Len(open)]
  BY DEF Leave, Innermost
<1>2. scope_stack \in Seq(Nat) /\ scope_stack # <<>> /\ open \in Seq(Construct)
  BY Parts DEF ArenaOK, Nested
<1>3. Len(open) \in DOMAIN open
  BY <1>1, <1>2, Shortened
<1>4. Innermost.at \in DOMAIN prog /\ prog[Innermost.at].what = Innermost.kind
  BY <1>1, <1>3 DEF IInv, Nested
<1>5. /\ Innermost.kind \in Scoping =>
           /\ Len(scope_stack) > 1
           /\ owner[current_scope] = Innermost.at
           /\ \E place2 : Places(SubSeq(scope_stack, 1, Len(scope_stack) - 1),
                                 SubSeq(open, 1, Len(open) - 1), owner, place2)
      /\ Innermost.kind \notin Scoping =>
           Places(scope_stack, SubSeq(open, 1, Len(open) - 1), owner, place)
  BY <1>1, <1>2, PlaceLeave DEF Place, current_scope
<1>6. /\ open' = SubSeq(open, 1, Len(open) - 1)
      /\ scope_stack' = IF Innermost.kind \in Scoping /\ Len(scope_stack) > 1
                          THEN SubSeq(scope_stack, 1, Len(scope_stack) - 1)
                          ELSE scope_stack
  BY DEF Leave
<1> QED
  BY <1>1, <1>4, <1>5, <1>6

LEMMA LeaveKeeps ==
  ASSUME IInv, Leave
  PROVE  ArenaOK'
<1> DEFINE n == Len(scope_stack)
           m == Len(open)
<1>1. /\ table' = table /\ scope_map' = scope_map /\ errors' = errors
      /\ prog' = prog /\ meaning' = meaning
  BY DEF Leave
<1>2. ArenaOK
  BY Parts
<1>3. PICK owner, place : Owner(owner) /\ Place(owner, place)
  BY DEF IInv, Owned
<1>4. /\ open # <<>> /\ open' = SubSeq(open, 1, m - 1)
      /\ \/ scope_stack' = scope_stack
         \/ Len(scope_stack) > 1 /\ scope_stack' = SubSeq(scope_stack, 1, n - 1)
  BY DEF Leave
<1>5. /\ m \in Nat /\ DOMAIN open = 1 .. m /\ DOMAIN open' = 1 .. m - 1
      /\ open' \in Seq(Construct)
      /\ \A i \in 1 .. m - 1 : open'[i] = open[i]
  BY <1>2, <1>4, Shortened DEF ArenaOK
<1>6. \A i \in DOMAIN open' : i \in DOMAIN open /\ open'[i] = open[i]
  BY <1>5
<1>7. /\ scope_stack' \in Seq(Nat) /\ scope_stack' # <<>> /\ scope_stack'[1] = scope_stack[1]
      /\ \A d \in DOMAIN scope_stack' : d \in DOMAIN scope_stack /\ scope_stack'[d] = scope_stack[d]
  <2>1. CASE scope_stack' = scope_stack
    BY <1>2, <2>1 DEF ArenaOK, Nested
  <2>2. CASE n > 1 /\ scope_stack' = SubSeq(scope_stack, 1, n - 1)
    <3>1. scope_stack \in Seq(Nat) /\ scope_stack # <<>>
      BY <1>2 DEF ArenaOK, Nested
    <3>2. /\ n \in Nat /\ DOMAIN scope_stack = 1 .. n /\ DOMAIN scope_stack' = 1 .. n - 1
          /\ scope_stack' \in Seq(Nat) /\ Len(scope_stack') = n - 1
          /\ \A d \in 1 .. n - 1 : scope_stack'[d] = scope_stack[d]
      BY <2>2, <3>1, Shortened
    <3> HIDE DEF n
    <3>3. 1 \in 1 .. n - 1
      BY <2>2, <3>2
    <3>4. scope_stack' # <<>>
      BY <2>2, <3>2
    <3>5. \A d \in 1 .. n - 1 : d \in 1 .. n
      BY <3>2
    <3> QED
      BY <3>2, <3>3, <3>4, <3>5
  <2> QED
    BY <1>4, <2>1, <2>2
<1>8. Nested'
  BY <1>1, <1>2, <1>6, <1>7 DEF ArenaOK, Nested
<1>9. Owned'
  <2>1. \E place2 : Places(scope_stack', open', owner, place2)
    BY <1>3, LeaveFacts
  <2> QED
    BY <1>1, <1>3, <2>1 DEF Owned, Owner, Place
<1> QED
  BY <1>1, <1>2, <1>5, <1>7, <1>8, <1>9 DEF ArenaOK, Linked

-----------------------------------------------------------------------------
(* The invariant. *)

\* An action that declares a name is a DeclareStep.
LEMMA TypedDeclares ==
  ASSUME IInv, NEW what \in Declaring, NEW x \in Names, NEW kind \in SymbolKind,
         NEW te \in OptType, NEW default \in {"Void", "MetaUInt"}, NEW head,
         DeclareTyped(what, x, kind, te, default, head)
  PROVE  ArenaOK'
<1> DEFINE r == resolve_opt(te, default)
<1>1. r.ty \in Ty /\ r.errs \in SUBSET TypeErrors
  BY ResolveType DEF IInv
<1>2. NoValue \in Value
  BY Values DEF IInv
<1>3. Met(what, x, te.form) \in Statement /\ prog' = Append(prog, Met(what, x, te.form))
  BY MeetFacts DEF DeclareTyped
<1>4. DeclareStep(what, x, kind, r.ty, r.errs, NoValue, te.form)
  BY <1>3 DEF DeclareTyped, DeclareStep
<1> QED
  BY <1>1, <1>2, <1>3, <1>4, DeclareKeeps

LEMMA GivenDeclares ==
  ASSUME IInv, NEW what \in Declaring, NEW x \in Names, NEW kind \in SymbolKind,
         NEW ty \in Ty, NEW head, DeclareAs(what, x, kind, ty, head)
  PROVE  ArenaOK'
<1>1. NoValue \in Value
  BY Values DEF IInv
<1>2. Met(what, x, "None") \in Statement /\ prog' = Append(prog, Met(what, x, "None"))
  BY MeetFacts DEF DeclareAs
<1>3. DeclareStep(what, x, kind, ty, {}, NoValue, "None")
  BY <1>2 DEF DeclareAs, DeclareStep
<1> QED
  BY <1>1, <1>2, <1>3, DeclareKeeps

LEMMA ConstDeclares ==
  ASSUME IInv, NEW x \in Names, NEW te \in OptType, NEW init \in Initialiser, Const(x, te, init)
  PROVE  ArenaOK' /\ const_values' \in [Names -> Value]
<1> DEFINE r == resolve_opt(te, "MetaUInt")
           value == IF init.init = "name" THEN Meaning(init.name) ELSE Eval(init)
<1>1. r.ty \in Ty /\ r.errs \in SUBSET TypeErrors
  BY ResolveType DEF IInv
<1>2. value \in Value /\ Eval(init) \in Value
  BY Values, InitialiserFacts DEF IInv
<1>3. Met("const", x, te.form) \in Statement /\ prog' = Append(prog, Met("const", x, te.form))
  BY MeetFacts DEF Const
<1>4. DeclareStep("const", x, "Const", r.ty, r.errs, value, te.form)
  BY <1>3 DEF Const, DeclareStep
<1>5. ArenaOK'
  <2> HIDE DEF r, value
  <2> QED
    BY <1>1, <1>2, <1>3, <1>4, DeclareKeeps DEF Declaring, SymbolKind
<1>6. const_values' \in [Names -> Value]
  BY <1>2 DEF Const, Bind, IInv, TypeOK
<1> QED
  BY <1>5, <1>6

LEMMA InitHolds == Init => IInv
<1> SUFFICES ASSUME Init PROVE IInv
  OBVIOUS
<1>1. /\ table = EmptyTable /\ scope_stack = <<root_scope>> /\ scope_map = [k \in {} |-> 0]
      /\ const_values = [x \in Names |-> NoValue] /\ errors = {} /\ next_id = [t \in Nominal |-> 0]
      /\ open = <<>> /\ header = "none" /\ prog = <<>> /\ meaning = <<>>
  BY DEF Init
<1>2. /\ table \in Table /\ table.symbols = <<>> /\ DOMAIN table.scopes = {1}
      /\ Len(table.scopes) = 1 /\ table.scopes[1] = NewScope(0, "File")
  BY <1>1 DEF EmptyTable, Table, NewScope, Scope, ScopeKind
<1>3. WellFormed(table)
  BY <1>2 DEF WellFormed, NewScope, lookup_local
<1>4. CountersOK
  BY <1>1 DEF CountersOK, VariantsCounted, NoValue, Value
<1>5. Nested
  BY <1>1, <1>2 DEF Nested, root_scope
<1>6. Linked
  BY <1>1, <1>2 DEF Linked, LinkedIn
<1>7. Owned
  <2> DEFINE owner == [s \in {1} |-> 0]
             place == [d \in {1} |-> 0]
  <2>1. Owner(owner)
    BY <1>1, <1>2 DEF Owner, Owns, root_scope
  <2>2. Place(owner, place)
    BY <1>1, <1>2 DEF Place, Places, root_scope
  <2> QED
    BY <2>1, <2>2 DEF Owned
<1>8. Accounts(table, prog, errors)
  BY <1>1, <1>2 DEF Accounts, Recorded, Refused, Seconds
<1>9. ArenaOK
  BY <1>1, <1>2, <1>3, <1>5, <1>6, <1>7, <1>8 DEF ArenaOK, root_scope
<1> QED
  BY <1>4, <1>9, Parts

LEMMA PartsNext == ArenaOK' /\ CountersOK' => IInv'
BY Parts, PTL

LEMMA StutterKeeps ==
  ASSUME IInv, UNCHANGED vars
  PROVE  IInv'
<1>1. ArenaOK /\ CountersOK
  BY Parts
<1>2. /\ table' = table /\ scope_stack' = scope_stack /\ scope_map' = scope_map
      /\ const_values' = const_values /\ errors' = errors /\ next_id' = next_id
      /\ open' = open /\ header' = header /\ prog' = prog /\ meaning' = meaning
  BY DEF vars
<1>3. CountersOK'
  BY <1>1, <1>2 DEF CountersOK, VariantsCounted
<1>4. Nested'
  BY <1>1, <1>2 DEF ArenaOK, Nested
<1>5. Linked' /\ Owned'
  BY <1>1, <1>2 DEF ArenaOK, Linked, Owned, Owner, Place
<1>6. ArenaOK'
  BY <1>1, <1>2, <1>4, <1>5 DEF ArenaOK
<1> QED
  BY <1>3, <1>6, PartsNext

LEMMA NextKeeps == IInv /\ [Next]_vars => IInv'
<1> SUFFICES ASSUME IInv, [Next]_vars PROVE IInv'
  OBVIOUS
<1>1. const_values \in [Names -> Value] /\ next_id \in [Nominal -> Nat] /\ VariantsCounted
      /\ header \in {"generics", "parameters", "variants", "none"}
  BY Parts DEF CountersOK
<1>2. CASE UNCHANGED vars
  BY <1>2, StutterKeeps
<1>3. ASSUME NEW what \in {"module", "extern", "fn"}, NEW x \in Names, EnterItem(what, x)
      PROVE  IInv'
  BY <1>1, <1>3, EnterItemKeeps, PartsNext DEF EnterItem, CountersOK, VariantsCounted
<1>4. ASSUME NEW x \in Names, Generic(x) PROVE IInv'
  <2>1. Met("generic", x, "None") \in Statement /\ QuietStep("generic", x)
    BY <1>4, MeetFacts DEF Generic, QuietStep
  <2>2. ArenaOK'
    BY <2>1, QuietKeeps
  <2> QED
    BY <1>1, <1>4, <2>2, PartsNext DEF Generic, CountersOK, VariantsCounted
<1>5. ASSUME NEW x \in Names, Variant(x) PROVE IInv'
  <2>1. next_id["Enum"] - 1 \in Nat
    BY <1>1, <1>5 DEF Variant, VariantsCounted, Nominal
  <2>2. [ty |-> "Enum", n |-> next_id["Enum"] - 1] \in Ty
    BY <2>1, TyFacts
  <2>3. ArenaOK'
    BY <1>5, <2>2, GivenDeclares DEF Variant, Declaring, SymbolKind
  <2> QED
    BY <1>1, <1>5, <2>3, PartsNext DEF Variant, DeclareAs, CountersOK, VariantsCounted
<1>6. ASSUME NEW x \in Names, EnterFor(x) PROVE IInv'
  BY <1>1, <1>6, EnterForKeeps, PartsNext DEF EnterFor, CountersOK, VariantsCounted
<1>7. ASSUME NEW x \in Names, NEW te \in OptType,
             Parameter(x, te) \/ Signal(x, te) \/ TypeAlias(x, te) \/ Let(x, te)
      PROVE  IInv'
  <2>1. PICK what \in Declaring, kind \in SymbolKind, head \in {"parameters", "none"} :
          DeclareTyped(what, x, kind, te, "Void", head)
    BY <1>7 DEF Parameter, Signal, TypeAlias, Let, Declaring, SymbolKind
  <2>2. ArenaOK'
    BY <2>1, TypedDeclares
  <2> QED
    BY <1>1, <2>1, <2>2, PartsNext DEF DeclareTyped, CountersOK, VariantsCounted
<1>8. ASSUME NEW x \in Names, NEW kind \in Nominal, DeclareNominal(x, kind) PROVE IInv'
  <2>1. [ty |-> kind, n |-> next_id[kind]] \in Ty
    BY <1>1, TyFacts DEF Nominal
  <2>2. ArenaOK'
    BY <1>8, <2>1, GivenDeclares DEF DeclareNominal, Declaring, SymbolKind, Nominal
  <2>3. next_id' = [next_id EXCEPT ![kind] = next_id[kind] + 1]
        /\ header' = (IF kind = "Enum" THEN "variants" ELSE "none") /\ const_values' = const_values
    BY <1>8 DEF DeclareNominal, DeclareAs
  <2>4. next_id' \in [Nominal -> Nat] /\ VariantsCounted'
    BY <1>1, <2>3 DEF VariantsCounted
  <2> QED
    BY <1>1, <2>2, <2>3, <2>4, PartsNext DEF CountersOK
<1>9. ASSUME NEW x \in Names, NEW kind \in Opaque, DeclareOpaque(x, kind) PROVE IInv'
  <2>1. ArenaOK'
    BY <1>9, TyFacts, GivenDeclares DEF DeclareOpaque, Declaring, SymbolKind, Opaque
  <2> QED
    BY <1>1, <1>9, <2>1, PartsNext DEF DeclareOpaque, DeclareAs, CountersOK, VariantsCounted
<1>10. ASSUME NEW x \in Names, NEW te \in OptType, NEW init \in Initialiser, Const(x, te, init)
       PROVE  IInv'
  BY <1>1, <1>10, ConstDeclares, PartsNext DEF Const, CountersOK, VariantsCounted
<1>11. ASSUME NEW kind \in {"body", "gen"}, EnterBody(kind) PROVE IInv'
  <2>1. Met(kind, NoName, "None") \in Statement /\ QuietStep(kind, NoName)
    BY <1>11, MeetFacts DEF EnterBody, QuietStep
  <2>2. ArenaOK'
    BY <2>1, QuietKeeps
  <2> QED
    BY <1>1, <1>11, <2>2, PartsNext DEF EnterBody, CountersOK, VariantsCounted
<1>12. ASSUME NEW what \in Mentions, NEW x \in Names, Mention(what, x) PROVE IInv'
  <2>1. Met(what, x, "None") \in Statement /\ QuietStep(what, x)
    BY <1>12, MeetFacts DEF Mention, QuietStep
  <2>2. ArenaOK'
    BY <2>1, QuietKeeps
  <2> QED
    BY <1>1, <1>12, <2>2, PartsNext DEF Mention, CountersOK, VariantsCounted
<1>13. CASE Leave
  BY <1>1, <1>13, LeaveKeeps, PartsNext DEF Leave, CountersOK, VariantsCounted
<1>14. TypeExpr \subseteq OptType
  BY DEF OptType
<1> QED
  BY <1>2, <1>3, <1>4, <1>5, <1>6, <1>7, <1>8, <1>9, <1>10, <1>11, <1>12, <1>13, <1>14 DEF Next

LEMMA Invariant == Spec => []IInv
BY InitHolds, NextKeeps, PTL DEF Spec

(***************************************************************************)
(* The table stays well formed: scopes come after their parents, and a     *)
(* name in a scope leads to its symbol (scope.rs:90-197).                  *)
(***************************************************************************)
THEOREM TypeCorrect == Spec => []TypeOK
<1>1. IInv => TypeOK
  BY DEF IInv
<1> QED
  BY <1>1, Invariant, PTL

(***************************************************************************)
(* Every declaration has a symbol or a DuplicateDefinition that leads to   *)
(* an earlier one of the same name and scope (scope.rs:159-197).           *)
(***************************************************************************)
THEOREM DeclarationsAreAccounted == Spec => []DeclarationsAccounted
<1>1. IInv => DeclarationsAccounted
  BY DEF IInv
<1> QED
  BY <1>1, Invariant, PTL

-----------------------------------------------------------------------------
(* Types, values and errors along the walk. *)

History == Bound /\ ErrorTypesReported /\ ConstWidthsExact

\* Why the type of a symbol declared here may be Error.
Explained ==
  \/ \E e \in errors' : e.error # "DuplicateDefinition" /\ e.second = Here
  \/ prog'[Here].form = "Partial"
  \/ prog'[Here].form = "Named" /\ \E i \in DOMAIN table.symbols : table.symbols[i].ty.ty = "Error"

SymbolStep ==
  \/ table'.symbols = table.symbols /\ meaning' = meaning
  \/ \E sym \in Symbol, value \in Value :
       /\ table'.symbols = Append(table.symbols, sym) /\ meaning' = Append(meaning, value)
       /\ sym.span = Here
       /\ sym.ty.ty = "Error" => Explained
       /\ value.is # "none" =>
            prog'[Here].what = "const" /\ (Once' => const_values'[sym.name] = value)

ConstStep ==
  \/ const_values' = const_values
  \/ \E x \in Names, v \in Value :
       /\ const_values' = [const_values EXCEPT ![x] = v]
       /\ Here \in DOMAIN prog' /\ prog'[Here].what = "const" /\ prog'[Here].name = x

UseStep == \A u \in uses' \ uses : (u.once /\ u.want.is = "UInt") => u.got = to_u64(u.want.n)

\* What every step does to the program, the errors, the symbols and the values.
Goes ==
  /\ prog' = prog \/ \E rec \in Statement : prog' = Append(prog, rec)
  /\ errors \subseteq errors'
  /\ SymbolStep /\ ConstStep /\ UseStep

LEMMA HistoryKept ==
  ASSUME IInv, IInv', History, Goes
  PROVE  History'
<1>1. /\ DOMAIN prog \subseteq DOMAIN prog' /\ \A k \in DOMAIN prog : prog'[k] = prog[k]
      /\ prog \in Seq(Statement) /\ DOMAIN prog = 1 .. Len(prog) /\ Len(prog) \in Nat
      /\ Here = Len(prog) + 1
  <2>1. prog \in Seq(Statement) /\ Here = Len(prog) + 1
    BY OpenFacts DEF IInv
  <2>2. CASE prog' = prog
    BY <2>1, <2>2
  <2>3. ASSUME NEW rec \in Statement, prog' = Append(prog, rec)
        PROVE DOMAIN prog \subseteq DOMAIN prog' /\ \A k \in DOMAIN prog : prog'[k] = prog[k]
    BY <2>1, <2>3, Appended
  <2> QED
    BY <2>1, <2>2, <2>3 DEF Goes
<1>2. Once' => Once
  BY <1>1 DEF Once
<1>3. /\ table.symbols \in Seq(Symbol) /\ Len(table.symbols) \in Nat
      /\ meaning \in Seq(Value) /\ Len(meaning) = Len(table.symbols)
      /\ DOMAIN table.symbols = 1 .. Len(table.symbols) /\ DOMAIN meaning = DOMAIN table.symbols
  BY TableFacts DEF IInv, TypeOK
<1>4. /\ DOMAIN table.symbols \subseteq DOMAIN table'.symbols
      /\ \A i \in DOMAIN table.symbols :
           table'.symbols[i] = table.symbols[i] /\ meaning'[i] = meaning[i]
      /\ \/ DOMAIN table'.symbols = DOMAIN table.symbols /\ DOMAIN meaning' = DOMAIN meaning
         \/ /\ DOMAIN table'.symbols = DOMAIN table.symbols \union {Len(table.symbols) + 1}
            /\ DOMAIN meaning' = DOMAIN table'.symbols
            /\ \E sym \in Symbol, value \in Value :
                 /\ table'.symbols[Len(table.symbols) + 1] = sym
                 /\ meaning'[Len(table.symbols) + 1] = value
                 /\ sym.span = Here
                 /\ sym.ty.ty = "Error" => Explained
                 /\ value.is # "none" =>
                      prog'[Here].what = "const" /\ (Once' => const_values'[sym.name] = value)
  <2>1. CASE table'.symbols = table.symbols /\ meaning' = meaning
    BY <1>3, <2>1
  <2>2. ASSUME NEW sym \in Symbol, NEW value \in Value,
               table'.symbols = Append(table.symbols, sym), meaning' = Append(meaning, value)
        PROVE  /\ DOMAIN table'.symbols = DOMAIN table.symbols \union {Len(table.symbols) + 1}
               /\ DOMAIN meaning' = DOMAIN table'.symbols
               /\ table'.symbols[Len(table.symbols) + 1] = sym
               /\ meaning'[Len(table.symbols) + 1] = value
               /\ \A i \in DOMAIN table.symbols :
                    table'.symbols[i] = table.symbols[i] /\ meaning'[i] = meaning[i]
    <3>1. /\ DOMAIN table'.symbols = 1 .. Len(table.symbols) + 1
          /\ DOMAIN meaning' = 1 .. Len(table.symbols) + 1
          /\ table'.symbols[Len(table.symbols) + 1] = sym
          /\ meaning'[Len(table.symbols) + 1] = value
          /\ \A i \in DOMAIN table.symbols :
               table'.symbols[i] = table.symbols[i] /\ meaning'[i] = meaning[i]
      BY <1>3, <2>2, Appended
    <3> QED
      BY <1>3, <3>1
  <2> QED
    BY <2>1, <2>2 DEF Goes, SymbolStep
<1>5. \A i \in DOMAIN table.symbols :
        /\ table.symbols[i].span \in DOMAIN prog /\ table.symbols[i].span < Here
        /\ prog[table.symbols[i].span].name = table.symbols[i].name
        /\ table.symbols[i].name \in Names
  <2>1. \A i \in DOMAIN table.symbols : table.symbols[i].name \in Names
    BY TableFacts DEF Symbol, IInv, TypeOK
  <2> QED
    BY <2>1, <1>1 DEF IInv, Linked, LinkedIn, Links
<1>6. Bound'
  <2> SUFFICES ASSUME NEW i \in DOMAIN meaning', meaning'[i].is # "none"
               PROVE  /\ prog'[table'.symbols[i].span].what = "const"
                      /\ Once' => const_values'[table'.symbols[i].name] = meaning'[i]
    BY DEF Bound
  <2>1. CASE i \in DOMAIN table.symbols
    <3> DEFINE k == table.symbols[i].span
               y == table.symbols[i].name
    <3>1. meaning[i].is # "none" /\ i \in DOMAIN meaning
      BY <1>3, <1>4, <2>1
    <3>2. prog[k].what = "const" /\ (Once => const_values[y] = meaning[i])
      BY <3>1 DEF History, Bound
    <3>3. k \in DOMAIN prog /\ k < Here /\ prog[k].name = y /\ y \in Names
      BY <1>5, <2>1
    <3>4. table'.symbols[i].span = k /\ table'.symbols[i].name = y /\ meaning'[i] = meaning[i]
      BY <1>4, <2>1
    <3> HIDE DEF k, y
    <3>5. prog'[k].what = "const" /\ prog'[k].name = y /\ k \in DOMAIN prog'
      BY <1>1, <3>2, <3>3
    <3>6. ASSUME Once' PROVE const_values'[y] = const_values[y]
      <4>1. CASE const_values' = const_values
        BY <4>1
      <4>2. ASSUME NEW x \in Names, NEW v \in Value, const_values' = [const_values EXCEPT ![x] = v],
                   Here \in DOMAIN prog', prog'[Here].what = "const", prog'[Here].name = x
            PROVE  const_values'[y] = const_values[y]
        <5>1. k # Here
          BY <1>1, <3>3
        <5>2. x # y
          BY <3>5, <3>6, <4>2, <5>1 DEF Once
        <5>3. const_values \in [Names -> Value]
          BY DEF IInv, TypeOK
        <5> QED
          BY <3>3, <4>2, <5>2, <5>3
      <4> QED
        BY <4>1, <4>2 DEF Goes, ConstStep
    <3> QED
      BY <1>2, <3>2, <3>4, <3>5, <3>6
  <2>2. CASE i \notin DOMAIN table.symbols
    BY <2>2, <1>3, <1>4
  <2> QED
    BY <2>1, <2>2
<1>7. ErrorTypesReported'
  <2> DEFINE Why(k, last) ==
               \/ \E e \in errors' \ Duplicates' : e.second = k
               \/ prog'[k].form = "Named" /\ \E j \in 1 .. last : table'.symbols[j].ty.ty = "Error"
               \/ prog'[k].form = "Partial"
  <2>1. ASSUME NEW i \in DOMAIN table.symbols, table.symbols[i].ty.ty = "Error"
        PROVE  Why(table.symbols[i].span, i - 1)
    <3> DEFINE k == table.symbols[i].span
    <3>1. \/ \E e \in errors \ Duplicates : e.second = k
          \/ prog[k].form = "Named" /\ \E j \in 1 .. i - 1 : table.symbols[j].ty.ty = "Error"
          \/ prog[k].form = "Partial"
      BY <2>1 DEF History, ErrorTypesReported
    <3>2. errors \ Duplicates \subseteq errors' \ Duplicates'
      BY DEF Goes, Duplicates
    <3>3. prog'[k] = prog[k]
      BY <1>1, <1>5, <2>1
    <3>4. \A j \in 1 .. i - 1 : table'.symbols[j] = table.symbols[j]
      <4>1. \A j \in 1 .. i - 1 : j \in DOMAIN table.symbols
        BY <1>3, <2>1
      <4> QED
        BY <1>4, <4>1
    <3> HIDE DEF k
    <3> QED
      BY <3>1, <3>2, <3>3, <3>4 DEF k
  <2>2. ASSUME Explained PROVE Why(Here, Len(table.symbols))
    <3>1. CASE \E e \in errors' : e.error # "DuplicateDefinition" /\ e.second = Here
      BY <3>1 DEF Duplicates
    <3>2. CASE prog'[Here].form = "Partial"
      BY <3>2
    <3>3. CASE prog'[Here].form = "Named" /\ \E i \in DOMAIN table.symbols : table.symbols[i].ty.ty = "Error"
      BY <1>3, <1>4, <3>3
    <3> QED
      BY <2>2, <3>1, <3>2, <3>3 DEF Explained
  <2> HIDE DEF Why
  <2>3. (Len(table.symbols) + 1) - 1 = Len(table.symbols)
    BY <1>3
  <2>4. ASSUME NEW i \in DOMAIN table'.symbols, table'.symbols[i].ty.ty = "Error"
        PROVE  Why(table'.symbols[i].span, i - 1)
    <3>1. CASE i \in DOMAIN table.symbols
      BY <1>4, <2>1, <2>4, <3>1
    <3>2. CASE i \notin DOMAIN table.symbols
      <4>1. i = Len(table.symbols) + 1
        BY <1>4, <2>4, <3>2
      <4> QED
        BY <1>4, <2>2, <2>3, <2>4, <3>2, <4>1
    <3> QED
      BY <3>1, <3>2
  <2> QED
    BY <2>4 DEF ErrorTypesReported, Why
<1>8. ConstWidthsExact'
  BY DEF History, ConstWidthsExact, Goes, UseStep, to_u64
<1> QED
  BY <1>6, <1>7, <1>8 DEF History

LEMMA DefinedSymbols ==
  ASSUME IInv, NEW x \in Names, NEW kind \in SymbolKind, NEW ty \in Ty
  PROVE  /\ \/ Defined(x, kind, ty).symbols = table.symbols
            \/ Defined(x, kind, ty).symbols
                 = Append(table.symbols, Made(current_scope, x, kind, ty, Here))
         /\ Made(current_scope, x, kind, ty, Here) \in Symbol
<1>1. current_scope \in Nat /\ Here \in Nat
  BY CurrentScope, OpenFacts DEF IInv
<1> QED
  BY <1>1 DEF Defined, define, Made, Symbol

LEMMA RememberStep ==
  ASSUME IInv, NEW sym \in Symbol, NEW value \in Value, Remember(value),
         table'.symbols = table.symbols \/ table'.symbols = Append(table.symbols, sym)
  PROVE  \/ table'.symbols = table.symbols /\ meaning' = meaning
         \/ table'.symbols = Append(table.symbols, sym) /\ meaning' = Append(meaning, value)
<1>1. table.symbols \in Seq(Symbol) /\ Len(table.symbols) \in Nat
  BY TableFacts DEF IInv, TypeOK
<1>2. CASE table'.symbols = table.symbols
  BY <1>2 DEF Remember
<1>3. CASE table'.symbols = Append(table.symbols, sym)
  <2>1. Len(table'.symbols) # Len(table.symbols)
    BY <1>1, <1>3, Appended
  <2> QED
    BY <1>3, <2>1 DEF Remember
<1> QED
  BY <1>2, <1>3

\* What is pushed with a type is not a DuplicateDefinition.
LEMMA PushStep ==
  ASSUME NEW x, NEW errs \in SUBSET TypeErrors, Push(x, errs), Here \in Nat
  PROVE  /\ errors \subseteq errors'
         /\ errs # {} => \E e \in errors' : e.error # "DuplicateDefinition" /\ e.second = Here
<1> DEFINE r(e) == [error |-> e, name |-> x, first |-> 0, second |-> Here]
<1>1. errors \subseteq errors' /\ \A e \in errs : r(e) \in errors'
  BY DEF Push
<1>2. \A e \in errs : e # "DuplicateDefinition"
  BY DEF TypeErrors
<1>3. \A e \in errs : r(e).error = e /\ r(e).second = Here
  OBVIOUS
<1> HIDE DEF r
<1> QED
  BY <1>1, <1>2, <1>3

LEMMA DeclareGoes ==
  ASSUME IInv, NEW what \in Declaring, NEW x \in Names, NEW kind \in SymbolKind, NEW ty \in Ty,
         NEW errs \in SUBSET TypeErrors, NEW value \in Value, NEW form,
         Met(what, x, form) \in Statement,
         DeclareStep(what, x, kind, ty, errs, value, form),
         ty.ty = "Error" =>
           \/ errs # {} \/ form = "Partial"
           \/ form = "Named" /\ \E i \in DOMAIN table.symbols : table.symbols[i].ty.ty = "Error",
         value.is # "none" => what = "const" /\ (Once' => const_values'[x] = value)
  PROVE  /\ prog' = prog \/ \E rec \in Statement : prog' = Append(prog, rec)
         /\ errors \subseteq errors'
         /\ SymbolStep
         /\ Here \in DOMAIN prog' /\ prog'[Here].what = what /\ prog'[Here].name = x
<1> DEFINE sym == Made(current_scope, x, kind, ty, Here)
<1>1. /\ prog' = Append(prog, Met(what, x, form)) /\ table' = Defined(x, kind, ty)
      /\ Push(x, errs) /\ Remember(value)
  BY DEF DeclareStep
<1>2. /\ prog \in Seq(Statement) /\ Here = Len(prog) + 1 /\ Here \in Nat
  BY OpenFacts DEF IInv
<1>3. /\ prog'[Here] = Met(what, x, form) /\ Here \in DOMAIN prog'
  BY <1>1, <1>2, Appended
<1>4. prog'[Here].what = what /\ prog'[Here].name = x /\ prog'[Here].form = form
  BY <1>3 DEF Met
<1>5. errors \subseteq errors'
      /\ (errs # {} => \E e \in errors' : e.error # "DuplicateDefinition" /\ e.second = Here)
  BY <1>1, <1>2, PushStep
<1>6. sym.span = Here /\ sym.ty = ty /\ sym.name = x
  BY DEF Made
<1>7. /\ sym \in Symbol
      /\ table'.symbols = table.symbols \/ table'.symbols = Append(table.symbols, sym)
  BY <1>1, DefinedSymbols
<1> HIDE DEF sym
<1>8. ty.ty = "Error" => Explained
  BY <1>4, <1>5 DEF Explained
<1>9. \/ table'.symbols = table.symbols /\ meaning' = meaning
      \/ table'.symbols = Append(table.symbols, sym) /\ meaning' = Append(meaning, value)
  BY <1>1, <1>7, RememberStep
<1>10. SymbolStep
  BY <1>4, <1>6, <1>7, <1>8, <1>9 DEF SymbolStep
<1> QED
  BY <1>1, <1>3, <1>4, <1>5, <1>10

\* The value that a name has by its scopes is the one bound to it, if no
\* constant's name is declared twice.
LEMMA MeaningBound ==
  ASSUME IInv, Bound, NEW x \in Names, Meaning(x).is # "none", Once
  PROVE  EvalName(x) = Meaning(x)
<1>1. Lookup(x) # 0
  BY DEF Meaning, NoValue
<1>2. Lookup(x) \in DOMAIN table.symbols /\ table.symbols[Lookup(x)].name = x
  BY <1>1, LookupFound DEF IInv
<1>3. DOMAIN meaning = DOMAIN table.symbols
  BY TableFacts DEF IInv, TypeOK
<1> QED
  BY <1>1, <1>2, <1>3 DEF Bound, Meaning, EvalName

LEMMA UseGoes ==
  ASSUME IInv, Bound, NEW te \in OptType, Use(te)
  PROVE  UseStep
<1> DEFINE u == [got |-> resolve_type(te).ty.n, want |-> Meaning(te.name), once |-> Once]
<1>1. CASE te.form \in Counted
  <2>1. te.name \in Names /\ te.form # "None"
    BY <1>1, TypeExprFacts DEF Counted
  <2>2. EvalName(te.name).is = "UInt" => resolve_type(te).ty.n = to_u64(EvalName(te.name).n)
    <3>1. resolve_opt(te, "Void") = resolve_type(te)
      BY <2>1 DEF resolve_opt
    <3> QED
      BY <3>1, <1>1, ResolveType DEF IInv
  <2>3. (Once /\ Meaning(te.name).is = "UInt") => resolve_type(te).ty.n = to_u64(Meaning(te.name).n)
    <3>1. SUFFICES ASSUME Once, Meaning(te.name).is = "UInt"
                   PROVE  resolve_type(te).ty.n = to_u64(Meaning(te.name).n)
      OBVIOUS
    <3>2. EvalName(te.name) = Meaning(te.name)
      BY <2>1, <3>1, MeaningBound
    <3> QED
      BY <2>2, <3>1, <3>2
  <2>4. u.got = resolve_type(te).ty.n /\ u.want = Meaning(te.name) /\ u.once = Once
    OBVIOUS
  <2>5. uses' = uses \union {u}
    BY <1>1 DEF Use
  <2> HIDE DEF u
  <2> QED
    BY <2>3, <2>4, <2>5 DEF UseStep
<1>2. CASE te.form \notin Counted
  BY <1>2 DEF Use, UseStep
<1> QED
  BY <1>1, <1>2

LEMMA TypedGoes ==
  ASSUME IInv, Bound, NEW what \in Declaring, NEW x \in Names, NEW kind \in SymbolKind,
         NEW te \in OptType, NEW head,
         DeclareTyped(what, x, kind, te, "Void", head)
  PROVE  Goes
<1> DEFINE r == resolve_opt(te, "Void")
<1>1. /\ r.ty \in Ty /\ r.errs \in SUBSET TypeErrors
      /\ r.ty.ty = "Error" =>
           \/ r.errs # {} \/ te.form = "Partial"
           \/ te.form = "Named" /\ \E i \in DOMAIN table.symbols : table.symbols[i].ty.ty = "Error"
  BY ResolveType DEF IInv
<1>2. NoValue \in Value /\ NoValue.is = "none"
  BY Values DEF IInv, NoValue
<1>3. Met(what, x, te.form) \in Statement /\ prog' = Append(prog, Met(what, x, te.form))
  BY MeetFacts DEF DeclareTyped
<1>4. DeclareStep(what, x, kind, r.ty, r.errs, NoValue, te.form)
  BY <1>3 DEF DeclareTyped, DeclareStep
<1> HIDE DEF r
<1>5. /\ prog' = prog \/ \E rec \in Statement : prog' = Append(prog, rec)
      /\ errors \subseteq errors' /\ SymbolStep
  BY <1>1, <1>2, <1>3, <1>4, DeclareGoes
<1>6. UseStep
  BY UseGoes DEF DeclareTyped
<1>7. ConstStep
  BY DEF DeclareTyped, ConstStep
<1> QED
  BY <1>5, <1>6, <1>7 DEF Goes

LEMMA GivenGoes ==
  ASSUME IInv, NEW what \in Declaring, NEW x \in Names, NEW kind \in SymbolKind,
         NEW ty \in Ty, NEW head, DeclareAs(what, x, kind, ty, head), ty.ty # "Error"
  PROVE  Goes
<1>1. NoValue \in Value /\ NoValue.is = "none"
  BY Values DEF IInv, NoValue
<1>2. Met(what, x, "None") \in Statement /\ prog' = Append(prog, Met(what, x, "None"))
  BY MeetFacts DEF DeclareAs
<1>3. DeclareStep(what, x, kind, ty, {}, NoValue, "None")
  BY <1>2 DEF DeclareAs, DeclareStep
<1>4. /\ prog' = prog \/ \E rec \in Statement : prog' = Append(prog, rec)
      /\ errors \subseteq errors' /\ SymbolStep
  BY <1>1, <1>2, <1>3, DeclareGoes
<1> QED
  BY <1>4 DEF Goes, DeclareAs, ConstStep, UseStep

LEMMA ConstGoes ==
  ASSUME IInv, Bound, NEW x \in Names, NEW te \in OptType, NEW init \in Initialiser,
         Const(x, te, init)
  PROVE  Goes
<1> DEFINE r == resolve_opt(te, "MetaUInt")
           value == IF init.init = "name" THEN Meaning(init.name) ELSE Eval(init)
<1>1. /\ r.ty \in Ty /\ r.errs \in SUBSET TypeErrors
      /\ r.ty.ty = "Error" =>
           \/ r.errs # {} \/ te.form = "Partial"
           \/ te.form = "Named" /\ \E i \in DOMAIN table.symbols : table.symbols[i].ty.ty = "Error"
  BY ResolveType DEF IInv
<1>2. value \in Value /\ Eval(init) \in Value /\ (init.init = "name" => init.name \in Names)
  BY Values, InitialiserFacts DEF IInv
<1>3. Met("const", x, te.form) \in Statement /\ prog' = Append(prog, Met("const", x, te.form))
  BY MeetFacts DEF Const
<1>4. DeclareStep("const", x, "Const", r.ty, r.errs, value, te.form)
  BY <1>3 DEF Const, DeclareStep
<1>5. const_values' = IF Eval(init) = NoValue THEN const_values
                      ELSE [const_values EXCEPT ![x] = Eval(init)]
  BY DEF Const, Bind
<1>6. const_values \in [Names -> Value]
  BY DEF IInv, TypeOK
<1> HIDE DEF r
<1>7. Once' => Once
  <2>1. prog \in Seq(Statement)
    BY OpenFacts DEF IInv
  <2>2. /\ DOMAIN prog' = 1 .. Len(prog) + 1 /\ DOMAIN prog = 1 .. Len(prog) /\ Len(prog) \in Nat
        /\ \A k \in DOMAIN prog : prog'[k] = prog[k]
    BY <1>3, <2>1, Appended
  <2>3. \A k \in DOMAIN prog : k \in DOMAIN prog'
    BY <2>2
  <2> QED
    BY <2>2, <2>3 DEF Once
<1>8. ASSUME value.is # "none", Once' PROVE const_values'[x] = value
  <2>1. Eval(init) = value
    <3>1. CASE init.init = "name"
      <4>1. EvalName(init.name) = Meaning(init.name)
        BY <1>2, <1>7, <1>8, <3>1, MeaningBound
      <4>2. Eval(init) = EvalName(init.name)
        BY <3>1 DEF Eval
      <4> QED
        BY <3>1, <4>1, <4>2
    <3>2. CASE init.init # "name"
      BY <3>2
    <3> QED
      BY <3>1, <3>2
  <2>2. Eval(init) # NoValue
    BY <1>8, <2>1 DEF NoValue
  <2>3. const_values' = [const_values EXCEPT ![x] = Eval(init)]
    BY <1>5, <2>2
  <2>4. const_values'[x] = Eval(init)
    BY <1>6, <2>3
  <2> QED
    BY <2>1, <2>4
<1> HIDE DEF value
<1>9. /\ prog' = prog \/ \E rec \in Statement : prog' = Append(prog, rec)
      /\ errors \subseteq errors' /\ SymbolStep
      /\ Here \in DOMAIN prog' /\ prog'[Here].what = "const" /\ prog'[Here].name = x
  <2>1. "const" \in Declaring /\ "Const" \in SymbolKind
    BY DEF Declaring, SymbolKind
  <2>2. value.is # "none" => "const" = "const" /\ (Once' => const_values'[x] = value)
    BY <1>8
  <2>3. value \in Value
    BY <1>2
  <2>4. Met("const", x, te.form) \in Statement
    BY <1>3
  <2> QED
    BY <1>1, <1>4, <2>1, <2>2, <2>3, <2>4, DeclareGoes
<1>10. ConstStep
  BY <1>2, <1>5, <1>9 DEF ConstStep
<1>11. UseStep
  BY UseGoes DEF Const
<1> QED
  BY <1>9, <1>10, <1>11 DEF Goes

\* A step that declares nothing.
LEMMA QuietGoes ==
  ASSUME table' = table, meaning' = meaning, errors' = errors,
         const_values' = const_values, uses' = uses,
         prog' = prog \/ \E rec \in Statement : prog' = Append(prog, rec)
  PROVE  Goes
BY DEF Goes, SymbolStep, ConstStep, UseStep

\* A step that enters a construct with a scope of its own.
LEMMA EnterGoes ==
  ASSUME IInv, NEW rec \in Statement, prog' = Append(prog, rec), NEW sym \in Symbol,
         table'.symbols = table.symbols \/ table'.symbols = Append(table.symbols, sym),
         sym.span = Here, sym.ty.ty # "Error", Remember(NoValue),
         errors \subseteq errors', const_values' = const_values, uses' = uses
  PROVE  Goes
<1>1. NoValue \in Value /\ NoValue.is = "none"
  BY Values DEF IInv, NoValue
<1>2. \/ table'.symbols = table.symbols /\ meaning' = meaning
      \/ table'.symbols = Append(table.symbols, sym) /\ meaning' = Append(meaning, NoValue)
  BY <1>1, RememberStep
<1>3. SymbolStep
  BY <1>1, <1>2 DEF SymbolStep
<1> QED
  BY <1>3 DEF Goes, ConstStep, UseStep

LEMMA EnterItemGoes ==
  ASSUME IInv, NEW what \in {"module", "extern", "fn"}, NEW x \in Names, EnterItem(what, x)
  PROVE  Goes
<1> DEFINE rec == Met(what, x, "None")
           kind == IF what = "fn" THEN "Fn" ELSE "Module"
           scope == IF what = "fn" THEN "Function" ELSE "Module"
           ty == NoType("Void")
           u == Defined(x, kind, ty)
           sym == Made(current_scope, x, kind, ty, Here)
<1>1. rec \in Statement /\ prog' = Append(prog, rec)
  BY MeetFacts DEF EnterItem
<1>2. kind \in SymbolKind /\ scope \in ScopeKind /\ ty \in Ty /\ ty.ty # "Error"
  BY TyFacts DEF SymbolKind, ScopeKind, NoType
<1>3. /\ table' = push_scope(u, current_scope, scope) /\ Push(x, {}) /\ Remember(NoValue)
      /\ const_values' = const_values /\ uses' = uses
  BY DEF EnterItem, Enter
<1>4. sym.span = Here /\ sym.ty = ty
  BY DEF Made
<1> HIDE DEF rec, kind, scope, ty
<1>5. /\ u.symbols = table.symbols \/ u.symbols = Append(table.symbols, sym)
      /\ sym \in Symbol
  BY <1>2, DefinedSymbols
<1>6. u \in Table
  BY <1>2, CurrentScope, OpenFacts, DefineTable DEF Defined, IInv, TypeOK
<1> HIDE DEF u, sym
<1>7. table'.symbols = u.symbols
  BY <1>3, <1>6 DEF push_scope, Table
<1>8. errors \subseteq errors'
  BY <1>3 DEF Push
<1> QED
  BY <1>1, <1>2, <1>3, <1>4, <1>5, <1>7, <1>8, EnterGoes

LEMMA EnterForGoes ==
  ASSUME IInv, NEW x \in Names, EnterFor(x)
  PROVE  Goes
<1> DEFINE rec == Met("for", x, "None")
           child == push_scope(table, current_scope, "Block")
           id == Len(table.scopes) + 1
           ty == NoType("MetaUInt")
           sym == Made(id, x, "LoopVar", ty, Here)
<1>1. rec \in Statement /\ prog' = Append(prog, rec)
  BY MeetFacts DEF EnterFor
<1>2. /\ current_scope \in DOMAIN table.scopes /\ current_scope \in 0 .. Len(table.scopes)
      /\ Len(table.scopes) \in Nat /\ table \in Table /\ WellFormed(table)
  BY CurrentScope, TableFacts DEF IInv, TypeOK
<1>3. child \in Table /\ Pushes(table, child, current_scope)
  BY <1>2, PushTable DEF ScopeKind
<1>4. Len(child.scopes) = id /\ child.symbols = table.symbols
  BY <1>3 DEF Pushes
<1>5. /\ table' = define(child, id, x, "LoopVar", ty, Here) /\ Remember(NoValue)
      /\ errors' = errors /\ const_values' = const_values /\ uses' = uses
  BY <1>4 DEF EnterFor
<1>6. ty \in Ty /\ ty.ty # "Error" /\ Here \in Nat
  BY TyFacts, OpenFacts DEF IInv, NoType
<1> HIDE DEF child, rec, ty
<1>7. table'.symbols = table.symbols \/ table'.symbols = Append(table.symbols, sym)
  BY <1>4, <1>5 DEF define, Made
<1>8. sym \in Symbol /\ sym.span = Here /\ sym.ty = ty
  BY <1>2, <1>6 DEF Symbol, Made, SymbolKind
<1> HIDE DEF sym
<1> QED
  BY <1>1, <1>5, <1>6, <1>7, <1>8, EnterGoes

LEMMA NextGoes == IInv /\ Bound /\ [Next]_vars => Goes
<1> SUFFICES ASSUME IInv, Bound, [Next]_vars PROVE Goes
  OBVIOUS
<1>1. CASE UNCHANGED vars
  BY <1>1, QuietGoes DEF vars
<1>2. ASSUME NEW x \in Names, Generic(x) PROVE Goes
  <2>1. Met("generic", x, "None") \in Statement /\ prog' = Append(prog, Met("generic", x, "None"))
    BY <1>2, MeetFacts DEF Generic
  <2> QED
    BY <1>2, <2>1, QuietGoes DEF Generic
<1>3. ASSUME NEW x \in Names, Variant(x) PROVE Goes
  <2>1. next_id["Enum"] - 1 \in Nat
    BY <1>3 DEF Variant, VariantsCounted, Nominal, IInv, TypeOK
  <2>2. [ty |-> "Enum", n |-> next_id["Enum"] - 1] \in Ty
    BY <2>1, TyFacts
  <2> QED
    BY <1>3, <2>2, GivenGoes DEF Variant, Declaring, SymbolKind
<1>4. ASSUME NEW x \in Names, NEW te \in OptType,
             Parameter(x, te) \/ Signal(x, te) \/ TypeAlias(x, te) \/ Let(x, te)
      PROVE  Goes
  <2>1. PICK what \in Declaring, kind \in SymbolKind, head \in {"parameters", "none"} :
          DeclareTyped(what, x, kind, te, "Void", head)
    BY <1>4 DEF Parameter, Signal, TypeAlias, Let, Declaring, SymbolKind
  <2> QED
    BY <2>1, TypedGoes
<1>5. ASSUME NEW x \in Names, NEW kind \in Nominal, DeclareNominal(x, kind) PROVE Goes
  <2>1. [ty |-> kind, n |-> next_id[kind]] \in Ty
    BY TyFacts DEF Nominal, IInv, TypeOK
  <2> QED
    BY <1>5, <2>1, GivenGoes DEF DeclareNominal, Declaring, SymbolKind, Nominal
<1>6. ASSUME NEW x \in Names, NEW kind \in Opaque, DeclareOpaque(x, kind) PROVE Goes
  BY <1>6, TyFacts, GivenGoes DEF DeclareOpaque, Declaring, SymbolKind, Opaque, NoType
<1>7. ASSUME NEW kind \in {"body", "gen"}, EnterBody(kind) PROVE Goes
  <2>1. Met(kind, NoName, "None") \in Statement /\ prog' = Append(prog, Met(kind, NoName, "None"))
    BY <1>7, MeetFacts DEF EnterBody
  <2> QED
    BY <1>7, <2>1, QuietGoes DEF EnterBody
<1>8. ASSUME NEW what \in Mentions, NEW x \in Names, Mention(what, x) PROVE Goes
  <2>1. Met(what, x, "None") \in Statement /\ prog' = Append(prog, Met(what, x, "None"))
    BY <1>8, MeetFacts DEF Mention
  <2> QED
    BY <1>8, <2>1, QuietGoes DEF Mention
<1>9. CASE Leave
  BY <1>9, QuietGoes DEF Leave
<1>10. TypeExpr \subseteq OptType
  BY DEF OptType
<1> QED
  BY <1>1, <1>2, <1>3, <1>4, <1>5, <1>6, <1>7, <1>8, <1>9, <1>10,
     EnterItemGoes, EnterForGoes, ConstGoes DEF Next

LEMMA InitHistory == Init => History
BY DEF Init, History, Bound, ErrorTypesReported, ConstWidthsExact, EmptyTable

LEMMA HistoryHolds == Spec => []History
<1>1. IInv /\ IInv' /\ History /\ [Next]_vars => History'
  BY NextGoes, HistoryKept DEF History
<1> QED
  BY <1>1, InitHistory, Invariant, PTL DEF Spec

(***************************************************************************)
(* A width or size that names a constant with a value is that value, or    *)
(* the largest width if that is less, as long as no two constants have the *)
(* same name (resolve.rs:27-29, 398-421, 653-756).                         *)
(***************************************************************************)
THEOREM WidthsAreExact == Spec => []ConstWidthsExact
<1>1. History => ConstWidthsExact
  BY DEF History
<1> QED
  BY <1>1, HistoryHolds, PTL

(***************************************************************************)
(* A symbol of type Error has an error of its own, unless it names another *)
(* of that type or is a partial interface (resolve.rs:448).                *)
(***************************************************************************)
THEOREM ErrorTypesAreReported == Spec => []ErrorTypesReported
<1>1. History => ErrorTypesReported
  BY DEF History
<1> QED
  BY <1>1, HistoryHolds, PTL

-----------------------------------------------------------------------------
(* Lookup is lexical. *)

\* The recursion of Around, unfolded once.
LEMMA AroundStep ==
  ASSUME IInv
  PROVE  /\ Around(0) = {0}
         /\ \A b \in DOMAIN prog : Around(b) = {b} \union Around(prog[b].scope)
<1> DEFINE n == Len(prog)
           Step(f) == [c \in 0 .. n |-> IF c = 0 THEN {0} ELSE {c} \union f[prog[c].scope]]
           around == CHOOSE f : f = Step(f)
           up == [c \in 1 .. n |-> prog[c].scope]
           G == [c \in 1 .. n |-> [v \in SUBSET Nat |-> {c} \union v]]
<1>1. /\ n \in Nat /\ DOMAIN prog = 1 .. n
      /\ \A c \in 1 .. n : prog[c].scope \in Nat /\ prog[c].scope < c
  <2>1. /\ n \in Nat /\ DOMAIN prog = 1 .. n /\ prog \in Seq(Statement)
    BY OpenFacts DEF IInv
  <2>2. \A c \in 1 .. n : prog[c] \in Statement
    BY <2>1
  <2> QED
    BY <2>1, <2>2 DEF IInv, Nested, Statement
<1>2. PICK f : Computed(f, n, SUBSET Nat, {0}, up, G)
  <2>1. G \in [1 .. n -> [SUBSET Nat -> SUBSET Nat]]
    <3>1. \A c \in 1 .. n, v \in SUBSET Nat : {c} \union v \in SUBSET Nat
      BY <1>1
    <3> HIDE DEF n
    <3> QED
      BY <3>1
  <2>2. up \in [1 .. n -> Nat] /\ (\A c \in 1 .. n : up[c] < c) /\ {0} \in SUBSET Nat
    BY <1>1
  <2>3. Descending(n, SUBSET Nat, {0}, up, G)
    <3> HIDE DEF G, up, n
    <3> QED
      BY <1>1, <2>1, <2>2 DEF Descending
  <2> HIDE DEF up, G, n
  <2> QED
    BY <2>3, Descent, Zenon
<1>3. f \in [0 .. n -> SUBSET Nat] /\ f[0] = {0} /\ \A c \in 1 .. n : f[c] = G[c][f[up[c]]]
  BY <1>2 DEF Computed
<1>4. f = Step(f)
  <2>1. ASSUME NEW c \in 1 .. n PROVE f[c] = Step(f)[c]
    <3>1. up[c] = prog[c].scope /\ f[up[c]] \in SUBSET Nat
      BY <1>1, <1>3
    <3>2. G[c][f[up[c]]] = {c} \union f[up[c]]
      BY <3>1
    <3>3. c \in 0 .. n /\ c # 0
      BY <1>1
    <3>4. Step(f)[c] = {c} \union f[prog[c].scope]
      BY <3>3
    <3> HIDE DEF Step, G, up
    <3> QED
      BY <3>1, <3>2, <3>4, <1>3
  <2>2. f[0] = Step(f)[0]
    BY <1>1, <1>3
  <2>3. Step(f) = [c \in 0 .. n |-> Step(f)[c]]
    OBVIOUS
  <2> HIDE DEF Step
  <2>4. \A c \in 0 .. n : f[c] = Step(f)[c]
    BY <2>1, <2>2, <1>1
  <2> QED
    BY <2>3, <2>4, <1>3
<1>5. around = Step(around)
  <2> HIDE DEF Step
  <2> QED
    BY <1>4, Zenon
<1>6. \A b : Around(b) = around[b]
  BY Zenon DEF Around, around, Step
<1> HIDE DEF around
<1>7. around[0] = {0}
  <2>1. 0 \in 0 .. n /\ around[0] = Step(around)[0]
    BY <1>1, <1>5
  <2> QED
    BY <2>1
<1>8. ASSUME NEW b \in 1 .. n PROVE around[b] = {b} \union around[prog[b].scope]
  <2>1. b \in 0 .. n /\ b # 0 /\ around[b] = Step(around)[b]
    BY <1>1, <1>5
  <2> QED
    BY <2>1
<1> QED
  BY <1>1, <1>6, <1>7, <1>8

\* The constructs around a place begin before it, but for its own.
LEMMA AroundBounds ==
  ASSUME IInv, NEW b \in 0 .. Len(prog)
  PROVE  b \in Around(b) /\ \A c \in Around(b) : c \in 0 .. b
<1> DEFINE Bounded(a) == a \in Around(a) /\ \A c \in Around(a) : c \in 0 .. a
           T == {a \in Nat : a <= Len(prog) => Bounded(a)}
<1>0. /\ Len(prog) \in Nat /\ DOMAIN prog = 1 .. Len(prog)
      /\ \A c \in DOMAIN prog : prog[c].scope \in Nat /\ prog[c].scope < c
  <2>1. /\ Len(prog) \in Nat /\ DOMAIN prog = 1 .. Len(prog) /\ prog \in Seq(Statement)
    BY OpenFacts DEF IInv
  <2>2. \A c \in 1 .. Len(prog) : prog[c] \in Statement
    BY <2>1
  <2> QED
    BY <2>1, <2>2 DEF IInv, Nested, Statement
<1>1. ASSUME NEW a \in Nat, \A m \in 0 .. a - 1 : m \in T PROVE a \in T
  <2>1. SUFFICES ASSUME a <= Len(prog) PROVE Bounded(a)
    OBVIOUS
  <2>2. CASE a = 0
    BY <2>2, AroundStep
  <2>3. CASE a # 0
    <3>1. a \in DOMAIN prog
      BY <1>0, <2>1, <2>3
    <3>2. prog[a].scope \in 0 .. a - 1 /\ prog[a].scope <= Len(prog)
      BY <1>0, <2>1, <3>1
    <3>3. Bounded(prog[a].scope)
      <4> HIDE DEF Bounded
      <4> QED
        BY <1>1, <3>2
    <3>4. Around(a) = {a} \union Around(prog[a].scope)
      BY <3>1, AroundStep
    <3> QED
      BY <3>2, <3>3, <3>4
  <2> QED
    BY <2>2, <2>3
<1>2. T = Nat
  <2> HIDE DEF T
  <2>1. T \subseteq Nat
    BY DEF T
  <2> QED
    BY <1>1, <2>1, Below
<1>3. Bounded(b)
  <2> HIDE DEF Bounded
  <2>1. b \in Nat /\ b <= Len(prog)
    BY <1>0
  <2>2. b \in T
    BY <1>2, <2>1
  <2> QED
    BY <2>1, <2>2
<1> QED
  BY <1>3

\* Declarations of x in the scope of the construct b.
In(b, x) == {k \in DOMAIN prog : Declares(k) /\ prog[k].name = x /\ BlockOf(k) = b}

\* The symbol that a scope has for x is the first of them.
LEMMA LocalFirst ==
  ASSUME IInv, NEW owner, Owner(owner), NEW s \in DOMAIN table.scopes, NEW x \in Names,
         lookup_local(table, s, x) # 0
  PROVE  /\ table.symbols[lookup_local(table, s, x)].span \in In(owner[s], x)
         /\ lookup_local(table, s, x) \in DOMAIN table.symbols
<1> DEFINE i == lookup_local(table, s, x)
           k == table.symbols[i].span
<1>1. i \in DOMAIN table.symbols /\ table.symbols[i].name = x /\ table.symbols[i].scope = s
  BY DEF IInv, TypeOK, WellFormed
<1>2. k \in DOMAIN prog /\ IsDeclaration(prog[k]) /\ prog[k].name = x
  BY <1>1 DEF IInv, Linked, LinkedIn, Links
<1>3. Block(prog, k) = owner[s]
  BY <1>1 DEF Owner, Owns
<1> QED
  BY <1>1, <1>2, <1>3 DEF In, Declares, BlockOf, IsDeclaration, Block

LEMMA LocalLeast ==
  ASSUME IInv, NEW owner, Owner(owner), NEW s \in DOMAIN table.scopes, NEW x \in Names,
         NEW k \in In(owner[s], x)
  PROVE  /\ lookup_local(table, s, x) # 0
         /\ table.symbols[lookup_local(table, s, x)].span <= k
<1>1. /\ k \in DOMAIN prog /\ IsDeclaration(prog[k]) /\ prog[k].name = x /\ Block(prog, k) = owner[s]
  BY DEF In, Declares, BlockOf, IsDeclaration, Block
<1>2. Accounts(table, prog, errors) /\ LinkedIn(table, prog)
  BY AccountsMean DEF IInv, Linked
<1>3. DOMAIN table.scopes = 1 .. Len(table.scopes) /\ Len(table.scopes) \in Nat
      /\ DOMAIN table.symbols = 1 .. Len(table.symbols) /\ Len(table.symbols) \in Nat
  BY TableFacts DEF IInv, TypeOK
<1>4. DOMAIN prog = 1 .. Len(prog) /\ Len(prog) \in Nat
  BY OpenFacts DEF IInv
<1>5. ASSUME NEW m \in Recorded(table), prog[m].name = x, Block(prog, m) = owner[s]
      PROVE  /\ lookup_local(table, s, x) # 0
             /\ table.symbols[lookup_local(table, s, x)].span = m
  <2>1. PICK j \in DOMAIN table.symbols : table.symbols[j].span = m
    BY DEF Recorded
  <2> DEFINE r == table.symbols[j].scope
  <2>2. r \in DOMAIN table.scopes /\ lookup_local(table, r, table.symbols[j].name) = j
        /\ prog[m].name = table.symbols[j].name
    BY <1>2, <2>1 DEF LinkedIn, Links
  <2>3. owner[r] = owner[s]
    BY <1>5, <2>1 DEF Owner, Owns
  <2> HIDE DEF r
  <2>4. r = s
    <3>1. \A a, b \in DOMAIN table.scopes : a < b => owner[a] < owner[b]
      BY DEF Owner, Owns
    <3>2. owner[s] \in Nat
      BY <1>4 DEF Owner, Owns
    <3>3. ~ (r < s) /\ ~ (s < r)
      BY <2>2, <2>3, <3>1, <3>2
    <3> QED
      BY <1>3, <2>2, <3>3
  <2>5. j # 0
    BY <1>3
  <2> QED
    BY <1>5, <2>1, <2>2, <2>4, <2>5
<1>6. k \in Recorded(table) \/ \E e \in Refused(errors) : e.second = k
  BY <1>1, <1>2 DEF Accounts, Seconds
<1>7. CASE k \in Recorded(table)
  BY <1>1, <1>4, <1>5, <1>7
<1>8. ASSUME NEW e \in Refused(errors), e.second = k
      PROVE  /\ lookup_local(table, s, x) # 0
             /\ table.symbols[lookup_local(table, s, x)].span <= k
  <2>1. /\ e.first < k /\ e.first \in Recorded(table)
        /\ prog[e.first].name = x /\ Block(prog, e.first) = owner[s]
    BY <1>1, <1>2, <1>8 DEF Accounts
  <2>2. /\ lookup_local(table, s, x) # 0
        /\ table.symbols[lookup_local(table, s, x)].span = e.first
    BY <1>5, <2>1
  <2>3. e.first \in DOMAIN prog
    BY <1>2, <2>1 DEF Recorded, LinkedIn, Links
  <2> QED
    BY <1>1, <1>4, <2>1, <2>2, <2>3
<1> QED
  BY <1>6, <1>7, <1>8

\* Declarations of x that are seen from the place b.
Seen(b, x) == {k \in DOMAIN prog : Declares(k) /\ prog[k].name = x /\ BlockOf(k) \in Around(b)}

\* The one among them that is meant.
Nearest(decls) ==
  LET inner == {k \in decls : \A j \in decls : BlockOf(j) <= BlockOf(k)}
  IN  IF decls = {} THEN 0 ELSE CHOOSE k \in inner : \A j \in inner : k <= j

LEMMA VisibleMeans == \A b, x : Visible(b, x) = Nearest(Seen(b, x))
BY DEF Visible, Seen, Nearest

\* In a scope that declares x, the first declaration there is the one seen.
LEMMA VisibleHere ==
  ASSUME IInv, NEW owner, Owner(owner), NEW s \in DOMAIN table.scopes, NEW x \in Names,
         lookup_local(table, s, x) # 0
  PROVE  Visible(owner[s], x) = table.symbols[lookup_local(table, s, x)].span
<1> DEFINE f == table.symbols[lookup_local(table, s, x)].span
           b == owner[s]
           inner == {k \in Seen(b, x) : \A j \in Seen(b, x) : BlockOf(j) <= BlockOf(k)}
           First(k) == \A j \in inner : k <= j
<1>1. f \in In(b, x) /\ \A k \in In(b, x) : f <= k
  <2>1. f \in In(b, x)
    BY LocalFirst
  <2>2. \A k \in In(b, x) : f <= k
    BY LocalLeast
  <2> QED
    BY <2>1, <2>2
<1>2. b \in 0 .. Len(prog) /\ Len(prog) \in Nat /\ DOMAIN prog = 1 .. Len(prog)
  BY OpenFacts DEF Owner, Owns, IInv
<1> HIDE DEF f, b
<1>3. b \in Around(b) /\ \A c \in Around(b) : c \in 0 .. b
  BY <1>2, AroundBounds
<1>4. f \in Seen(b, x) /\ BlockOf(f) = b /\ f \in DOMAIN prog
  BY <1>1, <1>3 DEF In, Seen
<1>5. \A k \in Seen(b, x) : BlockOf(k) \in 0 .. b /\ k \in DOMAIN prog
  BY <1>3 DEF Seen
<1>6. f \in inner
  BY <1>2, <1>4, <1>5
<1>7. ASSUME NEW k \in inner PROVE f <= k /\ k \in Nat
  <2>1. BlockOf(f) <= BlockOf(k)
    BY <1>4
  <2>2. BlockOf(k) = b
    BY <1>2, <1>4, <1>5, <2>1
  <2>3. k \in In(b, x)
    BY <2>2 DEF In, Seen
  <2> QED
    BY <1>1, <1>2, <1>5, <2>3
<1>8. Visible(b, x) = CHOOSE k \in inner : First(k)
  BY <1>4 DEF Visible, Seen
<1>9. First(f)
  BY <1>7
<1> DEFINE c == CHOOSE k \in inner : First(k)
<1>10. c \in inner /\ First(c)
  <2> HIDE DEF inner, First
  <2> QED
    BY <1>6, <1>9
<1>11. c <= f /\ f <= c /\ c \in Nat /\ f \in Nat
  <2> HIDE DEF c, inner
  <2> QED
    BY <1>6, <1>7, <1>10
<1>12. c = f
  <2> HIDE DEF c
  <2> QED
    BY <1>11
<1> QED
  BY <1>8, <1>12 DEF f, b

\* In one that does not, it is what is seen from the construct around it.
LEMMA VisibleAround ==
  ASSUME IInv, NEW owner, Owner(owner), NEW s \in DOMAIN table.scopes, NEW x \in Names,
         lookup_local(table, s, x) = 0
  PROVE  /\ s = root_scope => Visible(owner[s], x) = 0
         /\ s # root_scope => Visible(owner[s], x) = Visible(owner[table.scopes[s].parent], x)
<1>1. In(owner[s], x) = {}
  BY LocalLeast
<1>2. CASE s = root_scope
  <2>1. owner[s] = 0 /\ Around(0) = {0}
    BY <1>2, AroundStep DEF Owner, Owns
  <2>2. Seen(owner[s], x) = {}
    BY <1>1, <2>1 DEF Seen, In
  <2>3. Visible(owner[s], x) = Nearest({})
    BY <2>2, VisibleMeans
  <2> QED
    BY <1>2, <2>3 DEF Nearest
<1>3. CASE s # root_scope
  <2>1. /\ DOMAIN table.scopes = 1 .. Len(table.scopes) /\ Len(table.scopes) \in Nat
        /\ DOMAIN prog = 1 .. Len(prog) /\ Len(prog) \in Nat
    BY TableFacts, OpenFacts DEF IInv, TypeOK
  <2>2. /\ root_scope \in DOMAIN table.scopes /\ root_scope < s
    BY <1>3, <2>1 DEF root_scope, Owner, Owns
  <2>3. owner[s] \in DOMAIN prog
    <3>1. owner[root_scope] = 0 /\ owner[root_scope] < owner[s] /\ owner[s] \in 0 .. Len(prog)
      BY <2>2 DEF Owner, Owns
    <3> QED
      BY <2>1, <3>1
  <2>4. owner[table.scopes[s].parent] = prog[owner[s]].scope
    BY <1>3 DEF Owner, Owns
  <2>5. Around(owner[s]) = {owner[s]} \union Around(owner[table.scopes[s].parent])
    BY <2>3, <2>4, AroundStep
  <2>6. Seen(owner[s], x) = Seen(owner[table.scopes[s].parent], x)
    BY <1>1, <2>5 DEF Seen, In
  <2> QED
    BY <1>3, <2>6, VisibleMeans
<1> QED
  BY <1>2, <1>3

LEMMA LookupLexical ==
  ASSUME IInv, NEW owner, Owner(owner), NEW x \in Names, NEW s \in DOMAIN table.scopes
  PROVE  Found(s, x) = Visible(owner[s], x)
<1> DEFINE Agrees(r) == Found(r, x) = Visible(owner[r], x)
           T == {r \in Nat : r \in DOMAIN table.scopes => Agrees(r)}
<1>1. /\ table \in Table /\ WellFormed(table)
      /\ DOMAIN table.scopes = 1 .. Len(table.scopes) /\ Len(table.scopes) \in Nat
      /\ DOMAIN table.symbols = 1 .. Len(table.symbols) /\ Len(table.symbols) \in Nat
      /\ \A r \in DOMAIN table.scopes : table.scopes[r].parent \in Nat
  BY TableFacts DEF IInv, TypeOK, Scope
<1>2. ASSUME NEW r \in Nat, \A m \in 0 .. r - 1 : m \in T PROVE r \in T
  <2>1. SUFFICES ASSUME r \in DOMAIN table.scopes PROVE Agrees(r)
    OBVIOUS
  <2>2. CASE lookup_local(table, r, x) # 0
    <3>1. lookup(table, r, x) = lookup_local(table, r, x)
      BY <1>1, <2>1, <2>2, LookupStep
    <3> QED
      BY <2>1, <2>2, <3>1, VisibleHere DEF Found
  <2>3. CASE lookup_local(table, r, x) = 0
    <3>1. lookup(table, r, x) = lookup(table, table.scopes[r].parent, x)
      BY <1>1, <2>1, <2>3, LookupStep
    <3>2. table.scopes[r].parent \in Nat /\ table.scopes[r].parent < r
      BY <1>1, <2>1 DEF WellFormed
    <3>3. CASE r = root_scope
      <4>1. table.scopes[r].parent = 0
        BY <3>2, <3>3 DEF root_scope
      <4>2. lookup(table, r, x) = 0
        BY <1>1, <3>1, <4>1, LookupStep
      <4> QED
        BY <2>1, <2>3, <3>3, <4>2, VisibleAround DEF Found
    <3>4. CASE r # root_scope
      <4>1. table.scopes[r].parent # 0
        BY <2>1, <3>4 DEF Owner, Owns
      <4>2. table.scopes[r].parent \in 0 .. r - 1 /\ table.scopes[r].parent \in DOMAIN table.scopes
        BY <1>1, <2>1, <3>2, <4>1
      <4>3. Agrees(table.scopes[r].parent)
        <5> HIDE DEF Agrees
        <5> QED
          BY <1>2, <4>2
      <4>4. Visible(owner[r], x) = Visible(owner[table.scopes[r].parent], x)
        BY <2>1, <2>3, <3>4, VisibleAround
      <4> QED
        BY <3>1, <4>3, <4>4 DEF Found
    <3> QED
      BY <3>3, <3>4
  <2> QED
    BY <2>2, <2>3
<1>3. T = Nat
  <2> HIDE DEF T
  <2>1. T \subseteq Nat
    BY DEF T
  <2> QED
    BY <1>2, <2>1, Below
<1>4. s \in T
  BY <1>1, <1>3
<1> QED
  BY <1>4

\* In every state of the invariant, lookup agrees with the text.
LEMMA LookupFinds == IInv => LookupIsLexical
<1> SUFFICES ASSUME IInv PROVE LookupIsLexical
  OBVIOUS
<1>1. PICK owner, place : Owner(owner) /\ Place(owner, place)
  BY DEF IInv, Owned
<1>2. current_scope \in DOMAIN table.scopes /\ ScopeAt = owner[current_scope]
  BY <1>1, CurrentScope, ScopeAtOwner DEF IInv
<1>3. root_scope \in DOMAIN table.scopes /\ owner[root_scope] = 0
  BY <1>1 DEF Owner, Owns
<1>4. \A k \in DOMAIN scope_map : scope_map[k] \in DOMAIN table.scopes /\ owner[scope_map[k]] = k
  BY <1>1 DEF Owner, Owns
<1>5. \A x \in Names, s \in DOMAIN table.scopes : Found(s, x) = Visible(owner[s], x)
  BY <1>1, LookupLexical
<1> QED
  BY <1>2, <1>3, <1>4, <1>5 DEF LookupIsLexical

(***************************************************************************)
(* Looking a name up finds what lexical scoping gives it: from where the   *)
(* walk is, from the file's scope, and from the scope of every item that   *)
(* the later passes enter (scope.rs:203-217, resolve.rs:90-124).           *)
(***************************************************************************)
THEOREM LookupAlwaysLexical == Spec => []LookupIsLexical
<1> QED
  BY LookupFinds, Invariant, PTL

-----------------------------------------------------------------------------
(* The blocks of lexical scoping, as the arena holds them (Bindings and the *)
(* substitution of Lexical, for any table, stack, map and constructs).      *)

Binds(t, s) == [y \in Names |-> LET id == lookup_local(t, s, y)
                                IN  IF id = 0 THEN 0 ELSE t.symbols[id].span]
Env(t, stack) == [i \in 1 .. Len(stack) |-> Binds(t, stack[i])]
Begun(constructs) == {constructs[i].at : i \in DOMAIN constructs}
LeftAt(t, map, constructs) ==
  {[at |-> k, names |-> Binds(t, map[k])] : k \in DOMAIN map \ Begun(constructs)}
Pairs(errs) == {[first |-> e.first, second |-> e.second] : e \in Refused(errs)}

Block0 == [y \in Names |-> 0]
Blocks == [Names -> Nat]

\* The stack e, and the refused r, when x is declared at k in its last block.
DeclaredIn(e, x, k) ==
  IF e[Len(e)][x] = 0 THEN Append(SubSeq(e, 1, Len(e) - 1), [e[Len(e)] EXCEPT ![x] = k]) ELSE e
RefusedIn(e, r, x, k) ==
  IF e[Len(e)][x] = 0 THEN r ELSE r \union {[first |-> e[Len(e)][x], second |-> k]}

LEMMA AsFunction ==
  ASSUME NEW S, NEW q \in Seq(S), NEW n, DOMAIN q = 1 .. n
  PROVE  q = [i \in 1 .. n |-> q[i]]
OBVIOUS

LEMMA Replaced ==
  ASSUME NEW S, NEW q \in Seq(S), q # <<>>, NEW v \in S
  PROVE  Append(SubSeq(q, 1, Len(q) - 1), v)
           = [i \in 1 .. Len(q) |-> IF i = Len(q) THEN v ELSE q[i]]
<1> DEFINE n == Len(q)
           r == SubSeq(q, 1, n - 1)
<1>1. /\ n \in Nat \ {0} /\ r \in Seq(S) /\ Len(r) = n - 1 /\ DOMAIN r = 1 .. n - 1
      /\ \A i \in 1 .. n - 1 : r[i] = q[i]
  BY Shortened
<1> HIDE DEF n, r
<1>2. /\ Append(r, v) \in Seq(S) /\ DOMAIN Append(r, v) = 1 .. n
      /\ \A i \in 1 .. n - 1 : Append(r, v)[i] = r[i]
      /\ Append(r, v)[n] = v
  BY <1>1, Appended
<1>3. \A i \in 1 .. n : i \in 1 .. n - 1 \/ i = n
  BY <1>1
<1>4. \A i \in 1 .. n : Append(r, v)[i] = IF i = n THEN v ELSE q[i]
  BY <1>1, <1>2, <1>3
<1>5. Append(r, v) = [i \in 1 .. n |-> Append(r, v)[i]]
  BY <1>2, AsFunction
<1> QED
  BY <1>4, <1>5 DEF n, r

LEMMA BindsType ==
  ASSUME NEW t \in Table, WellFormed(t), NEW s \in DOMAIN t.scopes
  PROVE  Binds(t, s) \in Blocks
<1>1. \A y \in Names : lookup_local(t, s, y) # 0 =>
        lookup_local(t, s, y) \in DOMAIN t.symbols
        /\ t.symbols[lookup_local(t, s, y)] \in Symbol
  BY TableFacts DEF WellFormed
<1>2. \A y \in Names : lookup_local(t, s, y) # 0 => t.symbols[lookup_local(t, s, y)].span \in Nat
  BY <1>1 DEF Symbol
<1> QED
  BY <1>2 DEF Binds, Blocks

\* The scopes of a stack, the later the further in.
Stacked(t, stack) ==
  /\ stack \in Seq(Nat) /\ stack # <<>>
  /\ \A d \in DOMAIN stack : stack[d] \in DOMAIN t.scopes
  /\ \A c, d \in DOMAIN stack : c < d => stack[c] < stack[d]

LEMMA EnvFacts ==
  ASSUME NEW t \in Table, WellFormed(t), NEW stack, Stacked(t, stack)
  PROVE  /\ Len(stack) \in Nat \ {0} /\ DOMAIN stack = 1 .. Len(stack)
         /\ Env(t, stack) \in Seq(Blocks) /\ Len(Env(t, stack)) = Len(stack)
         /\ Env(t, stack) # <<>>
         /\ \A d \in 1 .. Len(stack) : Env(t, stack)[d] = Binds(t, stack[d])
<1> DEFINE n == Len(stack)
<1>1. n \in Nat \ {0} /\ DOMAIN stack = 1 .. n
  BY EmptySeq DEF Stacked
<1>2. \A d \in 1 .. n : Binds(t, stack[d]) \in Blocks
  BY <1>1, BindsType DEF Stacked
<1> HIDE DEF n
<1>3. [d \in 1 .. n |-> Binds(t, stack[d])] \in Seq(Blocks)
  BY <1>1, <1>2
<1>4. Env(t, stack) = [d \in 1 .. n |-> Binds(t, stack[d])]
  BY DEF Env, n
<1>5. Len(Env(t, stack)) = n
  BY <1>1, <1>3, <1>4
<1>6. Env(t, stack) # <<>>
  BY <1>1, <1>5
<1> QED
  BY <1>1, <1>3, <1>4, <1>5, <1>6 DEF n

LEMMA EnvAppend ==
  ASSUME NEW t \in Table, WellFormed(t), NEW stack, Stacked(t, stack), NEW c \in DOMAIN t.scopes
  PROVE  Env(t, Append(stack, c)) = Append(Env(t, stack), Binds(t, c))
<1> DEFINE n == Len(stack)
           e == Env(t, stack)
<1>1. /\ n \in Nat \ {0} /\ e \in Seq(Blocks) /\ Len(e) = n /\ DOMAIN e = 1 .. n
      /\ \A d \in 1 .. n : e[d] = Binds(t, stack[d])
  BY EnvFacts
<1>2. Binds(t, c) \in Blocks /\ stack \in Seq(Nat) /\ c \in Nat
  BY BindsType, TableFacts DEF Stacked
<1>3. /\ Len(Append(stack, c)) = n + 1 /\ Append(stack, c)[n + 1] = c
      /\ \A d \in 1 .. n : Append(stack, c)[d] = stack[d]
  BY <1>2, Appended
<1> HIDE DEF n, e
<1>4. /\ DOMAIN Append(e, Binds(t, c)) = 1 .. n + 1 /\ Append(e, Binds(t, c)) \in Seq(Blocks)
      /\ Append(e, Binds(t, c))[n + 1] = Binds(t, c)
      /\ \A d \in 1 .. n : Append(e, Binds(t, c))[d] = e[d]
  BY <1>1, <1>2, Appended
<1>5. \A d \in 1 .. n + 1 : d \in 1 .. n \/ d = n + 1
  BY <1>1
<1>6. \A d \in 1 .. n + 1 : Append(e, Binds(t, c))[d] = Binds(t, Append(stack, c)[d])
  BY <1>1, <1>3, <1>4, <1>5
<1>7. Append(e, Binds(t, c)) = [d \in 1 .. n + 1 |-> Append(e, Binds(t, c))[d]]
  BY <1>4, AsFunction
<1> QED
  BY <1>3, <1>6, <1>7 DEF Env, e

LEMMA EnvShorter ==
  ASSUME NEW t \in Table, WellFormed(t), NEW stack, Stacked(t, stack)
  PROVE  Env(t, SubSeq(stack, 1, Len(stack) - 1))
           = SubSeq(Env(t, stack), 1, Len(Env(t, stack)) - 1)
<1> DEFINE n == Len(stack)
           e == Env(t, stack)
           r == SubSeq(e, 1, n - 1)
<1>1. /\ n \in Nat \ {0} /\ e \in Seq(Blocks) /\ Len(e) = n /\ e # <<>>
      /\ \A d \in 1 .. n : e[d] = Binds(t, stack[d])
  BY EnvFacts
<1>2. /\ Len(SubSeq(stack, 1, n - 1)) = n - 1
      /\ \A d \in 1 .. n - 1 : SubSeq(stack, 1, n - 1)[d] = stack[d]
  BY Shortened DEF Stacked
<1> HIDE DEF n, e
<1>3. r \in Seq(Blocks) /\ DOMAIN r = 1 .. n - 1 /\ \A d \in 1 .. n - 1 : r[d] = e[d]
  BY <1>1, Shortened
<1>4. \A d \in 1 .. n - 1 : d \in 1 .. n
  BY <1>1
<1>5. \A d \in 1 .. n - 1 : r[d] = Binds(t, SubSeq(stack, 1, n - 1)[d])
  BY <1>1, <1>2, <1>3, <1>4
<1>6. r = [d \in 1 .. n - 1 |-> r[d]]
  BY <1>3
<1> HIDE DEF r
<1>7. Env(t, SubSeq(stack, 1, n - 1)) = r
  BY <1>2, <1>5, <1>6 DEF Env
<1> QED
  BY <1>1, <1>7 DEF r, n, e

LEMMA EnvSame ==
  ASSUME NEW t, NEW u, NEW stack, \A d \in 1 .. Len(stack) : Binds(u, stack[d]) = Binds(t, stack[d])
  PROVE  Env(u, stack) = Env(t, stack)
BY DEF Env

\* A new symbol is one more name of its scope.
LEMMA BindsAdd ==
  ASSUME NEW t \in Table, WellFormed(t), NEW u, NEW sym \in Symbol, Adds(t, u, sym),
         NEW c \in DOMAIN t.scopes
  PROVE  Binds(u, c) = IF c = sym.scope THEN [Binds(t, c) EXCEPT ![sym.name] = sym.span]
                       ELSE Binds(t, c)
<1> DEFINE n == Len(t.symbols) + 1
<1>1. /\ t.symbols \in Seq(Symbol) /\ Len(t.symbols) \in Nat /\ DOMAIN t.symbols = 1 .. Len(t.symbols)
  BY TableFacts
<1>2. /\ u.symbols[n] = sym /\ \A i \in DOMAIN t.symbols : u.symbols[i] = t.symbols[i]
  BY <1>1, Appended DEF Adds
<1>3. \A y \in Names : lookup_local(u, c, y) = IF c = sym.scope /\ y = sym.name THEN n
                                               ELSE lookup_local(t, c, y)
  BY DEF Adds
<1>4. \A y \in Names : lookup_local(t, c, y) = 0 \/ lookup_local(t, c, y) \in DOMAIN t.symbols
  BY DEF WellFormed
<1>5. n # 0 /\ sym.name \in Names
  BY <1>1 DEF Symbol
<1> HIDE DEF n
<1>6. ASSUME NEW y \in Names
      PROVE  Binds(u, c)[y] = IF c = sym.scope /\ y = sym.name THEN sym.span ELSE Binds(t, c)[y]
  <2>1. CASE c = sym.scope /\ y = sym.name
    BY <2>1, <1>2, <1>3, <1>5 DEF Binds
  <2>2. CASE ~ (c = sym.scope /\ y = sym.name)
    <3>1. lookup_local(u, c, y) = lookup_local(t, c, y)
      BY <2>2, <1>3
    <3> QED
      BY <2>2, <3>1, <1>2, <1>4 DEF Binds
  <2> QED
    BY <2>1, <2>2
<1>7. Binds(u, c) = [y \in Names |-> Binds(u, c)[y]] /\ Binds(t, c) = [y \in Names |-> Binds(t, c)[y]]
  BY DEF Binds
<1>8. CASE c = sym.scope
  <2>1. [Binds(t, c) EXCEPT ![sym.name] = sym.span]
          = [y \in Names |-> IF y = sym.name THEN sym.span ELSE Binds(t, c)[y]]
    BY <1>7
  <2>2. \A y \in Names : Binds(u, c)[y] = IF y = sym.name THEN sym.span ELSE Binds(t, c)[y]
    BY <1>6, <1>8
  <2>3. Binds(u, c) = [Binds(t, c) EXCEPT ![sym.name] = sym.span]
    BY <1>7, <2>1, <2>2
  <2> QED
    BY <1>8, <2>3
<1>9. CASE c # sym.scope
  BY <1>6, <1>7, <1>9
<1> QED
  BY <1>8, <1>9

LEMMA BindsPush ==
  ASSUME NEW t \in Table, NEW u, NEW parent, Pushes(t, u, parent)
  PROVE  /\ \A c \in DOMAIN t.scopes : Binds(u, c) = Binds(t, c)
         /\ Binds(u, Len(t.scopes) + 1) = Block0
<1>1. /\ \A y \in Names : lookup_local(u, Len(t.scopes) + 1, y) = 0
      /\ \A c \in DOMAIN t.scopes, y \in Names : lookup_local(u, c, y) = lookup_local(t, c, y)
      /\ u.symbols = t.symbols
  BY DEF Pushes
<1> QED
  BY <1>1 DEF Binds, Block0

\* A declaration in the last scope of a stack.
LEMMA EnvDeclare ==
  ASSUME NEW t \in Table, WellFormed(t), NEW u \in Table, WellFormed(u), NEW stack, Stacked(t, stack),
         NEW sym \in Symbol, Adds(t, u, sym), SameScopes(t, u),
         sym.scope = stack[Len(stack)]
  PROVE  Env(u, stack) = DeclaredIn(Env(t, stack), sym.name, sym.span)
<1> DEFINE n == Len(stack)
           e == Env(t, stack)
           v == [e[n] EXCEPT ![sym.name] = sym.span]
<1>1. /\ n \in Nat \ {0} /\ DOMAIN stack = 1 .. n /\ e \in Seq(Blocks) /\ Len(e) = n /\ e # <<>>
      /\ \A d \in 1 .. n : e[d] = Binds(t, stack[d])
  BY EnvFacts
<1>2. n \in 1 .. n /\ e[n] \in Blocks
  BY <1>1
<1>3. e[n][sym.name] = 0
  BY <1>1, <1>2 DEF Adds, Binds, Symbol
<1>4. v \in Blocks
  <2>1. sym.span \in Nat
    BY DEF Symbol
  <2> QED
    BY <1>2, <2>1 DEF Blocks
<1> HIDE DEF n, e, v
<1>5. Append(SubSeq(e, 1, Len(e) - 1), v) = [d \in 1 .. n |-> IF d = n THEN v ELSE e[d]]
  BY <1>1, <1>4, Replaced
<1>6. ASSUME NEW d \in 1 .. n PROVE Binds(u, stack[d]) = IF d = n THEN v ELSE e[d]
  <2>1. stack[d] \in DOMAIN t.scopes /\ stack[n] \in DOMAIN t.scopes
    BY <1>1, <1>2 DEF Stacked
  <2>2. Binds(u, stack[d]) = IF stack[d] = sym.scope
                               THEN [Binds(t, stack[d]) EXCEPT ![sym.name] = sym.span]
                               ELSE Binds(t, stack[d])
    BY <2>1, BindsAdd
  <2>3. CASE d = n
    BY <2>2, <2>3, <1>1, <1>2 DEF v, n
  <2>4. CASE d # n
    <3>1. stack[d] < stack[n]
      <4>1. d < n
        BY <2>4, <1>1
      <4> QED
        BY <4>1, <1>1, <1>2 DEF Stacked
    <3>2. stack[d] # stack[n]
      <4>1. stack[n] \in Nat
        BY <2>1, TableFacts
      <4> QED
        BY <3>1, <4>1
    <3>3. stack[d] # sym.scope
      BY <3>2 DEF n
    <3> QED
      BY <2>2, <2>4, <3>3, <1>1
  <2> QED
    BY <2>3, <2>4
<1>7. Env(u, stack) = [d \in 1 .. n |-> IF d = n THEN v ELSE e[d]]
  BY <1>6 DEF Env, n
<1> QED
  BY <1>1, <1>3, <1>5, <1>7 DEF DeclaredIn, v, e

\* What a name is in a block tells whether its scope has it.
LEMMA BindsFree ==
  ASSUME NEW t \in Table, WellFormed(t), NEW p \in Seq(Statement), LinkedIn(t, p),
         NEW s \in DOMAIN t.scopes, NEW x \in Names
  PROVE  /\ Binds(t, s)[x] = 0 <=> lookup_local(t, s, x) = 0
         /\ lookup_local(t, s, x) # 0 => Binds(t, s)[x] = t.symbols[lookup_local(t, s, x)].span
<1>1. lookup_local(t, s, x) # 0 => lookup_local(t, s, x) \in DOMAIN t.symbols
  BY DEF WellFormed
<1>2. \A i \in DOMAIN t.symbols : t.symbols[i].span # 0
  BY DEF LinkedIn, Links
<1> QED
  BY <1>1, <1>2 DEF Binds

\* A position with a scope that was left does not lead to the current one.
LEMMA LeftApart ==
  ASSUME IInv, NEW k \in DOMAIN scope_map \ Begun(open)
  PROVE  scope_map[k] \in DOMAIN table.scopes /\ scope_map[k] # current_scope
<1>1. PICK owner, place : Owner(owner) /\ Place(owner, place)
  BY DEF IInv, Owned
<1>2. scope_map[k] \in DOMAIN table.scopes /\ owner[scope_map[k]] = k
  BY <1>1 DEF Owner, Owns
<1>3. k \in DOMAIN prog /\ k # 0
  <2>1. k \in DOMAIN prog
    BY DEF IInv, TypeOK
  <2> QED
    BY <2>1, OpenFacts DEF IInv
<1>4. owner[current_scope] = 0 \/ owner[current_scope] \in Begun(open)
  <2> DEFINE n == Len(scope_stack)
  <2>1. n \in Nat \ {0} /\ DOMAIN scope_stack = 1 .. n /\ current_scope = scope_stack[n]
    BY CurrentScope DEF IInv, current_scope
  <2>2. CASE n = 1
    <3>1. scope_stack[1] = root_scope
      BY DEF IInv, Nested
    <3> QED
      BY <2>1, <2>2, <3>1, <1>1 DEF Owner, Owns
  <2>3. CASE n > 1
    <3>1. n \in 2 .. n /\ n \in 1 .. n /\ 1 \in 1 .. n
      BY <2>1, <2>3
    <3>2. owner[scope_stack[n]] = open[place[n]].at /\ place[n] \in 0 .. Len(open) /\ place[1] = 0
          /\ place[1] < place[n]
      <4> HIDE DEF n
      <4> QED
        BY <1>1, <2>1, <2>3, <3>1 DEF Place, Places, n
    <3>3. place[n] \in DOMAIN open
      BY <3>2, OpenFacts DEF IInv
    <3> QED
      BY <2>1, <3>2, <3>3 DEF Begun
  <2> QED
    BY <2>1, <2>2, <2>3
<1> QED
  BY <1>2, <1>3, <1>4

LEMMA StackedHere ==
  ASSUME IInv
  PROVE  /\ Stacked(table, scope_stack) /\ table \in Table /\ WellFormed(table)
         /\ current_scope = scope_stack[Len(scope_stack)] /\ current_scope \in DOMAIN table.scopes
         /\ Env(table, scope_stack)[Len(Env(table, scope_stack))] = Binds(table, current_scope)
<1>1. Stacked(table, scope_stack) /\ table \in Table /\ WellFormed(table)
  BY CurrentScope DEF IInv, Nested, TypeOK, Stacked
<1>2. current_scope = scope_stack[Len(scope_stack)] /\ current_scope \in DOMAIN table.scopes
  BY CurrentScope DEF current_scope, IInv
<1> HIDE DEF current_scope
<1>3. Len(scope_stack) \in 1 .. Len(scope_stack) /\ Len(Env(table, scope_stack)) = Len(scope_stack)
  BY <1>1, EnvFacts
<1> QED
  BY <1>1, <1>2, <1>3, EnvFacts

\* What a declaration does to the blocks, the ones left and the refused.
LEMMA DeclareBlocks ==
  ASSUME IInv, NEW x \in Names, NEW kind \in SymbolKind, NEW ty \in Ty,
         NEW errs \in SUBSET TypeErrors, Push(x, errs),
         NEW u, u = Defined(x, kind, ty)
  PROVE  /\ u \in Table /\ WellFormed(u) /\ Stacked(u, scope_stack)
         /\ current_scope \in DOMAIN u.scopes
         /\ Env(u, scope_stack) = DeclaredIn(Env(table, scope_stack), x, Here)
         /\ LeftAt(u, scope_map, open) = LeftAt(table, scope_map, open)
         /\ Pairs(errors') = RefusedIn(Env(table, scope_stack), Pairs(errors), x, Here)
<1> DEFINE e == Env(table, scope_stack)
           sym == Made(current_scope, x, kind, ty, Here)
           last == Binds(table, current_scope)
<1>1. /\ Stacked(table, scope_stack) /\ table \in Table /\ WellFormed(table)
      /\ current_scope = scope_stack[Len(scope_stack)] /\ current_scope \in DOMAIN table.scopes
      /\ e[Len(e)] = last
  BY StackedHere
<1>2. Here \in Nat /\ prog \in Seq(Statement) /\ LinkedIn(table, prog)
  BY OpenFacts DEF IInv, Linked
<1>3. /\ u \in Table /\ WellFormed(u) /\ SameScopes(table, u)
      /\ Taken(x) => u = table
      /\ ~ Taken(x) => Adds(table, u, sym)
  BY <1>1, <1>2, DefineTable DEF Defined, Taken
<1>4. /\ last[x] = 0 <=> ~ Taken(x)
      /\ Taken(x) => last[x] = table.symbols[lookup_local(table, current_scope, x)].span
  BY <1>1, <1>2, BindsFree DEF Taken
<1>5. Stacked(u, scope_stack) /\ current_scope \in DOMAIN u.scopes
  BY <1>1, <1>3 DEF Stacked, SameScopes
<1>6. sym \in Symbol /\ sym.scope = current_scope /\ sym.name = x /\ sym.span = Here
  <2>1. current_scope \in Nat
    BY CurrentScope DEF IInv
  <2> QED
    BY <1>2, <2>1 DEF Made, Symbol
<1> HIDE DEF e, last, sym, current_scope
<1>7. Env(u, scope_stack) = DeclaredIn(e, x, Here)
  <2>1. CASE Taken(x)
    BY <2>1, <1>1, <1>3, <1>4 DEF DeclaredIn, e
  <2>2. CASE ~ Taken(x)
    <3>1. Env(u, scope_stack) = DeclaredIn(e, sym.name, sym.span)
      BY <2>2, <1>1, <1>3, <1>6, EnvDeclare DEF e
    <3> QED
      BY <3>1, <1>6
  <2> QED
    BY <2>1, <2>2
<1>8. LeftAt(u, scope_map, open) = LeftAt(table, scope_map, open)
  <2>1. ASSUME NEW k \in DOMAIN scope_map \ Begun(open)
        PROVE  Binds(u, scope_map[k]) = Binds(table, scope_map[k])
    <3>1. scope_map[k] \in DOMAIN table.scopes /\ scope_map[k] # current_scope
      BY LeftApart
    <3> QED
      BY <3>1, <1>1, <1>3, <1>6, BindsAdd
  <2> QED
    BY <2>1 DEF LeftAt
<1>9. Pairs(errors') = RefusedIn(e, Pairs(errors), x, Here)
  <2>1. CASE ~ Taken(x)
    <3>1. Refused(errors') = Refused(errors)
      BY <2>1, PushTypes
    <3> QED
      BY <3>1, <2>1, <1>1, <1>4 DEF RefusedIn, Pairs
  <2>2. CASE Taken(x)
    <3> DEFINE dup == [error |-> "DuplicateDefinition", name |-> x, second |-> Here,
                       first |-> table.symbols[lookup_local(table, current_scope, x)].span]
    <3>1. Refused(errors') = Refused(errors) \union {dup}
      BY <2>2, PushTypes
    <3>2. dup.first = last[x] /\ dup.second = Here
      BY <2>2, <1>4
    <3> HIDE DEF dup
    <3>3. Pairs(errors') = Pairs(errors) \union {[first |-> last[x], second |-> Here]}
      BY <3>1, <3>2 DEF Pairs
    <3> QED
      BY <3>3, <2>2, <1>1, <1>4 DEF RefusedIn
  <2> QED
    BY <2>1, <2>2
<1> QED
  BY <1>3, <1>5, <1>7, <1>8, <1>9 DEF e

-----------------------------------------------------------------------------
(* Each action as one of lexical scoping. *)

Blk == Env(table, scope_stack)
Lft == LeftAt(table, scope_map, open)
Ref == Pairs(errors)

ScopesSame == Blk' = Blk /\ Lft' = Lft /\ Ref' = Ref
ScopesDeclare(x, k) ==
  Blk' = DeclaredIn(Blk, x, k) /\ Lft' = Lft /\ Ref' = RefusedIn(Blk, Ref, x, k)
ScopesOpen(x, k) ==
  Blk' = Append(DeclaredIn(Blk, x, k), Block0) /\ Lft' = Lft /\ Ref' = RefusedIn(Blk, Ref, x, k)
ScopesLoop(x, k) ==
  Blk' = Append(Blk, [Block0 EXCEPT ![x] = k]) /\ Lft' = Lft /\ Ref' = Ref
ScopesClose(k) ==
  /\ Len(Blk) > 1 /\ Blk' = SubSeq(Blk, 1, Len(Blk) - 1)
  /\ Lft' = Lft \union (IF k = 0 THEN {} ELSE {[at |-> k, names |-> Blk[Len(Blk)]]})
  /\ Ref' = Ref

ScopesNext ==
  \/ ScopesSame
  \/ \E x \in Names, k \in 1 .. MaxSize : ScopesDeclare(x, k) \/ ScopesOpen(x, k) \/ ScopesLoop(x, k)
  \/ \E k \in {0} \union 1 .. MaxSize : ScopesClose(k)

LEMMA BegunAppend ==
  ASSUME NEW S, NEW opn \in Seq(S), NEW con \in S
  PROVE  Begun(Append(opn, con)) = Begun(opn) \union {con.at}
<1>1. /\ DOMAIN opn = 1 .. Len(opn) /\ Len(opn) \in Nat /\ DOMAIN Append(opn, con) = 1 .. Len(opn) + 1
      /\ \A i \in DOMAIN opn : Append(opn, con)[i] = opn[i]
      /\ Append(opn, con)[Len(opn) + 1] = con
  BY Appended
<1>2. \A i : i \in 1 .. Len(opn) + 1 <=> i \in 1 .. Len(opn) \/ i = Len(opn) + 1
  BY <1>1
<1> QED
  BY <1>1, <1>2 DEF Begun

\* The map may gain the position h, that it did not have.
Maps(map, map2, h) ==
  /\ h \notin DOMAIN map
  /\ \/ map2 = map
     \/ \E s : map2 = [k \in DOMAIN map \union {h} |-> IF k = h THEN s ELSE map[k]]

\* The blocks that were left are the same in both tables.
SameLeft(t, u, map, constructs) ==
  \A k \in DOMAIN map \ Begun(constructs) : Binds(u, map[k]) = Binds(t, map[k])

LEMMA LeftEnter ==
  ASSUME NEW t, NEW u, NEW map, NEW map2, NEW opn, NEW opn2, NEW h,
         Maps(map, map2, h), SameLeft(t, u, map, opn), Begun(opn2) = Begun(opn) \union {h}
  PROVE  LeftAt(u, map2, opn2) = LeftAt(t, map, opn)
<1>1. DOMAIN map2 \ Begun(opn2) = DOMAIN map \ Begun(opn)
  BY DEF Maps
<1>2. \A k \in DOMAIN map \ Begun(opn) : map2[k] = map[k]
  BY DEF Maps
<1> QED
  BY <1>1, <1>2 DEF LeftAt, SameLeft

LEMMA HereIsNew ==
  ASSUME IInv
  PROVE  Here \notin DOMAIN scope_map
<1>1. DOMAIN scope_map \subseteq 1 .. Len(prog) /\ Len(prog) \in Nat /\ Here = Len(prog) + 1
  BY OpenFacts DEF IInv, TypeOK
<1> QED
  BY <1>1

LEMMA DeclareScopes ==
  ASSUME IInv, NEW what, NEW x \in Names, NEW kind \in SymbolKind, NEW ty \in Ty,
         NEW errs \in SUBSET TypeErrors, NEW value, NEW form, Here \in 1 .. MaxSize,
         DeclareStep(what, x, kind, ty, errs, value, form)
  PROVE  ScopesNext
<1>1. /\ table' = Defined(x, kind, ty) /\ Push(x, errs)
      /\ scope_stack' = scope_stack /\ scope_map' = scope_map /\ open' = open
  BY DEF DeclareStep
<1>2. ScopesDeclare(x, Here)
  BY <1>1, DeclareBlocks DEF ScopesDeclare, Blk, Lft, Ref
<1> QED
  BY <1>2 DEF ScopesNext

LEMMA QuietScopes ==
  ASSUME IInv, table' = table, scope_stack' = scope_stack, scope_map' = scope_map, errors' = errors,
         NEW con \in Construct, con.at = Here,
         open' = open \/ open' = Append(open, con)
  PROVE  ScopesNext
<1>1. Blk' = Blk /\ Ref' = Ref
  BY DEF Blk, Ref
<1>2. Lft' = Lft
  <2>1. CASE open' = open
    BY <2>1 DEF Lft
  <2>2. CASE open' = Append(open, con)
    <3>1. open \in Seq(Construct)
      BY OpenFacts DEF IInv, Construct
    <3>2. Begun(open') = Begun(open) \union {Here}
      BY <2>2, <3>1, BegunAppend
    <3>3. Maps(scope_map, scope_map', Here) /\ SameLeft(table, table', scope_map, open)
      BY HereIsNew DEF Maps, SameLeft
    <3>4. LeftAt(table', scope_map', open') = LeftAt(table, scope_map, open)
      BY <3>2, <3>3, LeftEnter
    <3> QED
      BY <3>4 DEF Lft
  <2> QED
    BY <2>1, <2>2
<1> QED
  BY <1>1, <1>2 DEF ScopesNext, ScopesSame

LEMMA EnterItemScopes ==
  ASSUME IInv, NEW what \in {"module", "extern", "fn"}, NEW x \in Names, EnterItem(what, x)
  PROVE  ScopesNext
<1> DEFINE kind == IF what = "fn" THEN "Fn" ELSE "Module"
           scope == IF what = "fn" THEN "Function" ELSE "Module"
           ty == NoType("Void")
           u == Defined(x, kind, ty)
           con == [kind |-> what, at |-> Here]
           c == Len(u.scopes) + 1
<1>1. Here \in 1 .. MaxSize
  BY MeetFacts DEF EnterItem
<1>2. kind \in SymbolKind /\ scope \in ScopeKind /\ ty \in Ty
  BY TyFacts DEF SymbolKind, ScopeKind
<1>3. /\ table' = push_scope(u, current_scope, scope) /\ Push(x, {})
      /\ scope_stack' = Append(scope_stack, c) /\ open' = Append(open, con)
      /\ \/ scope_map' = scope_map
         \/ scope_map' = [k \in DOMAIN scope_map \union {Here} |->
                            IF k = Here THEN Len(table.scopes) + 1 ELSE scope_map[k]]
  BY DEF EnterItem, Enter, MapName
<1>4. con \in Construct /\ con.at = Here
  BY OpenFacts DEF Construct, IInv, Scoping
<1> HIDE DEF kind, scope, ty, con
<1>5. /\ u \in Table /\ WellFormed(u) /\ Stacked(u, scope_stack)
      /\ current_scope \in DOMAIN u.scopes
      /\ Env(u, scope_stack) = DeclaredIn(Blk, x, Here)
      /\ LeftAt(u, scope_map, open) = Lft
      /\ Ref' = RefusedIn(Blk, Ref, x, Here)
  BY <1>2, <1>3, DeclareBlocks DEF Blk, Lft, Ref
<1>6. DOMAIN u.scopes = DOMAIN table.scopes
  <2>1. /\ table \in Table /\ WellFormed(table) /\ current_scope \in DOMAIN table.scopes /\ Here \in Nat
    BY StackedHere, OpenFacts DEF IInv
  <2>2. SameScopes(table, u)
    BY <1>2, <2>1, DefineTable DEF Defined
  <2> QED
    BY <2>2 DEF SameScopes
<1> HIDE DEF u
<1>7. current_scope \in 0 .. Len(u.scopes) /\ Len(u.scopes) \in Nat /\ DOMAIN u.scopes = 1 .. Len(u.scopes)
  BY <1>5, TableFacts
<1>8. table' \in Table /\ WellFormed(table') /\ Pushes(u, table', current_scope)
  BY <1>2, <1>3, <1>5, <1>7, PushTable
<1>9. /\ \A s \in DOMAIN u.scopes : Binds(table', s) = Binds(u, s)
      /\ Binds(table', c) = Block0
  BY <1>5, <1>8, BindsPush
<1>10. DOMAIN table'.scopes = 1 .. c /\ c \in DOMAIN table'.scopes
       /\ DOMAIN u.scopes \subseteq DOMAIN table'.scopes
  BY <1>7, <1>8 DEF Pushes
<1> HIDE DEF c
<1>11. Stacked(table', scope_stack)
  BY <1>5, <1>10 DEF Stacked
<1>12. Blk' = Append(DeclaredIn(Blk, x, Here), Block0)
  <2>1. Env(table', scope_stack) = Env(u, scope_stack)
    <3>1. \A d \in 1 .. Len(scope_stack) : scope_stack[d] \in DOMAIN u.scopes
      BY <1>5, EnvFacts DEF Stacked
    <3> QED
      BY <3>1, <1>9, EnvSame
  <2>2. Env(table', Append(scope_stack, c)) = Append(Env(table', scope_stack), Binds(table', c))
    BY <1>8, <1>10, <1>11, EnvAppend
  <2>3. Blk' = Env(table', scope_stack')
    BY DEF Blk
  <2> QED
    BY <2>1, <2>2, <2>3, <1>3, <1>5, <1>9
<1>13. Lft' = Lft
  <2>1. open \in Seq(Construct)
    BY OpenFacts DEF IInv, Construct
  <2>2. Begun(open') = Begun(open) \union {Here}
    BY <1>3, <1>4, <2>1, BegunAppend
  <2>3. SameLeft(u, table', scope_map, open)
    BY <1>6, <1>9, LeftApart DEF SameLeft
  <2>4. Maps(scope_map, scope_map', Here)
    BY <1>3, HereIsNew DEF Maps
  <2>5. LeftAt(table', scope_map', open') = LeftAt(u, scope_map, open)
    BY <2>2, <2>3, <2>4, LeftEnter
  <2> QED
    BY <1>5, <2>5 DEF Lft
<1>14. ScopesOpen(x, Here)
  BY <1>5, <1>12, <1>13 DEF ScopesOpen
<1> QED
  BY <1>1, <1>14 DEF ScopesNext

LEMMA EnterForScopes ==
  ASSUME IInv, NEW x \in Names, EnterFor(x)
  PROVE  ScopesNext
<1> DEFINE child == push_scope(table, current_scope, "Block")
           id == Len(table.scopes) + 1
           ty == NoType("MetaUInt")
           sym == Made(id, x, "LoopVar", ty, Here)
           con == [kind |-> "for", at |-> Here]
<1>1. Here \in 1 .. MaxSize /\ Here \in Nat
  BY MeetFacts, OpenFacts DEF EnterFor, IInv
<1>2. /\ current_scope \in 0 .. Len(table.scopes) /\ Len(table.scopes) \in Nat
      /\ DOMAIN table.scopes = 1 .. Len(table.scopes) /\ table \in Table /\ WellFormed(table)
      /\ Stacked(table, scope_stack)
  <2>1. /\ table \in Table /\ WellFormed(table) /\ Stacked(table, scope_stack)
    BY StackedHere
  <2>2. current_scope \in 1 .. Len(table.scopes)
    BY CurrentScope DEF IInv
  <2>3. Len(table.scopes) \in Nat /\ DOMAIN table.scopes = 1 .. Len(table.scopes)
    BY <2>1, TableFacts
  <2> QED
    BY <2>1, <2>2, <2>3
<1>3. child \in Table /\ WellFormed(child) /\ Pushes(table, child, current_scope)
  BY <1>2, PushTable DEF ScopeKind
<1>4. /\ DOMAIN child.scopes = 1 .. id /\ Len(child.scopes) = id /\ id \in DOMAIN child.scopes
      /\ lookup_local(child, id, x) = 0
      /\ \A s \in DOMAIN table.scopes : s \in DOMAIN child.scopes /\ s # id
  BY <1>2, <1>3 DEF Pushes
<1>5. /\ table' = define(child, id, x, "LoopVar", ty, Here)
      /\ scope_stack' = Append(scope_stack, id) /\ open' = Append(open, con)
      /\ scope_map' = scope_map /\ errors' = errors
  BY <1>4 DEF EnterFor
<1>6. con \in Construct /\ con.at = Here
  BY <1>1 DEF Construct, Scoping
<1>7. ty \in Ty
  BY TyFacts
<1> HIDE DEF child, ty, con
<1>8. /\ table' \in Table /\ WellFormed(table') /\ SameScopes(child, table') /\ Adds(child, table', sym)
  BY <1>1, <1>3, <1>4, <1>5, <1>7, DefineTable DEF SymbolKind
<1>9. sym \in Symbol /\ sym.scope = id /\ sym.name = x /\ sym.span = Here
  BY <1>1, <1>2, <1>7 DEF Symbol, Made, SymbolKind
<1> HIDE DEF sym
<1>10. /\ \A s \in DOMAIN table.scopes : Binds(child, s) = Binds(table, s)
       /\ Binds(child, id) = Block0
  BY <1>2, <1>3, BindsPush
<1>11. /\ \A s \in DOMAIN table.scopes : Binds(table', s) = Binds(table, s)
       /\ Binds(table', id) = [Block0 EXCEPT ![x] = Here]
  <2>1. \A s \in DOMAIN child.scopes : Binds(table', s) = IF s = id THEN [Binds(child, s) EXCEPT ![x] = Here]
                                                          ELSE Binds(child, s)
    BY <1>3, <1>8, <1>9, BindsAdd
  <2> HIDE DEF id
  <2> QED
    BY <2>1, <1>4, <1>10
<1>12. DOMAIN table'.scopes = DOMAIN child.scopes
  BY <1>8 DEF SameScopes
<1> HIDE DEF id
<1>13. Blk' = Append(Blk, [Block0 EXCEPT ![x] = Here])
  <2>1. Stacked(table', scope_stack)
    BY <1>2, <1>4, <1>12 DEF Stacked
  <2>2. Env(table', scope_stack) = Blk
    <3>1. \A d \in 1 .. Len(scope_stack) : scope_stack[d] \in DOMAIN table.scopes
      BY <1>2, EnvFacts DEF Stacked
    <3> QED
      BY <3>1, <1>11, EnvSame DEF Blk
  <2>3. Env(table', Append(scope_stack, id)) = Append(Env(table', scope_stack), Binds(table', id))
    BY <2>1, <1>4, <1>8, <1>12, EnvAppend
  <2>4. Blk' = Env(table', scope_stack')
    BY DEF Blk
  <2> QED
    BY <2>2, <2>3, <2>4, <1>5, <1>11
<1>14. Lft' = Lft
  <2>1. open \in Seq(Construct)
    BY OpenFacts DEF IInv, Construct
  <2>2. Begun(open') = Begun(open) \union {Here}
    BY <1>5, <1>6, <2>1, BegunAppend
  <2>3. SameLeft(table, table', scope_map, open)
    BY <1>11, LeftApart DEF SameLeft
  <2>4. Maps(scope_map, scope_map', Here)
    BY <1>5, HereIsNew DEF Maps
  <2>5. LeftAt(table', scope_map', open') = LeftAt(table, scope_map, open)
    BY <2>2, <2>3, <2>4, LeftEnter
  <2> QED
    BY <2>5 DEF Lft
<1>15. ScopesLoop(x, Here)
  BY <1>5, <1>13, <1>14 DEF ScopesLoop, Ref
<1> QED
  BY <1>1, <1>15 DEF ScopesNext

\* The walk never has more than the largest profile allows.
Sized == DOMAIN prog \subseteq 1 .. MaxSize

LEMMA LeaveScopes ==
  ASSUME IInv, Sized, Leave
  PROVE  ScopesNext
<1> DEFINE m == Len(open)
           k == Innermost.at
<1>1. table' = table /\ scope_map' = scope_map /\ errors' = errors
  BY DEF Leave
<1>2. PICK owner, place : Owner(owner) /\ Place(owner, place)
  BY DEF IInv, Owned
<1>3. /\ open # <<>> /\ Innermost = open[m] /\ k \in DOMAIN prog
      /\ prog[k].what = Innermost.kind
      /\ open' = SubSeq(open, 1, m - 1)
      /\ Innermost.kind \in Scoping =>
           /\ Len(scope_stack) > 1
           /\ scope_stack' = SubSeq(scope_stack, 1, Len(scope_stack) - 1)
           /\ owner[current_scope] = k
      /\ Innermost.kind \notin Scoping => scope_stack' = scope_stack
  BY <1>2, LeaveFacts
<1>4. open \in Seq(Construct)
  BY OpenFacts DEF IInv, Construct
<1>5. Begun(open) = Begun(open') \union {k} /\ k \notin Begun(open')
  <2>1. /\ m \in Nat \ {0} /\ DOMAIN open = 1 .. m /\ DOMAIN open' = 1 .. m - 1
        /\ \A i \in 1 .. m - 1 : open'[i] = open[i]
    BY <1>3, <1>4, Shortened
  <2>2. \A i \in 1 .. m : open[i].at \in Nat
    <3>1. \A i \in DOMAIN open : open[i] \in Construct
      BY <1>4
    <3> QED
      BY <2>1, <3>1 DEF Construct
  <2>3. \A i \in 1 .. m - 1 : open[i].at < open[m].at
    BY <2>1 DEF IInv, Nested
  <2>4. \A i : i \in 1 .. m <=> i \in 1 .. m - 1 \/ i = m
    BY <2>1
  <2>5. m \in 1 .. m /\ k = open[m].at
    BY <2>1, <1>3
  <2> HIDE DEF m, k
  <2>6. \A i \in 1 .. m - 1 : open[i].at # k
    BY <2>2, <2>3, <2>4, <2>5
  <2> QED
    BY <2>1, <2>4, <2>5, <2>6 DEF Begun
<1>6. k \in 1 .. MaxSize /\ k # 0
  BY <1>3 DEF Sized
<1>7. k \in DOMAIN scope_map <=> Innermost.kind \in {"module", "fn"}
  BY <1>3 DEF IInv, Nested
<1>8. Ref' = Ref
  BY <1>1 DEF Ref
<1>9. /\ Stacked(table, scope_stack) /\ table \in Table /\ WellFormed(table)
      /\ Blk[Len(Blk)] = Binds(table, current_scope) /\ current_scope \in DOMAIN table.scopes
  BY StackedHere DEF Blk
<1>10. CASE k \notin DOMAIN scope_map
  <2>1. Lft' = Lft
    <3>1. DOMAIN scope_map \ Begun(open') = DOMAIN scope_map \ Begun(open)
      BY <1>5, <1>10
    <3> QED
      BY <3>1, <1>1 DEF Lft, LeftAt
  <2>2. CASE Innermost.kind \notin Scoping
    BY <2>1, <2>2, <1>1, <1>3, <1>8 DEF ScopesNext, ScopesSame, Blk
  <2>3. CASE Innermost.kind \in Scoping
    <3>1. Len(Blk) > 1 /\ Blk' = SubSeq(Blk, 1, Len(Blk) - 1)
      BY <2>3, <1>1, <1>3, <1>9, EnvFacts, EnvShorter DEF Blk
    <3>2. ScopesClose(0)
      BY <2>1, <3>1, <1>8 DEF ScopesClose
    <3> QED
      BY <3>2 DEF ScopesNext
  <2> QED
    BY <2>2, <2>3
<1>11. CASE k \in DOMAIN scope_map
  <2>1. Innermost.kind \in Scoping
    BY <1>7, <1>11 DEF Scoping
  <2>2. Len(Blk) > 1 /\ Blk' = SubSeq(Blk, 1, Len(Blk) - 1)
    BY <2>1, <1>1, <1>3, <1>9, EnvFacts, EnvShorter DEF Blk
  <2>3. scope_map[k] = current_scope
    <3>1. scope_map[k] \in DOMAIN table.scopes /\ owner[scope_map[k]] = k
      BY <1>2, <1>11 DEF Owner, Owns
    <3>2. \A s, r \in DOMAIN table.scopes : s < r => owner[s] < owner[r]
      BY <1>2 DEF Owner, Owns
    <3>3. \A s \in DOMAIN table.scopes : s \in Nat
      BY <1>9, TableFacts
    <3>4. owner[current_scope] = k
      BY <2>1, <1>3
    <3>5. k \in Nat
      BY <1>6
    <3> HIDE DEF k, current_scope
    <3> QED
      BY <3>1, <3>2, <3>3, <3>4, <3>5, <1>9
  <2>4. DOMAIN scope_map \ Begun(open') = (DOMAIN scope_map \ Begun(open)) \union {k}
    BY <1>5, <1>11
  <2> HIDE DEF k
  <2>5. Lft' = Lft \union {[at |-> k, names |-> Blk[Len(Blk)]]}
    BY <2>3, <2>4, <1>1, <1>9 DEF Lft, LeftAt
  <2>6. ScopesClose(k)
    BY <2>2, <2>5, <1>6, <1>8 DEF ScopesClose
  <2> QED
    BY <2>6, <1>6 DEF ScopesNext
<1> QED
  BY <1>10, <1>11

LEMMA NextMeets == IInv /\ Sized /\ [Next]_vars => Sized'
<1> SUFFICES ASSUME IInv, Sized, [Next]_vars PROVE Sized'
  OBVIOUS
<1>1. ASSUME NEW what, NEW x \in Names \union {NoName}, NEW form, Meet(what, x, form)
      PROVE  Sized'
  <2>1. Here \in 1 .. MaxSize /\ prog' = Append(prog, Met(what, x, form)) /\ Met(what, x, form) \in Statement
    BY <1>1, MeetFacts
  <2>2. DOMAIN prog' = 1 .. Here /\ Here = Len(prog) + 1
    BY <2>1, ProgGrows
  <2>3. MaxSize \in Nat
    <3>1. PICK p \in Profiles : TRUE
      BY <1>1 DEF Meet, Fits, Live
    <3> QED
      BY <3>1, MaxSizeBounds
  <2> QED
    BY <2>1, <2>2, <2>3 DEF Sized
<1>2. CASE prog' = prog
  BY <1>2 DEF Sized
<1> QED
  BY <1>1, <1>2
     DEF Next, vars, EnterItem, Generic, Variant, EnterFor, Parameter, Signal, TypeAlias, Let,
         DeclareTyped, DeclareNominal, DeclareOpaque, DeclareAs, Const, EnterBody, Mention, Leave

LEMMA TypedScopes ==
  ASSUME IInv, NEW what \in Declaring, NEW x \in Names, NEW kind \in SymbolKind,
         NEW te \in OptType, NEW head,
         DeclareTyped(what, x, kind, te, "Void", head)
  PROVE  ScopesNext
<1> DEFINE r == resolve_opt(te, "Void")
<1>1. r.ty \in Ty /\ r.errs \in SUBSET TypeErrors
  BY ResolveType DEF IInv
<1>2. Here \in 1 .. MaxSize /\ prog' = Append(prog, Met(what, x, te.form))
  BY MeetFacts DEF DeclareTyped
<1>3. DeclareStep(what, x, kind, r.ty, r.errs, NoValue, te.form)
  BY <1>2 DEF DeclareTyped, DeclareStep
<1> QED
  BY <1>1, <1>2, <1>3, DeclareScopes

LEMMA GivenScopes ==
  ASSUME IInv, NEW what \in Declaring, NEW x \in Names, NEW kind \in SymbolKind,
         NEW ty \in Ty, NEW head, DeclareAs(what, x, kind, ty, head)
  PROVE  ScopesNext
<1>1. Here \in 1 .. MaxSize /\ prog' = Append(prog, Met(what, x, "None"))
  BY MeetFacts DEF DeclareAs
<1>2. DeclareStep(what, x, kind, ty, {}, NoValue, "None")
  BY <1>1 DEF DeclareAs, DeclareStep
<1> QED
  BY <1>1, <1>2, DeclareScopes

LEMMA ConstScopes ==
  ASSUME IInv, NEW x \in Names, NEW te \in OptType, NEW init \in Initialiser, Const(x, te, init)
  PROVE  ScopesNext
<1> DEFINE r == resolve_opt(te, "MetaUInt")
           value == IF init.init = "name" THEN Meaning(init.name) ELSE Eval(init)
<1>1. r.ty \in Ty /\ r.errs \in SUBSET TypeErrors
  BY ResolveType DEF IInv
<1>2. Here \in 1 .. MaxSize /\ prog' = Append(prog, Met("const", x, te.form))
  BY MeetFacts DEF Const
<1>3. DeclareStep("const", x, "Const", r.ty, r.errs, value, te.form)
  BY <1>2 DEF Const, DeclareStep
<1> HIDE DEF r, value
<1> QED
  BY <1>1, <1>2, <1>3, DeclareScopes DEF SymbolKind

LEMMA NextScopes == IInv /\ Sized /\ [Next]_vars => ScopesNext
<1> SUFFICES ASSUME IInv, Sized, [Next]_vars PROVE ScopesNext
  OBVIOUS
<1> DEFINE con(kind) == [kind |-> kind, at |-> Here]
<1>1. \A kind \in {"body", "gen"} : con(kind) \in Construct /\ con(kind).at = Here
  BY OpenFacts DEF IInv, Construct
<1>2. CASE UNCHANGED vars
  BY <1>2 DEF vars, ScopesNext, ScopesSame, Blk, Lft, Ref
<1>3. ASSUME NEW x \in Names, Generic(x) PROVE ScopesNext
  BY <1>1, <1>3, QuietScopes DEF Generic
<1>4. ASSUME NEW x \in Names, Variant(x) PROVE ScopesNext
  <2>1. next_id["Enum"] - 1 \in Nat
    BY <1>4 DEF Variant, VariantsCounted, Nominal, IInv, TypeOK
  <2>2. [ty |-> "Enum", n |-> next_id["Enum"] - 1] \in Ty
    BY <2>1, TyFacts
  <2> QED
    BY <1>4, <2>2, GivenScopes DEF Variant, Declaring, SymbolKind
<1>5. ASSUME NEW x \in Names, NEW te \in OptType,
             Parameter(x, te) \/ Signal(x, te) \/ TypeAlias(x, te) \/ Let(x, te)
      PROVE  ScopesNext
  <2>1. PICK what \in Declaring, kind \in SymbolKind, head \in {"parameters", "none"} :
          DeclareTyped(what, x, kind, te, "Void", head)
    BY <1>5 DEF Parameter, Signal, TypeAlias, Let, Declaring, SymbolKind
  <2> QED
    BY <2>1, TypedScopes
<1>6. ASSUME NEW x \in Names, NEW kind \in Nominal, DeclareNominal(x, kind) PROVE ScopesNext
  <2>1. [ty |-> kind, n |-> next_id[kind]] \in Ty
    BY TyFacts DEF Nominal, IInv, TypeOK
  <2> QED
    BY <1>6, <2>1, GivenScopes DEF DeclareNominal, Declaring, SymbolKind, Nominal
<1>7. ASSUME NEW x \in Names, NEW kind \in Opaque, DeclareOpaque(x, kind) PROVE ScopesNext
  BY <1>7, TyFacts, GivenScopes DEF DeclareOpaque, Declaring, SymbolKind, Opaque
<1>8. ASSUME NEW kind \in {"body", "gen"}, EnterBody(kind) PROVE ScopesNext
  <2>1. /\ table' = table /\ scope_stack' = scope_stack /\ scope_map' = scope_map
        /\ errors' = errors /\ open' = Append(open, con(kind))
    BY <1>8 DEF EnterBody
  <2> HIDE DEF con
  <2> QED
    BY <1>1, <2>1, QuietScopes
<1>9. ASSUME NEW what \in Mentions, NEW x \in Names, Mention(what, x) PROVE ScopesNext
  BY <1>1, <1>9, QuietScopes DEF Mention
<1>10. TypeExpr \subseteq OptType
  BY DEF OptType
<1> QED
  BY <1>2, <1>3, <1>4, <1>5, <1>6, <1>7, <1>8, <1>9, <1>10,
     EnterItemScopes, EnterForScopes, ConstScopes, LeaveScopes DEF Next

\* What the substitution of Lexical stands for.
LexicalMeans ==
  /\ [i \in 1 .. Len(scope_stack) |-> Bindings(scope_stack[i])] = Blk
  /\ {[at |-> k, names |-> Bindings(scope_map[k])] :
        k \in DOMAIN scope_map \ {open[i].at : i \in DOMAIN open}} = Lft
  /\ {[first |-> e.first, second |-> e.second] : e \in Duplicates} = Ref

LEMMA LexicalState == LexicalMeans
<1>1. \A s : Bindings(s) = Binds(table, s)
  BY DEF Bindings, Binds, lookup_local
<1> HIDE DEF Bindings, Binds
<1>2. [i \in 1 .. Len(scope_stack) |-> Bindings(scope_stack[i])] = Blk
  BY <1>1 DEF Blk, Env
<1>3. {[at |-> k, names |-> Bindings(scope_map[k])] :
         k \in DOMAIN scope_map \ {open[i].at : i \in DOMAIN open}} = Lft
  BY <1>1 DEF Lft, LeftAt, Begun
<1>4. {[first |-> e.first, second |-> e.second] : e \in Duplicates} = Ref
  BY DEF Ref, Pairs, Duplicates, Refused
<1> QED
  BY <1>2, <1>3, <1>4 DEF LexicalMeans

LEMMA LexicalStateNext == LexicalMeans'
BY LexicalState, PTL

LEMMA InitLexical == Init => Lexical!Init
<1> SUFFICES ASSUME Init PROVE Lexical!Init
  OBVIOUS
<1>1. /\ table = EmptyTable /\ scope_stack = <<root_scope>> /\ scope_map = [k \in {} |-> 0]
      /\ errors = {} /\ open = <<>>
  BY DEF Init
<1>2. table.scopes = << NewScope(0, "File") >>
  BY <1>1 DEF EmptyTable
<1>3. Binds(table, 1) = Block0
  BY <1>2 DEF Binds, Block0, lookup_local, NewScope
<1>4. Blk = << Block0 >>
  BY <1>1, <1>3 DEF Blk, Env, root_scope
<1>5. Lft = {}
  BY <1>1 DEF Lft, LeftAt
<1>6. Ref = {}
  BY <1>1 DEF Ref, Pairs, Refused
<1> QED
  BY <1>4, <1>5, <1>6, LexicalState DEF LexicalMeans, Lexical!Init, Lexical!Empty, Block0

LEMMA ScopesLexical == ScopesNext => [Lexical!Next]_(Lexical!vars)
<1> SUFFICES ASSUME ScopesNext PROVE [Lexical!Next]_(Lexical!vars)
  OBVIOUS
<1>1. CASE ScopesSame
  BY <1>1, LexicalState, LexicalStateNext DEF LexicalMeans, ScopesSame, Lexical!vars
<1>2. ASSUME NEW x \in Names, NEW k \in 1 .. MaxSize, ScopesDeclare(x, k)
      PROVE  Lexical!Declare(x, k)
  BY <1>2, LexicalState, LexicalStateNext
     DEF LexicalMeans, ScopesDeclare, DeclaredIn, RefusedIn, Lexical!Declare, Lexical!Declared, Lexical!Refuse,
         Lexical!Innermost, Lexical!Enclosing
<1>3. ASSUME NEW x \in Names, NEW k \in 1 .. MaxSize, ScopesOpen(x, k)
      PROVE  Lexical!OpenNamed(x, k)
  BY <1>3, LexicalState, LexicalStateNext
     DEF LexicalMeans, ScopesOpen, DeclaredIn, RefusedIn, Lexical!OpenNamed, Lexical!Declared, Lexical!Refuse,
         Lexical!Innermost, Lexical!Enclosing, Lexical!Empty, Block0
<1>4. ASSUME NEW x \in Names, NEW k \in 1 .. MaxSize, ScopesLoop(x, k)
      PROVE  Lexical!OpenLoop(x, k)
  BY <1>4, LexicalState, LexicalStateNext
     DEF LexicalMeans, ScopesLoop, Lexical!OpenLoop, Lexical!Empty, Block0
<1>5. ASSUME NEW k \in {0} \union 1 .. MaxSize, ScopesClose(k)
      PROVE  Lexical!Close(k)
  BY <1>5, LexicalState, LexicalStateNext
     DEF LexicalMeans, ScopesClose, Lexical!Close, Lexical!Innermost, Lexical!Enclosing
<1> QED
  BY <1>1, <1>2, <1>3, <1>4, <1>5 DEF ScopesNext, Lexical!Next

(***************************************************************************)
(* The arena, its stack of scopes and scope_map implement lexical scoping  *)
(* on files of any size: each step of the walk is one of blocks that open, *)
(* declare and close, and what was left is never changed                   *)
(* (resolve.rs:86-124, 150-177, 210-230, 327-337).                         *)
(***************************************************************************)
THEOREM ResolverImplementsScopes == Spec => ImplementsLexicalScopes
<1>1. Init => Sized
  BY DEF Init, Sized
<1>2. Spec => []Sized
  BY <1>1, NextMeets, Invariant, PTL DEF Spec
<1>3. IInv /\ Sized /\ [Next]_vars => [Lexical!Next]_(Lexical!vars)
  BY NextScopes, ScopesLexical
<1> QED
  BY <1>2, <1>3, InitLexical, Invariant, PTL DEF Spec, ImplementsLexicalScopes, Lexical!Spec

================================================================================
