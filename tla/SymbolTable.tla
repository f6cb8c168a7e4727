------------------------------ MODULE SymbolTable ------------------------------
(***************************************************************************)
(* The arena of scopes and symbols (sema/scope.rs), as a value: what each  *)
(* method of SymbolTable returns for a table, or makes of it.  Ids count   *)
(* from 1; 0 stands for None, the id of nothing.                           *)
(***************************************************************************)
EXTENDS Naturals, Sequences

CONSTANT Names           \* the names a program declares

\* The kinds of scopes and symbols the resolver makes (Fsm, Pipeline and Test
\* scopes, and Var symbols, are declared in scope.rs and never made).
ScopeKind == {"File", "Module", "Function", "Block"}
SymbolKind == {"Signal", "Port", "Const", "Let", "TypeAlias", "Module", "Struct", "Enum",
               "EnumVariant", "Interface", "Fn", "Fsm", "Pipeline", "GenericParam", "LoopVar"}

\* Types as far as resolution tells them apart: n is a width, a size or the
\* id of a nominal type.
Ty == [ty : {"Void", "Bool", "MetaUInt", "UInt", "Array", "Memory", "Clock",
             "Struct", "Enum", "Interface", "Error"},
       n : Nat]

Symbol == [name : Names, kind : SymbolKind, ty : Ty, span : Nat, scope : Nat]
Scope == [parent : Nat, kind : ScopeKind, symbols : [Names -> Nat]]
Table == [scopes : Seq(Scope), symbols : Seq(Symbol)]

NewScope(parent, kind) == [parent |-> parent, kind |-> kind, symbols |-> [x \in Names |-> 0]]

EmptyTable == [scopes |-> << NewScope(0, "File") >>, symbols |-> <<>>]

root_scope == 1

\* Mutant: every scope is a child of the file's.
push_scope_flat(table, parent, kind) ==
  [table EXCEPT !.scopes = Append(@, NewScope(root_scope, kind))]

\* The id of the new scope is the number of scopes there are now.
push_scope(table, parent, kind) ==
  [table EXCEPT !.scopes = Append(@, NewScope(parent, kind))]

\* The symbol `name` has in `scope` itself.
lookup_local(table, scope, name) == table.scopes[scope].symbols[name]

\* Mutant: the name leads to the symbol before the new one.
define_before(table, scope, name, kind, ty, span) ==
  IF lookup_local(table, scope, name) # 0 THEN table
  ELSE [scopes  |-> [table.scopes EXCEPT ![scope].symbols[name] = Len(table.symbols)],
        symbols |-> Append(table.symbols, [name |-> name, kind |-> kind, ty |-> ty,
                                           span |-> span, scope |-> scope])]

\* Mutant: a second declaration replaces the first.
define_again(table, scope, name, kind, ty, span) ==
  [scopes  |-> [table.scopes EXCEPT ![scope].symbols[name] = Len(table.symbols) + 1],
   symbols |-> Append(table.symbols, [name |-> name, kind |-> kind, ty |-> ty,
                                      span |-> span, scope |-> scope])]

\* What define makes of the table: nothing when it returns Err.
define(table, scope, name, kind, ty, span) ==
  IF lookup_local(table, scope, name) # 0 THEN table
  ELSE [scopes  |-> [table.scopes EXCEPT ![scope].symbols[name] = Len(table.symbols) + 1],
        symbols |-> Append(table.symbols, [name |-> name, kind |-> kind, ty |-> ty,
                                           span |-> span, scope |-> scope])]

\* Parents come before their children, and a name in a scope leads to its symbol.
WellFormed(table) ==
  \A s \in DOMAIN table.scopes :
    /\ table.scopes[s].parent < s
    /\ \A x \in Names :
         lookup_local(table, s, x) # 0
           => /\ lookup_local(table, s, x) \in DOMAIN table.symbols
              /\ table.symbols[lookup_local(table, s, x)].name = x
              /\ table.symbols[lookup_local(table, s, x)].scope = s

\* Up the parents, from `scope`, to the first scope that declares the name.
lookup(table, scope, name) ==
  LET find[s \in 0 .. Len(table.scopes)] ==
        IF s = 0 \/ lookup_local(table, s, name) # 0
          THEN IF s = 0 THEN 0 ELSE lookup_local(table, s, name)
          ELSE find[table.scopes[s].parent]
  IN  find[scope]

================================================================================
