------------------------------ MODULE MCAnalysis ------------------------------
(***************************************************************************)
(* Small files for the whole analysis: two names, of which one may be      *)
(* taken for a type.  What a file may hold depends on what is asked of it: *)
(* types and constants, or names used in nested constructs.                *)
(***************************************************************************)
EXTENDS Analysis

CONSTANTS A, b

Both == {A, b}
JustA == {A}

Types ==
  [constructs |-> {"type", "signal", "nominal", "variant", "module"},
   forms |-> {"Bare", "Named", "Partial"}, names |-> Both, size |-> 3]

Constants ==
  [constructs |-> {"const", "signal", "module"}, forms |-> {"Width"},
   names |-> Both, size |-> 3]

Sizes ==
  [constructs |-> {"const", "type", "signal"},
   forms |-> {"Literal", "Named", "Partial", "Array", "Memory", "Clock"},
   names |-> Both, size |-> 2]

\* Two names: one may be declared nowhere.
Undeclared ==
  [constructs |-> {"module", "for", "assign", "read"}, forms |-> {},
   names |-> Both, size |-> 4]

\* One name is enough to shadow it.
NestedUses ==
  [constructs |-> {"module", "fn", "for", "gen", "body", "assign", "read"},
   forms |-> {}, names |-> {b}, size |-> 4]

LoopsAndLets ==
  [constructs |-> {"module", "for", "let", "assign"}, forms |-> {},
   names |-> {b}, size |-> 5]

Files == {Types, Constants, Sizes, Undeclared, NestedUses, LoopsAndLets}

UsesOnly == {Undeclared}

================================================================================
