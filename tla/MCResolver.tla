------------------------------ MODULE MCResolver ------------------------------
(***************************************************************************)
(* Small files for the resolver: two names, of which one may be taken for  *)
(* a type, in every construct with or without a scope.                     *)
(***************************************************************************)
EXTENDS Resolver, TLC

CONSTANTS A, b

Both == {A, b}
JustA == {A}
Alike == Permutations(Both)

Scopes ==
  {[constructs |-> {"module", "extern", "fn", "for", "body", "gen", "generic",
                    "parameter", "signal", "let"},
    forms |-> {"Bool"}, names |-> Both, size |-> 4],
   [constructs |-> {"module", "type", "opaque", "nominal", "variant", "const", "assign", "read"},
    forms |-> {"Bool"}, names |-> Both, size |-> 3]}

Shadowing == {[constructs |-> {"for", "const", "signal"}, forms |-> {"Width"}, names |-> Both, size |-> 4]}

================================================================================
