------------------------------- MODULE Analysis -------------------------------
(***************************************************************************)
(* analyze (sema/mod.rs): the resolver, then the type checker, then the    *)
(* validator, each walking the syntax tree from its start.  The second and *)
(* third pass (check.rs, validate.rs) walk it alike: into modules, and     *)
(* into the statements that stand in a module directly; never into gen     *)
(* items, functions or statements of the file.  They declare nothing, and  *)
(* find the scope of a module in the map that the resolver has left, and   *)
(* no other scope.                                                         *)
(*                                                                         *)
(* What the passes say of types and paths is in TypeChecker and Validator; *)
(* here a walk is where it looks names up, and what it finds there.        *)
(***************************************************************************)
EXTENDS Resolver

VARIABLES
  pass,                  \* "resolve", "check", "validate" or "done"
  next,                  \* the position the walk has come to
  walked,                \* the modules the walk is in, with the scopes around
                         \* them (`prev`), innermost last
  current,               \* current_scope of the checker or validator
  reports,               \* the errors of the later passes: [error, name, at]
  found                  \* history: [pass, at, decl], the uses looked up

walk == <<pass, next, walked, current, reports, found>>
avars == <<vars, walk>>

AInit ==
  /\ Init
  /\ pass = "resolve"
  /\ next = 1
  /\ walked = <<>>
  /\ current = root_scope
  /\ reports = {}
  /\ found = {}

\* The constructs around the position k, innermost first, up to the file.
Enclosing(k) ==
  LET enclosing[j \in 0 .. Len(prog)] ==
        IF j = 0 THEN {} ELSE {j} \union enclosing[prog[j].block]
  IN  enclosing[k] \ {k}

\* A module of the file or of a module that is walked.
WalkedModule(k) ==
  prog[k].what = "module" /\ \A j \in Enclosing(k) : prog[j].what = "module"

\* A statement is walked in a module, in statements that are walked themselves.
WalkedStatement(k) ==
  /\ prog[k].what \in Mentions
  /\ \E m \in Enclosing(k) :
       /\ WalkedModule(m)
       /\ \A j \in Enclosing(k) \ ({m} \union Enclosing(m)) : prog[j].what \in {"for", "body"}

Walking == pass \in {"check", "validate"}

\* What the walk comes to from the position k on: declarations, which the
\* resolver has dealt with, constructs that only hold statements, and all that
\* is not walked are passed over.
Comes(k) ==
  LET visited == {j \in k .. Len(prog) : WalkedModule(j) \/ WalkedStatement(j)}
  IN  IF visited = {} THEN Len(prog) + 1
      ELSE CHOOSE j \in visited : \A i \in visited : j <= i

\* The module the walk is in lies around what comes next.
Within ==
  walked # <<>> => next <= Len(prog) /\ walked[Len(walked)].at \in Enclosing(next)

ResolveOn ==
  pass = "resolve" /\ Next /\ UNCHANGED walk

\* The resolver has come to the end of the file: `finish`.
Resolved ==
  /\ pass = "resolve" /\ open = <<>>
  /\ pass' = "check"
  /\ next' = Comes(1)
  /\ UNCHANGED <<vars, walked, current, reports, found>>

\* Mutant: a module is entered with the scope of the one around it.
EnterModuleBlind ==
  /\ Walking /\ Within /\ next <= Len(prog) /\ WalkedModule(next)
  /\ walked' = Append(walked, [at |-> next, prev |-> current])
  /\ next' = Comes(next + 1)
  /\ UNCHANGED <<vars, pass, current, reports, found>>

\* check_module and validate_module, up to their body: enter_scope.
EnterModule ==
  /\ Walking /\ Within /\ next <= Len(prog) /\ WalkedModule(next)
  /\ walked' = Append(walked, [at |-> next, prev |-> current])
  /\ current' = IF next \in DOMAIN scope_map THEN scope_map[next] ELSE current
  /\ next' = Comes(next + 1)
  /\ UNCHANGED <<vars, pass, reports, found>>

\* Mutant: the scope of a module stays the current one.
LeaveModuleStale ==
  /\ Walking /\ ~Within
  /\ walked' = SubSeq(walked, 1, Len(walked) - 1)
  /\ UNCHANGED <<vars, pass, next, current, reports, found>>

\* The end of check_module and validate_module: restore_scope.
LeaveModule ==
  /\ Walking /\ ~Within
  /\ current' = walked[Len(walked)].prev
  /\ walked' = SubSeq(walked, 1, Len(walked) - 1)
  /\ UNCHANGED <<vars, pass, next, reports, found>>

\* What lookup returns for the name at k from the current scope, and its kind.
SymbolAt(k) == lookup(table, current, prog[k].name)

Declaration(k) == IF SymbolAt(k) = 0 THEN 0 ELSE table.symbols[SymbolAt(k)].span

KindIn(k, kinds) == SymbolAt(k) # 0 /\ table.symbols[SymbolAt(k)].kind \in kinds

\* Mutant: only `const` is immutable.
check_immutability_const(k) ==
  IF pass = "validate" /\ prog[k].what = "assign" /\ KindIn(k, {"Const"})
  THEN {[error |-> "InvalidAssignTarget", name |-> prog[k].name, at |-> k]} ELSE {}

\* The error the validator pushes for a target that may not be assigned.
check_immutability(k) ==
  IF pass = "validate" /\ prog[k].what = "assign" /\ KindIn(k, {"Const", "Let"})
  THEN {[error |-> "InvalidAssignTarget", name |-> prog[k].name, at |-> k]} ELSE {}

\* The checker looks every name up, the validator the targets.
LooksUp(k) == pass = "check" \/ prog[k].what = "assign"

\* A name in a statement.  Of a name that is not found neither pass says
\* anything: its type is Error, and it is no constant.
LookUp ==
  /\ Walking /\ Within /\ next <= Len(prog) /\ WalkedStatement(next)
  /\ found' = IF LooksUp(next)
              THEN found \union {[pass |-> pass, at |-> next, decl |-> Declaration(next)]}
              ELSE found
  /\ reports' = reports \union check_immutability(next)
  /\ next' = Comes(next + 1)
  /\ UNCHANGED <<vars, pass, walked, current>>

\* A new Validator starts where the checker did.
NextPass ==
  /\ Walking /\ next > Len(prog) /\ walked = <<>>
  /\ pass' = IF pass = "check" THEN "validate" ELSE "done"
  /\ next' = Comes(1)
  /\ current' = root_scope
  /\ UNCHANGED <<vars, walked, reports, found>>

ANext ==
  \/ ResolveOn \/ Resolved
  \/ EnterModule \/ LeaveModule \/ LookUp \/ NextPass

ASpec == AInit /\ [][ANext]_avars

-----------------------------------------------------------------------------

\* The module whose scope a walk knows at the position k, 0 for the file.
ModuleAround(k) ==
  LET modules == {j \in Enclosing(k) : prog[j].what = "module"}
  IN  IF modules = {} THEN 0 ELSE CHOOSE m \in modules : \A j \in modules : j <= m

\* The declaration that the name at k means, by lexical scoping.
Means(k) == Visible(prog[k].scope, prog[k].name)

\* It is one of a `for` around k: its variable, or declared in its body.
OfLoop(k) == Means(k) # 0 /\ BlockOf(Means(k)) # 0 /\ prog[BlockOf(Means(k))].what = "for"

(***************************************************************************)
(* The types of the variables of the walk.  The modules it is in lie in    *)
(* each other, the current scope is that of the innermost, also when the   *)
(* walk comes back to it, and where it is done it has left them all        *)
(* (check.rs:39-90, validate.rs:49-126).                                   *)
(***************************************************************************)
WalkOK ==
  /\ pass \in {"resolve", "check", "validate", "done"}
  /\ next \in 1 .. Len(prog) + 1
  /\ current = IF walked = <<>> THEN root_scope ELSE scope_map[walked[Len(walked)].at]
  /\ \A i \in DOMAIN walked :
       /\ walked[i].prev \in 1 .. Len(table.scopes)
       /\ walked[i].at < next
       /\ i > 1 => walked[i - 1].at \in Enclosing(walked[i].at)
  /\ pass \in {"resolve", "done"} => walked = <<>>
  /\ \A r \in reports : r.at \in DOMAIN prog /\ r.name = prog[r.at].name
  /\ \A f \in found : f.at \in DOMAIN prog /\ f.decl \in 0 .. Len(prog)

(***************************************************************************)
(* The checker finds for every name in a statement, and the validator for  *)
(* every target, the declaration that lexical scoping gives it, also if it *)
(* comes later in the file, or, if that is one of a `for`, whose scope     *)
(* they cannot find, what the name means in the module around it.  No      *)
(* statement in a module is passed by but those in gen items and functions *)
(* (check.rs:54-90, validate.rs:66-126, resolve.rs:150-177, 327-337).      *)
(***************************************************************************)
UsesFindDeclarations ==
  /\ \A f \in found :
       f.decl = IF OfLoop(f.at)
                THEN Visible(ModuleAround(f.at), prog[f.at].name)
                ELSE Means(f.at)
  /\ pass = "done" =>
       \A k \in DOMAIN prog :
         prog[k].what \in Mentions =>
           \/ {f.pass : f \in {g \in found : g.at = k}} =
                IF prog[k].what = "assign" THEN {"check", "validate"} ELSE {"check"}
           \/ \E j \in Enclosing(k) : prog[j].what \in {"fn", "gen"}
           \/ ModuleAround(k) = 0

(***************************************************************************)
(* A constant is never assigned in silence: every assignment to a name     *)
(* that means a `let` or a `const` is reported, and no other, where the    *)
(* validator walks and no `for` declares the name (check_immutability,     *)
(* validate.rs:301-309).                                                   *)
(***************************************************************************)
ConstantsProtected ==
  pass = "done" =>
    \A f \in found :
      (prog[f.at].what = "assign" /\ ~OfLoop(f.at)) =>
        (Means(f.at) # 0 /\ prog[Means(f.at)].what \in {"let", "const"})
          <=> \E r \in reports : r.at = f.at

(***************************************************************************)
(* What the checker says of a name that it does not find, "Already         *)
(* reported by the resolver" (check.rs:432): an error about the name has   *)
(* been pushed.                                                            *)
(***************************************************************************)
UndeclaredUsesReported ==
  \A f \in found :
    f.decl = 0 => \E e \in errors : e.name = prog[f.at].name

================================================================================
