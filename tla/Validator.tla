------------------------------- MODULE Validator -------------------------------
(***************************************************************************)
(* The hardware validation pass (sema/validate.rs) on every program.       *)
(*                                                                         *)
(* The code walks the tree of items and statements, three times over each  *)
(* comb block: once to collect the assigned names, once to compute those   *)
(* assigned on all paths, once to validate the statements inside.  The     *)
(* program is not a constant here: its text is chosen as the walk reaches  *)
(* it, one action per construct entered, branched or left, and a stack of  *)
(* frames stands for the recursion.  A frame holds what the three walks    *)
(* have computed about the part of its block that is behind them, and,     *)
(* beside it, the paths the hardware may take through that part (history   *)
(* that only the properties read).                                         *)
(*                                                                         *)
(* Conditions are not modelled: any branch may be the one taken.  Names    *)
(* are looked up in the module's scope only, so a name's kind and type are *)
(* constants.                                                              *)
(***************************************************************************)
EXTENDS Naturals, Sequences

CONSTANTS
  Signals,               \* the names a program assigns
  OutPorts,              \* those that are `out` ports of each module
  Immutable,             \* those declared by `const` or `let`
  ErrorTyped,            \* those whose type did not resolve (Ty::Error)
  Compounds,             \* bound: the kinds of constructs programs use
  MaxDepth,              \* bound: how deep constructs nest
  MaxSize                \* bound: how many constructs a file has

Blocks == {"comb", "unchecked", "for"}
Branching == {"if", "match", "priority", "parallel"}
Statements == Blocks \union Branching \union {"reg"}
Items == {"gen", "module"}
Errors == {"LatchInferred", "NoReset", "UnconnectedPort", "InvalidAssignTarget"}
Escapes == {"plain", "gen", "part", "errtype"}

ASSUME NamesAssumption ==
  OutPorts \subseteq Signals /\ Immutable \subseteq Signals /\ ErrorTyped \subseteq Signals
ASSUME BoundsAssumption ==
  Compounds \subseteq Statements \union Items /\ MaxDepth \in Nat /\ MaxSize \in Nat

VARIABLES
  frames,                \* the constructs being walked, innermost last
  errors,                \* the errors pushed so far
  flaws,                 \* history: what is really wrong with the program
  size                   \* how many constructs the file has so far

vars == <<frames, errors, flaws, size>>

(***************************************************************************)
(* What is known of a construct while it is walked.                        *)
(***************************************************************************)
Frame == [
  kind    : Statements \union Items,
  total   : BOOLEAN,            \* an else, wildcard arm or otherwise was seen
  def     : SUBSET Signals,     \* `definitely`, in the current branch
  ends    : SUBSET SUBSET Signals,  \* `sets`: `definitely` of earlier branches
  all     : SUBSET Signals,     \* the names collected in the current branch
  earlier : SUBSET Signals,     \* the names collected in earlier branches
  paths   : SUBSET SUBSET Signals,  \* what each path of the branch assigns
  alts    : SUBSET SUBSET Signals,  \* what each path of earlier branches did
  parts   : SUBSET Signals,     \* names assigned through an index or a field
  wired   : SUBSET Signals,     \* names connected to outputs of `inst` items
  generated : SUBSET Signals,   \* names assigned or wired below `gen` items
  exact   : BOOLEAN]            \* see ExactOn

NewFrame(kind, total) ==
  [kind |-> kind, total |-> total, def |-> {}, ends |-> {}, all |-> {},
   earlier |-> {}, paths |-> {{}}, alts |-> {}, parts |-> {}, wired |-> {},
   generated |-> {}, exact |-> TRUE]

Top == frames[Len(frames)]
Parent == frames[Len(frames) - 1]
Below == SubSeq(frames, 1, Len(frames) - 1)

\* validate_module visits Stmt and Module items only: nothing below a `gen`
\* is ever validated.
InGen == \E i \in DOMAIN frames : frames[i].kind = "gen"

\* The stack when the innermost construct is left and its parent becomes f.
PopTo(f) == Append(SubSeq(frames, 1, Len(frames) - 2), f)
Replace(f) == Append(Below, f)

Grow == size < MaxSize /\ size' = size + 1

-----------------------------------------------------------------------------

\* Mutant: the names of the last branch only.
CollectedLast(f) == f.all

(***************************************************************************)
(* collect_assigned_in_stmt: every name assigned in any branch.            *)
(***************************************************************************)
Collected(f) == f.earlier \union f.all

\* Mutant: an if without an else counts like one with it.
DefiniteNoElse(f) ==
  {x \in f.def : \/ f.kind \in {"comb", "unchecked"}
                 \/ f.kind \in {"if", "match"} /\ \A s \in f.ends : x \in s}

\* Mutant: the branches of an if or a match contribute nothing.
DefiniteFlat(f) == {x \in f.def : f.kind \in {"comb", "unchecked"}}

(***************************************************************************)
(* assigned_on_all_paths: what a construct that is left contributes.       *)
(* match_has_wildcard and the `if let Some(else_body)` are f.total.        *)
(***************************************************************************)
Definite(f) ==
  {x \in f.def : \/ f.kind \in {"comb", "unchecked"}
                 \/ /\ f.kind \in {"if", "match"}
                    /\ f.total
                    /\ \A s \in f.ends : x \in s}

\* validate_comb_block, step 3, if the comb block f ended here.
LatchErrors(f) == (Collected(f) \ f.def) \ ErrorTyped

\* validate_reg_block, if the reg block f ended here: on_tick minus on_reset.
ResetErrors(f) == (f.all \ f.earlier) \ ErrorTyped

\* validate_module's port check, if the module f ended here.
PortErrors(f) == OutPorts \ Collected(f)

(***************************************************************************)
(* What the hardware does: the sets of names the executions of a construct *)
(* may assign.  A loop runs its body some number of times; a match without *)
(* a wildcard and a parallel block may be left with no arm taken.  With    *)
(* "certain" the loop has at least one iteration, the arms name every      *)
(* case.  A reg block assigns at a clock edge and not otherwise.           *)
(***************************************************************************)
Outcomes(f, certain) ==
  LET skip == IF certain THEN {} ELSE {{}}
  IN  CASE f.kind \in {"comb", "unchecked"} -> f.paths
        [] f.kind = "for" -> skip \union {UNION S : S \in (SUBSET f.paths) \ {{}}}
        [] f.kind \in {"if", "priority"} ->
             f.alts \union f.paths \union (IF f.total THEN {} ELSE {{}})
        [] f.kind \in {"match", "parallel"} ->
             f.alts \union f.paths \union (IF f.total THEN {} ELSE skip)
        [] OTHER -> {{}} \union f.alts \union f.paths

\* One part of a block after the other: any path, then any outcome.
Joined(paths, outcomes) ==
  {q \in SUBSET Signals : \E p \in paths, o \in outcomes : q = p \union o}

\* Definite(f) is all that these outcomes have in common.
ExactOn(f, certain) == f.exact /\ ~certain /\ ~(f.kind = "priority" /\ f.total)

\* A name some path assigns and another leaves alone needs a latch.
Latches(f) == {x \in Signals : \E p, q \in f.paths : x \in p /\ x \notin q}

\* A name some path of on_tick assigns and no path of on_reset does.
Unreset(f) == (UNION f.paths) \ (UNION f.alts)

\* How a flaw about the name x in the frame f escapes the pass, if it does.
Via(f, x) ==
  IF InGen THEN "gen"
  ELSE IF x \in f.parts THEN "part"
  ELSE IF x \in ErrorTyped THEN "errtype" ELSE "plain"

Report(error, names) ==
  IF InGen THEN {} ELSE {[error |-> error, name |-> x] : x \in names}

Flaw(error, f, names) ==
  {[error |-> error, name |-> x, via |-> Via(f, x)] : x \in names}

-----------------------------------------------------------------------------

Init ==
  /\ frames = <<>>
  /\ errors = {}
  /\ flaws = {}
  /\ size = 0

\* `x = ...` : collected, on every path, and check_immutability.
Assign(x) ==
  LET f == [Top EXCEPT !.def = @ \union {x}, !.all = @ \union {x},
                       !.paths = {p \union {x} : p \in @}]
  IN  /\ frames # <<>>
      /\ Grow
      /\ frames' = Replace(f)
      /\ errors' = errors \union Report("InvalidAssignTarget", {x} \intersect Immutable)
      /\ flaws' = flaws \union
           {[error |-> "InvalidAssignTarget", name |-> y,
             via |-> IF InGen THEN "gen" ELSE "plain"] : y \in {x} \intersect Immutable}

\* `x.f = ...` and `x[i] = ...`: no walk looks at a target that is no Ident.
AssignPart(x) ==
  LET f == [Top EXCEPT !.parts = @ \union {x}, !.paths = {p \union {x} : p \in @}]
  IN  /\ frames # <<>>
      /\ Grow
      /\ frames' = Replace(f)
      /\ flaws' = flaws \union
           {[error |-> "InvalidAssignTarget", name |-> y, via |-> "part"] :
              y \in {x} \intersect Immutable}
      /\ UNCHANGED errors

\* Mutant: validate_item validates the statements outside modules too.
OpenStmtAnywhere(kind, wild) ==
  /\ kind \in Statements \intersect Compounds
  /\ wild => kind = "match"
  /\ Len(frames) < MaxDepth
  /\ Grow
  /\ frames' = Append(frames, NewFrame(kind, wild))
  /\ UNCHANGED <<errors, flaws>>

\* Entering a compound statement; `wild` when a match begins with its wildcard.
OpenStmt(kind, wild) ==
  /\ kind \in Statements \intersect Compounds
  /\ wild => kind = "match"
  /\ frames # <<>>
  /\ Len(frames) < MaxDepth
  /\ Grow
  /\ frames' = Append(frames, NewFrame(kind, wild))
  /\ UNCHANGED <<errors, flaws>>

\* Items: a module in the file, and modules and `gen`s in items.
OpenItem(kind) ==
  /\ kind \in Items \intersect Compounds
  /\ IF frames = <<>> THEN kind = "module" ELSE Top.kind \in Items
  /\ Len(frames) < MaxDepth
  /\ Grow
  /\ frames' = Append(frames, NewFrame(kind, FALSE))
  /\ UNCHANGED <<errors, flaws>>

\* An `inst` item with an output connection `port -> x`: no walk looks at it.
Instance(x) ==
  /\ frames # <<>>
  /\ Top.kind \in Items
  /\ Grow
  /\ frames' = Replace([Top EXCEPT !.wired = @ \union {x}])
  /\ UNCHANGED <<errors, flaws>>

\* The next elif, else, arm, `when` or `otherwise`; on_tick after on_reset.
\* `last` when the branch is an else, a wildcard arm or an otherwise.
NextBranch(last) ==
  LET f == [Top EXCEPT !.total = @ \/ last,
                       !.def = {}, !.ends = @ \union {Top.def},
                       !.all = {}, !.earlier = @ \union Top.all,
                       !.paths = {{}}, !.alts = @ \union Top.paths]
  IN  /\ frames # <<>>
      /\ \/ Top.kind \in {"if", "priority"} /\ ~Top.total
         \/ Top.kind = "match"
         \/ Top.kind = "parallel" /\ ~last
         \/ Top.kind = "reg" /\ ~last /\ Top.alts = {}
      /\ Grow
      /\ frames' = Replace(f)
      /\ UNCHANGED <<errors, flaws>>

\* Leaving a compound statement: the parent absorbs what the walks found.
CloseStmt(certain) ==
  LET f == Top
      g == [Parent EXCEPT
              !.def = @ \union Definite(f),
              !.all = @ \union Collected(f),
              !.paths = Joined(@, Outcomes(f, certain)),
              !.parts = @ \union f.parts,
              !.exact = @ /\ ExactOn(f, certain)]
  IN  /\ frames # <<>>
      /\ f.kind \in Statements
      /\ certain => f.kind \in {"for", "match", "parallel"} /\ ~f.total
      /\ f.kind = "reg" => f.alts # {}
      /\ frames' = PopTo(g)
      /\ errors' = errors
           \union (IF f.kind = "comb" THEN Report("LatchInferred", LatchErrors(f)) ELSE {})
           \union (IF f.kind = "reg" THEN Report("NoReset", ResetErrors(f)) ELSE {})
      /\ flaws' = flaws
           \union (IF f.kind = "comb" THEN Flaw("LatchInferred", f, Latches(f)) ELSE {})
           \union (IF f.kind = "reg" THEN Flaw("NoReset", f, Unreset(f)) ELSE {})
      /\ UNCHANGED size

\* Leaving a `gen` item: what it drives is known to nobody but the hardware.
CloseGen ==
  LET f == Top
      inside == Collected(f) \union f.parts \union f.wired \union f.generated
  IN  /\ frames # <<>>
      /\ f.kind = "gen"
      /\ frames' = PopTo([Parent EXCEPT !.generated = @ \union inside])
      /\ UNCHANGED <<errors, flaws, size>>

\* Leaving a module: the port check; nothing is passed to an outer module.
CloseModule ==
  LET f == Top
      driven == Collected(f) \union f.parts \union f.wired \union f.generated
  IN  /\ frames # <<>>
      /\ f.kind = "module"
      /\ frames' = Below
      /\ errors' = errors \union Report("UnconnectedPort", PortErrors(f))
      /\ flaws' = flaws \union
           {[error |-> "UnconnectedPort", name |-> x,
             via |-> IF InGen THEN "gen" ELSE "plain"] : x \in OutPorts \ driven}
      /\ UNCHANGED size

Next ==
  \/ \E x \in Signals : Assign(x) \/ AssignPart(x) \/ Instance(x)
  \/ \E kind \in Statements, wild \in BOOLEAN : OpenStmt(kind, wild)
  \/ \E kind \in Items : OpenItem(kind)
  \/ \E last \in BOOLEAN : NextBranch(last)
  \/ \E certain \in BOOLEAN : CloseStmt(certain)
  \/ CloseGen
  \/ CloseModule

Spec == Init /\ [][Next]_vars

-----------------------------------------------------------------------------

(***************************************************************************)
(* The types of the variables.  The walk is in a module or nowhere: of the *)
(* items of a file validate_item looks at the modules (validate.rs:82-86). *)
(***************************************************************************)
TypeOK ==
  /\ frames \in Seq(Frame)
  /\ frames # <<>> => frames[1].kind = "module"
  /\ errors \subseteq [error : Errors, name : Signals]
  /\ flaws \subseteq [error : Errors, name : Signals, via : Escapes]
  /\ size \in 0 .. MaxSize

(***************************************************************************)
(* What assigned_on_all_paths is documented to return (validate.rs:405):   *)
(* each name in it is assigned on every path, whatever the nesting.        *)
(***************************************************************************)
DefiniteOnEveryPath ==
  \A i \in DOMAIN frames : \A p \in frames[i].paths : frames[i].def \subseteq p

(***************************************************************************)
(* No flaw escapes the pass: an error has been pushed for every latch,     *)
(* every register without a reset, every `out` port nothing drives and     *)
(* every assigned constant, except those that sit below a `gen`, involve a *)
(* partial assignment, or a type that did not resolve (validate.rs:82-309).*)
(***************************************************************************)
FlawsReported ==
  \A t \in flaws :
    t.via = "plain" => [error |-> t.error, name |-> t.name] \in errors

(***************************************************************************)
(* Where `definitely` is exact no latch is reported that is not there: the *)
(* name is assigned on one path of the comb block and not on another       *)
(* (validate.rs:220-244, 416-499).                                         *)
(***************************************************************************)
ExactLatchReports ==
  \A i \in DOMAIN frames :
    (frames[i].kind = "comb" /\ frames[i].exact) =>
      LatchErrors(frames[i]) \ frames[i].parts \subseteq Latches(frames[i])

================================================================================
