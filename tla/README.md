# Specifications of the SiliconScript front end

SiliconScript is a hardware description language. This repository holds the front
end of its compiler: `ssl-core` (lexer, parser, semantic analysis) and the command
line `sslc`. This directory holds TLA+ modules of the parts whose correctness is
hardest to see from tests, the TLC configurations that check them, and proofs that
hold for every size of program.

Paths in this file are relative to `crates/ssl-core/src/` unless they begin with
`docs/` or `crates/`.

## The system

The compiler is sequential: no threads, no I/O but one file read, no state that
outlives a run. What makes it hard is not interleaving but *depth*: each pass is a
walk over a program of any nesting, keeps state that must match that nesting (a
stack, a current scope, a set per branch), and hands a result to a later pass that
trusts it. The steps of the models are the steps of those walks, and the program is
what a model chooses nondeterministically, one construct at a time.

| Component | Source | State | Operations | Hands on |
|---|---|---|---|---|
| Tokenizer | `lexer/lex.rs`, `token.rs`, `numeric.rs` | position, comment depth | next token | tokens with comments |
| Indentation pass | `lexer/mod.rs`, `indent.rs` | `indent_stack`, `result` | newline, end of input | tokens with Indent and Dedent, or an error |
| Parser | `parser/` | cursor `pos` | `parse_*`, `parse_block`, `skip_structural` | syntax tree, or the first error |
| Symbol table | `sema/scope.rs` | arena of scopes and symbols | `push_scope`, `define`, `lookup` | |
| Resolver (pass 1) | `sema/resolve.rs` | `scope_stack`, `scope_map`, `const_values`, ids, errors | enter and leave a construct, declare | symbol table, scope map |
| Constant evaluator | `sema/eval.rs` | bindings | `eval_expr` | a constant, or an error |
| Type checker (pass 2) | `sema/check.rs`, `types.rs` | `current_scope`, errors | check item, statement, expression | errors |
| Validator (pass 3) | `sema/validate.rs` | `current_scope`, errors | validate module, comb, reg | errors |
| Driver | `sema/mod.rs`, `crates/sslc/src/main.rs` | errors of all passes | `analyze`, `lex`, `parse`, `check` | exit status |

`tokenize` filters the comments, runs the indentation pass and gives its tokens to
the parser. `analyze` runs the resolver over the tree, then the type checker and the
validator, which read the resolver's table through `scope_map`, a map from the
position of a module's or function's name to its scope. The resolver calls the
constant evaluator for widths. An error in one pass does not stop the later ones, so
each must cope with what the earlier ones left (`Ty::Error`).

### What makes each part correct, and what is hard about it

* **Indentation pass.** The blocks it opens and closes are those of the offside rule;
  the stream is balanced. Hard: dedents over several levels, a dedent to a level
  nobody opened, tabs, end of file, and lines that have text but no tokens.
* **Symbol table and resolver.** A name means what lexical scoping says, during the
  walk and later through `scope_map`; each declaration is recorded or reported as a
  duplicate; no type is `Error` in silence. Hard: constructs with and without a scope
  nest in any order, and `const_values` is a second, flat, table beside the scoped one.
* **Validator.** Each real latch, unreset register, undriven port and assigned
  constant is reported, and what is reported is real. Hard: definite assignment is an
  intersection over branches at any depth.
* **Type checker.** Scopes agree with those of the resolver; widths are those of the
  operators; an expression is `Error` only where something was reported.
* **Parser.** What a function has yet to ask for closes what is open, in that order;
  blocks in the tree are the blocks of the file; expressions have the tree of the
  operator table; every loop ends. Hard: lists that span lines skip Indents and Dedents
  each for itself, `>>` closes two lists, functions peek, rewind and rewrite the tokens.
* **Tokenizer.** Nothing but blanks is lost; every line end outside comments and strings
  (`\n`, `\r` or `\r\n`) is a token; comments nest; literals have the value they are
  written with. Hard: all of these are decided by which pattern is longest.
* **Constant evaluator.** A pure function with boundaries at 2^127 and 2^128.
* **Driver.** The later passes look names up in the scopes the resolver made for them.

`PROJECT.json` lists the hazards one by one, each at the line where it bites, with
the property that covers it.

## Modules

### `Lexer`

`Lexer` is `lex` over all texts. `logos` picks the longest match among the patterns of
`Token`; that is `Matches`, `Longest` and `Kinds`, with the patterns as predicates on
texts and the priorities in their conditions. One action is one turn of the loop in `lex`
(`Emit`, `EmitNumber`, `RejectNumber`, `EmitNewline`, `RejectCharacter`, `Finish`), and
one turn of the loop in `lex_block_comment` (`OpenComment`, `Nest`, `CloseComment`,
`PassOver`, `Unterminated`). `parse_numeric` is an operator, with `from_str_radix`
checked digit by digit against `Bits`, the size of a value. Keywords and the operators no
comment or number starts like are left out, and `blank` is a space or a tab.

`\n` (`newline`) and `\r` (`return`) are different characters, because not everything treats
them alike. A line end (`LineEnds`) is `\n`, `\r` or `\r\n` to `lex`, while the patterns of the
two kinds of line comments know `\n` only. So a `\r` with no `\n` behind it, in a line comment,
ends nothing: the comment goes on to the next `\n`, and `TokensCoverText` says so. What the
generated automaton hands `lex` at `\r\n` may be the two characters together or one after
the other, so the model has both: one Newline or two. To `Indentation` the second is a blank
line.

The references it is compared with do not scan: the delimiters of comments are the only
choice of non-overlapping ones (`Delimiters`), and the value of a number is the sum of its
digits at their places (`Positional`).

### `Grammar`, `Parser`, `Layout`, `ExpressionTrees` and `ParserTrees`

`Grammar` has the parse functions as data. A function is a sequence of symbols: expect a
token, `if eat`, `while eat`, the loops of `parse_block` and `parse_comma_list`, calls. One
that peeks is an operator from the token it peeks at; one that saves and restores `pos`
is an operator from two tokens, since no function looks further. A name in `Grammar` is
the name of the function it is taken from, but for the parts of a function that need a
name to be called (`match_body`, `fsm_sections`, `named_arg`). Identifiers
that the parser compares with a word (`states`, `Clock`, `backpressure`) are tokens of
their own and identifiers at once, as in the code.

`Parser` runs them: `stack` is what is left to do, the call stack of the code and the rest
of each function in it, `ahead` the tokens drawn but not consumed. The actions are what
the cursor does: `Expect`, `Eat`, `DeclineToEat`, `SkipLayout`, `NextElement`,
`NextListed`, `Operator`, `CloseAngle`, `SplitShift` (which rewrites the token under the
cursor), `Build`, `CheckPipe`, `Reject` and `Accept`; `Call` expands a function. Tokens are
drawn when a function looks at them (`DrawCode`, `DrawLine`, `DrawEnd`), so one state
stands for every file that the parser cannot yet tell apart. `DrawLine` draws what
`Layout` says a line may start with; `Indentation` is shown to produce nothing else
(`FeedsParser`), which is how the two are composed.

The history variables: `open` is what a reader of the file sees open, bracket by bracket
and block by block, the angles of generic lists among them; `swallowed` the Indents less
the Dedents that lists have skipped; `text` and `tree` the tokens and nodes of the last
statement. `Due` reads off `stack` which closers will be asked for: `Ask` is what one
symbol adds to those due behind it, or takes from them if it is an opener, and `DueBefore`
goes through a sequence of symbols from its end. An angle is a delimiter where a function
asks for it as one; where `parse_pratt` or a comparison consumes `<` or `>`, it is an
operator and opens and closes nothing. `SplitShift` takes one half of a `>>` for the list
that is due and leaves a `>` under the cursor for the one around it.

`ExpressionTrees` is an operator table as a definition: split at the loosest operator, no
cursor and no loop. It comes in two versions. `Planned` has the postfix operators tightest,
as the table of the plan does (`docs/superpowers/plans/2026-03-10-phase2-parser-ast.md:102-119`),
`Parsed` the prefix operators, as the code does. `TreeIsPrecedence` says that a tree is always
that of `Parsed`, and that of `Planned` unless a postfix operator follows the operand of a
prefix one (`PrefixedPostfix`) or ranges are chained (`Chained`), which the plan does not allow
and the code takes from the left. The module is recursive and for TLC only, so
`TreeIsPrecedence` is in a module of its own, `ParserTrees`, and nothing recursive is in what
`Parser` extends.

`TypeOK` of `Parser` types the bookkeeping of the model. It is part of the invariant of the
proofs and no run's property.

### `Indentation` and `OffsideRule`

`Indentation` is `process_indentation`. An action is one iteration of its loop at a
Newline token together with the copying of the tokens that follow: `BlankLine`,
`DeeperLine`, `SameLine`, `ShallowerLine`, `MismatchedLine`; `EndOfInput` is the code
behind the loop. A line is three things: whether it is blank, the spaces and tabs
it starts with, and whether any of its tokens survived the comment filter (a line
with a comment alone has white space to measure and no tokens). `indent_stack` and
`result` are the code's variables; `status` is whether it returned and what; `lines`
is history, the levels measured so far.

`OffsideRule` is the promise: a block is open while no line undercuts the line that
opened it. It has no stack, only the levels of all lines; the numbers of Indents and
Dedents follow from them. `Indentation` maps to it with the levels and the token
counts (`ImplementsOffsideRule`).

The operator `Kept` is where the loop `while len > 1 && top > level { pop }` stops. It
is stated as the condition at the loop's end, not as a recursion, so that it can be
reasoned about; that such a place exists and is unique is part of the proof.

### `Validator` and `ValidatorTrees`

`Validator` is `validate.rs` over all programs. The code walks a tree three times per
comb block; the model has one walk, one action for each construct entered, branched
or left, and a stack of `frames`. A frame holds for one construct what the three walks
have computed about the part of it that is behind the walk: `def` is `definitely` of
the current branch, `ends` the sets of the earlier branches, `all` and `earlier` the
collected names. Leaving a construct (`CloseStmt`, `CloseModule`, `CloseGen`) gives the
parent what `collect_assigned_in_stmt` and `assigned_on_all_paths` return for it and
pushes the errors of `validate_comb_block`, `validate_reg_block` or `validate_module`.

Beside it each frame keeps history: `paths`, the sets of names that the executions of
the block may assign, computed from what the hardware does (`Outcomes`), not from the
code; `parts`, `wired` and `generated`, what is driven in ways the pass does not look at;
and `exact`, whether only constructs were seen whose outcomes the analysis tracks
precisely. `flaws` collects what is really wrong, with `via` naming the gap through
which a flaw may escape the pass (below a `gen`, through a partial assignment, of an
unresolved type), and `plain` if through none.

That one walk may stand for three is not obvious, so `ValidatorTrees` has the recursive
functions as the source writes them, lets the walk record the tree, and checks that the
frames hold what those functions return (`WalkAgrees`). It uses RECURSIVE operators and
is for TLC only.

A pattern `_` is a name in the syntax tree and `match_has_wildcard` asks for it, but the
expression parser does not accept the token `_` (the run `wildcard_arm`), so no source text
reaches those arms today. The model keeps the code of `validate.rs` and lets a match have a
wildcard.

### `SymbolTable`, `Resolver` and `LexicalScopes`

`SymbolTable` has the methods of `scope.rs` as operators on a table value: what
`push_scope` and `define` make of it, what `lookup` and `lookup_local` return. Ids count
from 1 and 0 is `None`.

`Resolver` is the walk of `resolve.rs`. Again the program is chosen as the walk goes:
`EnterItem` (modules, extern modules and functions, with the name declared outside and
the scope pushed), `Generic`, `Parameter`, `Signal`, `Let`, `TypeAlias`, `Const`,
`DeclareNominal` (structs, enums, interfaces) with `Variant`, `DeclareOpaque` (fsm and
pipeline), `EnterFor`, `EnterBody` (the constructs without a scope) and `Leave`. An
action is the whole handler: `Const` resolves the type, declares the name and binds the
value. The span of a declaration is its position in the program, so that spans order
declarations as they do in the source. `header` says which part of a header the walk is
in, because the grammar has parameters before statements. `Mention` is a statement that
uses a name, as a target or as a value: the resolver passes over it, and the later passes
need it to be somewhere. Items without any effect on any pass (imports, tests, instances)
are no actions. Which constructs, type expressions and names a file may have, and how many,
is the constant `Profiles`: a set of small languages, each for one question, because one
language with everything at these sizes is out of TLC's reach.

`Resolver` keeps the program as history (`prog`), with the meaning of each constant
under lexical scoping (`meaning`) and each use of a name as a width (`uses`). The
properties compare the table with the program; `Visible` is lexical scoping read off the
program, with no table.

`LexicalScopes` is the promise of table and resolver together: a stack of blocks with
their declarations. `Resolver` maps to it: the scopes on `scope_stack` are the open
blocks, and what `scope_map` leads to is what a block declared when it was left. Since the
abstract `left` only grows by whole blocks, the refinement says in particular that nothing
is ever declared in a scope that was left.

Type constructors are represented by kinds that take different paths through
`resolve_type`: with a width (`Width`, `Clock`), with a size (`Array`, `Memory`), by name
(`Named`), without arguments (`Bool`, `Bare`) and the deferred one (`Partial`). `SInt`,
`Bits`, `Fixed`, directions and `Flip` take the same paths and are left out.

The value of a constant is a u128 and a width a u64: `to_u64` makes the largest width of what
is larger, without an error, and every width and size goes through it. `MaxWidth` is that
largest width. `ConstWidthsExact` says that a width is the value of its constant, or
`MaxWidth` if the value is larger; it is never a smaller one.

### `TypeChecker` and `ConstEval`

`TypeChecker` is `check.rs` over all expressions and the statements that use them.
`check_expr` returns a type for each expression; the model goes through a program in the
order of those returns, operands before operators, and keeps the types that were returned
and not yet used on a `stack`. An action is one arm of `check_expr` (`Literal`, `Ident`,
`Deferred`, `RangeExpr`, `Wrap`, `Unary`, `Binary`, `IfExpr`, `Index`, `BitSlice`,
`ArrayLiteral`) or one use of an expression by a statement (`Assign`, `Condition`,
`RegClock`, `RegReset`, `Discard`), with all it computes and pushes. `BitAnd`, `Shr`, `Eq`
and `Lt` stand for the operators that share their arm. An error has the number of the step
that pushed it in place of a span, so that the errors within an expression are known.

The rules are operators with the names of the functions: `max_width`, `sum_width`,
`same_kind_with_width`, `check_type_compatibility`, `resolve_target_type` and so on. Widths
wrap at `Word`, as in the release build (the debug build panics there instead). Names are
looked up nowhere: a name is its type, or `Error` when nothing declares it. All types of
`types.rs` are there, memories among them, but none more than one array, memory or direction
deep: no array of arrays.

An expression also has the value `ConstEval` gives it without bindings, which is how the
checker finds the amount of a static shift. `ConstEval` has the operators of `eval.rs` as
functions of the values of the operands, with the sizes of u32, u64 and u128 in proportion
(`HalfWord`, `Word`, `Big`) and the smallest of them open.

For the properties each expression carries what the language says of it: `need`, its width
by section 2.2 of the language design on unbounded integers; `fams`, the families of the
numbers in it; and `gaps`, by name, the ways in which the checker gives up knowing one or
the other. `FamiliesKept` and `WidthsKept` state what an accepted assignment guarantees,
`FittingAccepted` that one whose value has no gap, the family of the signal and exactly
its width is accepted. `WidthsKept` is one half of what section 2.2 asks: nothing is
truncated. That every mismatch is an error, as it goes on, is not so: a narrower `UInt` or
`SInt` passes (see below). The list of gaps is what a reader should take away: a literal
without a width, a literal before an operator, a power, a slice or a shift by a named
constant, a shift of what is no vector, a `Fixed` with a literal, a name that has no bits
(of a module, a struct, `Void`, an empty array), an array literal with different elements,
a width of 2^64 or more, and everything that is not typed at all. The names without bits
came out of a proof that failed: `Void` names concatenated are `Bits` of width 0, which
every `Bits` accepts.

### `Analysis`

`Analysis` is `analyze`: it extends `Resolver`, and when the resolver is done with the file
it walks the program that has been chosen twice more, as `check.rs` and `validate.rs` do.
The resolver's table and scope map stay as they were left; what is new is the walk (`pass`,
`next`, `walked`) and `current`, the `current_scope` of the pass. `EnterModule` and
`LeaveModule` are `enter_scope` and `restore_scope` in their callers, `LookUp` is a name in
a statement with what the pass says about it (`check_immutability`), `NextPass` the next
line of `analyze`. Which modules and statements the walk comes to (`WalkedModule`,
`WalkedStatement`) is the recursion of `check_item`, `check_module` and `check_stmt`.

`found` is history: which declaration each lookup returned. `UsesFindDeclarations` compares it
with lexical scoping on the program (`Means`), and names the one exception: a name declared
by a `for` around it, whose scope is in no map, is looked up in the module around the `for`.

### The `Proofs` modules

`LexerProofs`, `IndentationProofs`, `ParserProofs`, `ResolverProofs`, `AnalysisProofs`,
`TypeCheckerProofs` and `ValidatorProofs` extend the modules they are named after.
`AnalysisProofs` extends `ResolverProofs` too, whose invariant the later passes rely on.
`Induction` has what several of them need: induction, and how often something occurs in a
sequence.

### The `MC` modules

`MCLexer`, `MCIndentation`, `MCParser`, `MCResolver`, `MCAnalysis`, `MCValidatorTrees` and
`MCTypeChecker` extend the modules they are named after (`MCParser` extends `ParserTrees`)
with model values and the small sets the `.cfg` files need.

## Runs

Only `Parser` assumes fairness, `WF_vars(Next)`, and only for `Terminates`: `parse` is one
call on one thread, its tokens are all there before it starts, and nothing it does waits.
So as long as it has a step to take it takes one; whether that ever comes to an end is
what the property asks. The other walks are loops over finite trees and texts, and their
properties are safety properties. `CHECK_DEADLOCK` is off because every walk ends.

| Run | Shows | Bounds |
|---|---|---|
| `lexer` | no line end is lost but a lone `\r` in a line comment, comments nest, literals have their value | all texts of up to 6 characters after an opener (comments), 5 (comments, with `\r`), 4 (mixed, with `\r`), up to 5 digits after a base, values of 4 bits |
| `indentation` | level stack, balance, line starts, refinement | 5 lines, levels 0, 2, 4 (as spaces and as a tab), 6 (mixed) |
| `comment_lines` (violation) | a comment-only line opens a block | 4 lines |
| `parser` | delimiters and angles, blocks, trees, termination | 50 scenes: a prefix that leads to a construct, an alphabet of 3 to 11 tokens (26 for the operators), 5 to 11 more tokens and line starts, up to 3 open blocks |
| `generic_defaults`, `wildcard_arm` (violations) | two disagreements of the parser with its comment and the language design | one scene each |
| `resolver_scopes` | lexical lookup, accounting of declarations, refinement | 2 names (symmetric); modules, functions, loops and bodies with 4 declarations or constructs, the other declarations with 3 |
| `shadowed_constants` (violation) | a constant outlives its scope | 4 declarations or constructs |
| `analysis` | widths that name constants, no silent `Error` types; the later passes' walks, lookups and reports | six profiles: types and constants with 3 declarations, sizes with 2, uses of 2 names and of nested constructs with 4, loops and lets with 5; constants 1 and 3 where the largest width is 2 |
| `undefined_names` (violation) | an undeclared name in a statement is reported by no pass | the profile of uses of 2 names |
| `validator` | soundness and exactness of the latch analysis, reset coverage, ports, constants; the walk agrees with the recursive functions | an `out` port and a constant of unresolved type, 5 constructs or assignments, depth 4 |
| `type_checker` | families and widths of accepted assignments, acceptance of fitting ones, explained errors | names of 13 types, a literal, 12 whole and partial targets, 6 leaves, operators and statements, words of 9 |

Why the bounds are enough. *Lexer*: delimiters of comments touch within four characters,
and six more after the first opener let comments open four deep, or two deep and close;
with 4-bit values every width 0 to 4, one above, and every value around 2^width is
written; a line comment, a `\r`, a token and a `\n` fit in five; the proofs remove the
bounds. *Indentation*: the pass compares the line with the stack; three levels above the
file's and five lines reach every relation of a line to a stack of depth up to four, a
dedent over all levels among them, and the proofs remove the bound. *Parser*: each scene
starts inside one construct, so the tokens are spent on what it may be followed by: every
function of the grammar is called in some scene, every loop goes round at least twice in
one, lists span lines and nest, and expressions of two operators, five tokens, meet each
pair of precedences; for delimiters and blocks the proofs remove the bound, for trees and
termination there is none. *Resolver* and *Analysis*: shadowing needs two scopes, a
duplicate two declarations and a stale scope a construct that was left; four constructs
reach a declaration after leaving a scope in a scope, and a use after that makes five; a
width is below, at or above the largest; the proofs remove these bounds. *Validator*: a
latch needs a name assigned in one branch and not in another; depth 4 puts a branch in a
branch in a comb block in a module, and the second name tells a set from its members; here
too the proofs remove the bound. *Type checker*: a type is lost in one operator and used
in the next, so three leaves, two operators and an assignment (six steps) reach each pair
of operators; three operands are as wide as the word; the proofs are for every word,
nesting, and set of names and targets.

Each property of a passing run has a mutant: a variant of a definition, kept next to it in
the module and commented as such, that a plausible bug would produce and that the property
catches.

## What the runs found

The code disagrees with its documents in five places that a run shows; `PROJECT.json`
has the quotations.

* A comment-only line shifts the block structure (`lexer/indent.rs:18`).
* The `>` after the default of a generic parameter is taken for a comparison
  (`parser/types.rs:204`).
* A match arm `_ => ...` does not parse (`parser/expr.rs:411`).
* A constant outlives its scope in the widths of types (`sema/resolve.rs:412`).
* An undeclared name in a statement is reported by no pass (`sema/check.rs:432`).

More are plain from the code and have no run of their own.

* *Tokens.* Statements need nothing between them, so `0b12` is `0b1` and a statement `2`;
  don't-care digits beyond the width of a literal are accepted (`2'b???`). A lone `\r` is a
  line end to `lex` (`lexer/lex.rs:17`) and to the indentation pass, but not to a line comment
  (`lexer/token.rs:329`, `333`): in `// c\rx = y` the assignment is part of the comment.
* *Parser.* A prefix operator binds tighter than a postfix one: `-a.b` is the field of a
  negation (`parser/expr.rs:175`), while the plan has postfix operators at the highest priority
  (`docs/superpowers/plans/2026-03-10-phase2-parser-ast.md:119`). `a..b..c` is taken from the
  left (`parser/expr.rs:27`), while the plan's table has ranges as non-associative (`:112`).
  `TreeIsPrecedence` excepts these two by name. `>>>` closes no three lists;
  a second `on reset`, `on tick`, `otherwise`, `stall_when` or fsm section silently
  replaces the first (`parser/stmt.rs:179`); doc comments, attributes and `pub` are dropped
  before items that have no place for them; the `property` of an interface cannot be reached
  because the word is a keyword.
* *Resolver.* A width that is 2^64 or more is clamped to 2^64 - 1 in silence
  (`sema/resolve.rs:27`). Generic parameters cannot be used in their module
  (`sema/resolve.rs:150`); a partial interface type is `Error` in silence
  (`sema/resolve.rs:543`); `let` is not block-scoped in branches (`sema/resolve.rs:303`).
* *Type checker.* A narrower `UInt` or `SInt` may be assigned to a wider one
  (`sema/check.rs:345`), while "Width mismatches are always compile errors"
  (`docs/superpowers/specs/2026-03-10-siliconscript-language-design.md:276`) and "Narrower
  → wider" needs `zero_extend` or `sign_extend` (`:347`) outside `unchecked` (`:323`).
  `Bool` and `UInt<1>`, which convert to each other by sections 2.7 and A.1 (`:341`,
  `:782`), are refused for each other. A literal too large for its target is accepted,
  while 2.7 has "if value fits at compile time". A literal before an operator makes the
  result unsigned (`sema/check.rs:747`); a part of an input port may be assigned
  (`sema/check.rs:320`); a field as a target has the type of its object
  (`sema/check.rs:295`).
* *Validator.* Latches below `gen` are not reported (`sema/validate.rs:115`); partial
  assignments are not part of the latch analysis (`sema/validate.rs:320`); a port driven by
  a `gen` item or by an instance is reported as undriven (`sema/validate.rs:93`); `priority`
  with `otherwise` counts as not assigning (`sema/validate.rs:494`).

The passing properties state what holds beside these: `FlawsReported` excepts exactly the
first two of the validator's, `ExactLatchReports` speaks of blocks without a `priority`
that has an `otherwise` and without a `for`, `match` or `parallel` that takes a branch for
certain though the code cannot tell, `ErrorTypesReported` excepts partial interfaces,
`UsesFindDeclarations` the names of a `for`, `ConstWidthsExact` has the clamp,
`TokensCoverText` the lone `\r`, `TreeIsPrecedence` its two kinds of texts, and
`FamiliesKept` and `WidthsKept` name their gaps. Narrower values, which `WidthsKept` lets
pass, are truncated nowhere.

## Proofs

The theorems are about the specifications as they stand, for all values of the constants
that satisfy the named assumptions. An assumption says no more than what a constant is:

| Module | Assumptions |
|---|---|
| `Lexer` | texts are sequences of characters (`TextsAssumption`); a value has some bits (`BitsAssumption`; in the code 128) |
| `Indentation` | widths are pairs of numbers, the number of lines is one (`WidthsAssumption`, `MaxLinesAssumption`) |
| `Parser` | a scene begins with tokens, the end not among them and no block closed that was not opened; its alphabet is of tokens other than layout; its bounds are numbers (`ScenesAssumption`) |
| `Resolver`, `Analysis` | capitalised names are names, widths and the largest width are numbers, profiles are finitely many and each bounds a program (`CapitalisedAssumption`, `WidthsAssumption`, `ProfilesAssumption`) |
| `TypeChecker`, `ConstEval` | names, targets, bounds and literals are such (`NameTypesAssumption`, `TargetsAssumption`, `BoundsAssumption`, `LiteralsAssumption`, `MaxSizeAssumption`); half a word is 2 or more (`HalfWordAssumption`; in the code it is 2^32) |
| `Validator` | the special names are names, the bounds numbers (`NamesAssumption`, `BoundsAssumption`) |

A bound on the size of programs is a constant too, so a theorem holds of programs of any
size: each run of the code is one behaviour of the specification for some bound.

| Module | Theorem | Property |
|---|---|---|
| `LexerProofs` | `TypeCorrect`, `TextIsCovered`, `CommentsAreNested` | `TypeOK`, `TokensCoverText`, `CommentsNest` |
| | `NumbersAreAsWritten` | `NumbersAsWritten` |
| `IndentationProofs` | `TypeCorrect`, `StackCorrect`, `TokensCorrect` | `TypeOK`, `StackIsOpenLevels`, `TokensBalanced` |
| | `ParserIsFed` | `FeedsParser` (every step) |
| | `IndentationImplementsOffside` | `ImplementsOffsideRule` (refinement) |
| `ParserProofs` | `DelimitersMatch`, `BlocksMatch` | `DelimitersAgree`, `BlocksAgree` |
| `ResolverProofs` | `TypeCorrect`, `DeclarationsAreAccounted` | `TypeOK`, `DeclarationsAccounted` |
| | `WidthsAreExact`, `ErrorTypesAreReported` | `ConstWidthsExact`, `ErrorTypesReported` |
| | `LookupAlwaysLexical` | `LookupIsLexical` |
| | `ResolverImplementsScopes` | `ImplementsLexicalScopes` (refinement) |
| `AnalysisProofs` | `WalksAreCorrect`, `UsesAlwaysFindDeclarations` | `WalkOK`, `UsesFindDeclarations` |
| | `ConstantsAreProtected`, `TableStaysCorrect` | `ConstantsProtected`, `ErrorTypesReported` |
| `TypeCheckerProofs` | `ErrorsAreExplained`, `FittingIsAccepted` | `ErrorsExplained`, `FittingAccepted` |
| | `FamiliesAreKept`, `WidthsAreKept` | `FamiliesKept`, `WidthsKept` |
| `ValidatorProofs` | `WalkTypeCorrect`, `DefiniteCorrect` | `TypeOK`, `DefiniteOnEveryPath` |
| | `ReportingComplete`, `LatchReportsExact` | `FlawsReported`, `ExactLatchReports` |

The inductive invariants, and why the stated ones do not do by themselves:

* **Lexer.** `IInv` is `Where` (which position goes with which status), `Tokens` (they
  follow each other, each within the text), `Covered` (what no token covers is blank),
  `InComment` and `Ended`. Tokens and cover are an induction along the text: `PushKeeps` is
  the one step. `CommentsNest` compares a loop with a definition that has none: of the
  places where a delimiter can be read, `Delimiters` chooses those that no chosen one
  overlaps. That there is such a choice (`ChoiceExists`) and only one (`ChoiceUnique`), and
  that it depends on nothing further on (`DelimitersOfPrefix`), are lemmas about texts.
  `InComment` says that the loop stands where it has read exactly the chosen delimiters
  before it, with as many openers ahead of closers as `depth`.
* **Numbers.** `NInv` is a second invariant on top: each number token fits (`NumberFits`),
  and a number was refused rightly. What matters is in the lemmas about texts.
  `from_str_radix` and `dont_care_mask` read from the left, `Positional` and `DontCares`
  weigh a digit by those behind it; the value read so far, times the base to the number of
  digits behind, is the sum so far (`HornerStep`), and the mask moves bit by bit until all
  beyond `Bits` are lost. Since values only grow, a value that passes the limit never comes
  back below it, which is why the checked loop fails exactly if the sum is too large.
  `Stripped` drops the gaps and keeps the order, so what is behind a digit stays the same.
  That a literal stops before no character it could take is the longest match: with that
  character the pattern would have matched (`LongerNumber`).
* **Indentation.** `IInv` is `TypeOK`, `StackIsOpenLevels`, that the stack grows strictly
  (`StackSorted`) and that the pop loop stops somewhere (`LoopStops`). `StackIsOpenLevels`
  alone is not inductive: the set of levels does not say in which order they are on the
  stack, and popping acts on the order. The key lemma is `OpenLevelsAppend`, what one more
  line does to the open levels. `TokensCorrect` adds the token counts, with lemmas about
  `Count` over concatenations; `IndentationImplementsOffside` maps each action to one of
  `OffsideRule`, where the number of popped levels is the number of deeper open levels
  because a strictly growing stack has no level twice (`OneToOne`). `ParserIsFed` says that
  what each action appends to `result` is one of the line starts of `Layout`, which is what
  lets `Parser` draw its lines from there.
* **Parser.** The proof of `DelimitersAgree` is one of the grammar. `Due` of the stack is
  computed symbol by symbol, so each function is judged by what its body does to what is
  due behind it: it is `Whole` if it leaves that alone, `Owes` a closer if it takes one
  away, `Asks` for one if it adds it. These compose along sequences (`Composition`), and
  with one lemma for each function of the grammar they give `Rules`: every body is whole,
  but for the sections of an fsm, which ask for their Dedent themselves. Since symbols hold
  symbols (what an option goes on with, what a loop repeats), this is said of the stack as
  sequences over a closed set of symbols (`Proper`), one in which every symbol's parts are
  sound too; it takes the place of an induction over symbols. `DInv` is that the stack is
  proper and `DelimitersAgree` holds; each action then either replaces the symbol at the top
  by what is due for the same closers (`ReplaceStep`, `OpenStep`) or consumes the closer due
  (`BracketStep`); a `>>` closes the list that is due and leaves the `>` that the next one
  asks for (`AngleStep`). For `BlocksAgree` the invariant `IInv` adds what no single state shows:
  that the depth of the line at the cursor is the number of Dedents in `open` plus
  `swallowed` (`LinesAgree`), that nothing follows the end (`EndIsLast`), that the loop over
  the items is what is done last (`FileIsLast`), and so that the parser can only finish at
  the end of the file, where nothing is open and the depth is 0 (`NothingSwallowed`).
* **Resolver.** `IInv` is `TypeOK` and `DeclarationsAccounted` with `Nested` (the stacks
  grow), `VariantsCounted`, `Linked` (a symbol is found under its name in the scope it says
  it is in) and `Owned` (each scope belongs to a construct, later scopes to later
  constructs, and is on the stack as long as the construct is open). Each action is shown
  to be one of a few kinds of step on the arena (`DeclareStep`, `QuietStep`, `EnterScope`,
  `Leave`). `History` (`Bound`, `ErrorTypesReported`, `ConstWidthsExact`) is a second
  invariant on top, about values and errors.
* **Scoping.** `LookupAlwaysLexical` follows a chain of parents and a chain of blocks at
  once: `AroundStep` and `VisibleAround` unfold the definition on the program, and an
  induction along the parents compares it with `lookup`. `ResolverImplementsScopes`
  gives each kind of step the one of `LexicalScopes` it is (`ScopesNext`); that what was
  left never changes is where `Owned` is needed.
* **Analysis.** Three layers, each using the one below. `Shaped`: the program is a tree, a
  construct holds an interval of positions, and stands where the grammar lets it, so that
  each statement walked has one module around it whose scope is in the map. `WInv`: the
  walk has entered exactly the walked modules around where it is, outermost first, and each
  keeps the scope outside it. `RInv`: what was looked up and reported is what the walk has
  come by. `UsesFindDeclarations` is `RInv` and `LookupIsLexical`.
* **Type checker.** `IInv` is `TypeOK`, `Ordered` (the expressions on the stack begin one
  after the other) and `Sound`: an expression without an error within it, and with nothing
  untyped in it, is `Good`, which relates its type to `need`, `fams` and `gaps`. Each rule
  has a lemma, named after it and ending in `Good`: from good operands it makes a good
  expression or pushes an error. `ReturnKeeps` does the bookkeeping of the walk once for
  all rules: the errors within an expression are those of its operands and its own.
  A good expression without gaps has a type exactly as wide as `need`, which gives
  `FittingIsAccepted`.
* **Validator.** `IInv` is `TypeOK`, an invariant of each frame, and `FlawsReported`. The
  frame invariant relates the code's sets to the paths: what is in `def` is on every path
  and what is on a path is collected, a partial assignment or in a gap (`BranchInv`,
  `EarlierInv`), and in an exact frame a name not in `def` is missing on some path
  (`ExactInv`). Without `EarlierInv` the step that leaves an `if` cannot be made: what the
  earlier branches did is known through `ends` and `earlier` only. `AbsorbInv` is that step,
  for every kind of construct at once. `DefiniteCorrect`, `ReportingComplete` and
  `LatchReportsExact` follow.

`Induction` has the induction they share. The provers cannot instantiate a theorem that
takes an operator, so it starts from the well-foundedness of the naturals: a set of
numbers that is not empty has a least one (`Least`), so what each number inherits from the
smaller ones holds of all (`Below`), and a function given at 0 and computed elsewhere from
its value at a smaller number exists (`Descent`), as does one computed step by step along
a sequence (`StepsExist`, `Recursion`). Recursion in the modules that are proved about
(`lookup`, `Around`, `Enclosing`, `DueBefore`, `Pow`, `from_str_radix`) is therefore
written as recursive functions.

Three conditionals of `Parser`, `Grammar` and `ExpressionTrees` had arms that overlapped, so
that their value was whichever arm the choice fell on: TLC takes the first, a proof may not.
The proofs of the parser showed it, and the arms are disjoint now.

Model-checked only:

* `Terminates` of `Parser`: liveness is out of the prover's reach.
* `TreeIsPrecedence` of `ParserTrees` and `WalkAgrees` of `ValidatorTrees`: what a recursive
  definition computes for every input is an induction over data, and the prover does not
  take modules with RECURSIVE operators.

## Not modelled

* The automaton that `logos` generates (the longest match stands for it), keywords, and the
  operators that no other pattern begins like.
* What the parser builds for types, statements and items; it is built as it is consumed,
  and what is dropped on the way is listed above.
* The command line: it reads one file, calls the passes in order and prints.
* Typing and lookup together: `TypeChecker` has every expression but no scopes, `Analysis`
  scopes and names but no types.
* Constants that are floats or strings, and types nested more than one deep.
* Wording and spans of errors, except the order and identity that spans give declarations.
* Statements and items that no pass looks into (imports, tests, the bodies of fsm and
  pipeline items), beyond their syntax.

## Plan

Everything that is modelled is checked, and everything that is checked is proved but
`Terminates`, `TreeIsPrecedence` and `WalkAgrees`. What might come next:

1. `TreeIsPrecedence` and `WalkAgrees`: the trees and the recursive functions on them as
   functions over the positions of a text, as `Due` and `Around` are, so that an induction
   along the positions can take the place of one over trees.
2. The bodies of fsm and pipeline items, once a pass looks into them.
