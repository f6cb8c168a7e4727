---------------------------- MODULE ValidatorTrees ----------------------------
(***************************************************************************)
(* sema/validate.rs as it is written, recursive functions over the syntax  *)
(* tree, and the walk of Validator recording the tree it walks: what the   *)
(* frames hold is what these functions return for the same program.        *)
(*                                                                         *)
(* A node is [node, names, total, branches]: its kind, the name it assigns *)
(* if it is an assignment to a name, whether it has an else, wildcard or   *)
(* otherwise, and its bodies (for a reg block on_reset and on_tick).       *)
(***************************************************************************)
EXTENDS Validator, SequencesExt

VARIABLE tree            \* the open constructs' nodes, the file's items first

Node(kind, names, total) ==
  [node |-> kind, names |-> names, total |-> total, branches |-> << <<>> >>]

-----------------------------------------------------------------------------

RECURSIVE collect_assigned(_)
collect_assigned(stmts) ==
  UNION { IF s.node \in Statements
            THEN UNION {collect_assigned(body) : body \in Range(s.branches)}
            ELSE s.names
          : s \in Range(stmts) }

RECURSIVE assigned_on_all_paths(_)
assigned_on_all_paths(stmts) ==
  UNION { LET sets == {assigned_on_all_paths(body) : body \in Range(s.branches)}
          IN  CASE s.node = "assign" -> s.names
                [] s.node \in {"comb", "unchecked"} -> UNION sets
                [] s.node \in {"if", "match"} /\ s.total ->
                     {x \in UNION sets : \A b \in sets : x \in b}
                [] OTHER -> {}
          : s \in Range(stmts) }

Raise(error, names) == {[error |-> error, name |-> x] : x \in names}

comb_errors(body) ==
  Raise("LatchInferred",
        (collect_assigned(body) \ assigned_on_all_paths(body)) \ ErrorTyped)

reg_errors(on_reset, on_tick) ==
  Raise("NoReset", (collect_assigned(on_tick) \ collect_assigned(on_reset)) \ ErrorTyped)

RECURSIVE validate_stmts(_)
validate_stmts(stmts) ==
  UNION { CASE s.node = "assign" -> Raise("InvalidAssignTarget", s.names \intersect Immutable)
            [] s.node \in Statements ->
                 UNION {validate_stmts(body) : body \in Range(s.branches)}
                 \union (IF s.node = "comb" THEN comb_errors(s.branches[1]) ELSE {})
                 \union (IF s.node = "reg" THEN reg_errors(s.branches[1], s.branches[2]) ELSE {})
            [] OTHER -> {}
          : s \in Range(stmts) }

RECURSIVE validate_module(_)
validate_module(body) ==
  Raise("UnconnectedPort", OutPorts \ collect_assigned(body))
  \union validate_stmts(body)
  \union UNION {validate_module(m.branches[1]) : m \in {i \in Range(body) : i.node = "module"}}

validate_file(items) == UNION {validate_module(i.branches[1]) : i \in Range(items)}

-----------------------------------------------------------------------------

\* The last branch of the node n with the statement s added.
Grown(n, s) == [n EXCEPT !.branches[Len(n.branches)] = Append(@, s)]

Leaf(s) == tree' = Append(Front(tree), Grown(Last(tree), s))

Enter(n) == tree' = Append(tree, n)

Leave == tree' = Append(SubSeq(tree, 1, Len(tree) - 2), Grown(tree[Len(tree) - 1], Last(tree)))

Branch(last) ==
  tree' = Append(Front(tree), [Last(tree) EXCEPT !.branches = Append(@, <<>>),
                                                 !.total = @ \/ last])

TInit == Init /\ tree = << Node("file", {}, FALSE) >>

TNext ==
  \/ \E x \in Signals :
       \/ Assign(x) /\ Leaf(Node("assign", {x}, FALSE))
       \/ AssignPart(x) /\ Leaf(Node("part", {}, FALSE))
       \/ Instance(x) /\ Leaf(Node("inst", {}, FALSE))
  \/ \E kind \in Statements, wild \in BOOLEAN :
       OpenStmt(kind, wild) /\ Enter(Node(kind, {}, wild))
  \/ \E kind \in Items : OpenItem(kind) /\ Enter(Node(kind, {}, FALSE))
  \/ \E last \in BOOLEAN : NextBranch(last) /\ Branch(last)
  \/ CloseStmt(FALSE) /\ Leave
  \/ CloseGen /\ Leave
  \/ CloseModule /\ Leave

TSpec == TInit /\ [][TNext]_<<vars, tree>>

(***************************************************************************)
(* While a construct is walked its frame holds what the recursive          *)
(* functions return for the part of it that is behind the walk, and when   *)
(* the file is done the errors are those of validate_file                  *)
(* (validate.rs:51-506).                                                   *)
(***************************************************************************)
WalkAgrees ==
  /\ \A i \in DOMAIN frames :
       LET n == tree[i + 1]
           body == n.branches[Len(n.branches)]
       IN  /\ frames[i].all = collect_assigned(body)
           /\ frames[i].def = assigned_on_all_paths(body)
           /\ Collected(frames[i]) = UNION {collect_assigned(s) : s \in Range(n.branches)}
  /\ frames = <<>> => errors = validate_file(tree[1].branches[1])
================================================================================
