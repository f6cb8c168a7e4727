----------------------------- MODULE LexicalScopes -----------------------------
(***************************************************************************)
(* Lexical scoping, as a programmer knows it: a stack of blocks, each with *)
(* the declarations made in it so far.  A declaration is its position in   *)
(* the source, 0 for none.  What a block that belongs to a name declares   *)
(* when it is left is what it declares ever after.                         *)
(***************************************************************************)
EXTENDS Naturals, Sequences

CONSTANTS
  Names,
  Positions              \* positions in the source, numbers from 1

VARIABLES
  env,                   \* the open blocks' declarations, the file's first
  left,                  \* the blocks left: where they began, what they declare
  refused                \* declarations of a name its block already declares

vars == <<env, left, refused>>

Empty == [x \in Names |-> 0]

Init == env = << Empty >> /\ left = {} /\ refused = {}

Innermost == env[Len(env)]
Enclosing == SubSeq(env, 1, Len(env) - 1)

\* The stack with `x` declared at k in the innermost block, if that is free.
Declared(x, k) ==
  IF Innermost[x] = 0 THEN Append(Enclosing, [Innermost EXCEPT ![x] = k]) ELSE env

Refuse(x, k) ==
  refused' = IF Innermost[x] = 0 THEN refused
             ELSE refused \union {[first |-> Innermost[x], second |-> k]}

Declare(x, k) ==
  env' = Declared(x, k) /\ Refuse(x, k) /\ UNCHANGED left

\* A block that belongs to the name it follows, declared outside it.
OpenNamed(x, k) ==
  env' = Append(Declared(x, k), Empty) /\ Refuse(x, k) /\ UNCHANGED left

\* A block that declares its own name.
OpenLoop(x, k) ==
  env' = Append(env, [Empty EXCEPT ![x] = k]) /\ UNCHANGED <<left, refused>>

\* Leaving the block that began at k, or one that nothing is kept of (k = 0).
Close(k) ==
  /\ Len(env) > 1
  /\ env' = Enclosing
  /\ left' = left \union (IF k = 0 THEN {} ELSE {[at |-> k, names |-> Innermost]})
  /\ UNCHANGED refused

Next ==
  \/ \E x \in Names, k \in Positions : Declare(x, k) \/ OpenNamed(x, k) \/ OpenLoop(x, k)
  \/ \E k \in {0} \union Positions : Close(k)

Spec == Init /\ [][Next]_vars

================================================================================
