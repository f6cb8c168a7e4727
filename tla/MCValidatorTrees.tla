--------------------------- MODULE MCValidatorTrees ---------------------------
(***************************************************************************)
(* Every program of a few constructs over two names, walked and recorded.  *)
(***************************************************************************)
EXTENDS ValidatorTrees

CONSTANTS a, k

Both == {a, k}
JustA == {a}
JustK == {k}

================================================================================
