-------------------------------- MODULE MCLexer --------------------------------
(***************************************************************************)
(* Every short text over three alphabets: what comments are made of, what  *)
(* numbers are made of, and a mixture.                                     *)
(***************************************************************************)
EXTENDS Lexer

CommentTexts ==
  {<<"/", "*">> \o s : s \in BoundedSeq({"/", "*", "newline"}, 6)}
    \union BoundedSeq({"/", "*", "newline", "return", "a"}, 5)

Sized ==
  {w \o <<"'", base>> \o s :
    w \in {<<"0">>, <<"1">>, <<"3">>, <<"4">>, <<"1", "0">>},
    base \in {"b", "h", "d"},
    s \in BoundedSeq({"0", "1", "2", "b", "_", "?"}, 3)
           \union BoundedSeq({"1", "?"}, 5)}

Unsized ==
  {p \o s :
    p \in {<<>>, <<"0", "x">>, <<"0", "b">>},
    s \in BoundedSeq({"0", "1", "2", "b", "_"}, 4)}

Mixed == BoundedSeq({"/", "a", "1", "blank", "quote", "newline", "return", "_"}, 4)

ShortTexts == CommentTexts \union Sized \union Unsized \union Mixed

================================================================================
