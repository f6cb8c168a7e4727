-------------------------------- MODULE MCParser --------------------------------
(***************************************************************************)
(* The scenes of the runs.  Each begins a file where some functions of the *)
(* grammar start their work and goes on with every stream of the tokens    *)
(* these functions tell apart; "Newline" is drawn in all of them.          *)
(***************************************************************************)
EXTENDS ParserTrees

Scene(prefix, alphabet, size, deepest) ==
  [prefix |-> prefix, alphabet |-> alphabet, size |-> size, deepest |-> deepest,
   recorded |-> FALSE]

Recorded(alphabet, size) ==
  [prefix |-> <<>>, alphabet |-> alphabet, size |-> size, deepest |-> 0, recorded |-> TRUE]

NewBlock == <<"Newline", "Indent">>

\* Expressions: every pair of operators, prefix operators and brackets, postfix
\* operators and calls, pipes; then the atoms that contain expressions.
ExpressionScenes ==
  {
    Recorded({"id", "|>"} \union Infix, 5),
    Recorded({"id", "not", "-", "+", "**", "(", ")"}, 6),
    Recorded({"id", ".", "(", ")", "-"}, 6),
    Recorded({"id", "[", "]", "(", ")", ",", "="}, 6),
    Recorded({"id", "num", "|>", "(", ")", "+"}, 6),
    Scene(<<"id", "=">>,
          {"if", "then", "else", "id", "+"}, 8, 0),
    Scene(<<"assert", ":", "next", "(">>,
          {"next", "eventually", "(", ")", ",", "id", "="}, 6, 0),
    Scene(<<"assert", ":", "eventually", "(">>,
          {"next", "eventually", "(", ")", ",", "id", "="}, 6, 0),
    Scene(<<"id", "=", "[">>,
          {"[", "]", ",", "num", "+", "("}, 6, 1) }

\* Types: generics closed by `>` and `>>`, expressions among their arguments, the
\* built-in types, partial interfaces, generic parameters.
TypeScenes ==
  {
    Scene(<<"signal", "id", ":">>,
          {"Type", "id", "<", ">", ">>", ",", "[", "]"}, 7, 0),
    Scene(<<"signal", "id", ":", "Type", "<">>,
          {"num", "==", "+", ">", ">>", ",", "<", "implies"}, 5, 0),
    Scene(<<"signal", "id", ":", "Clock">>,
          {"<", ">", ">>", ",", "rising", "num", "."}, 6, 0),
    Scene(<<"signal", "id", ":", "Memory", "<", "Type">>,
          {"id", "=", "num", ",", ">", ">>"}, 7, 0),
    Scene(<<"signal", "id", ":">>,
          {"Flip", "in", "SyncReset", "active_high", "Type", "<", ">", ">>"}, 6, 0),
    Scene(<<"signal", "id", ":", "Type">>,
          {".", "{", "}", "id", ",", "@", "="}, 6, 1),
    Scene(<<"type", "Type", "<">>,
          {"id", ":", "uint", "=", "num", ",", ">"}, 8, 0) }

\* Statements: declarations, blocks in blocks, arms, sections.
StatementScenes ==
  {
    Scene(<<>>,
          {"signal", "let", "const", "type", "id", "Type", ":", "=", "@"}, 7, 0),
    Scene(<<"if", "id", ":">> \o NewBlock \o <<"id">>,
          {"elif", "else", "id", ":"}, 9, 2),
    Scene(<<"comb", ":">>,
          {"if", "else", "comb", "id", ":"}, 8, 2),
    Scene(<<"for", "id">>,
          {"in", "id", ":", "for"}, 11, 2),
    Scene(<<"match", "id", ":">> \o NewBlock \o <<"id">>,
          {"id", "=>", ":"}, 8, 3),
    Scene(<<"reg", "(", "id">>,
          {"id", ",", ")", "=", ":"}, 7, 0),
    Scene(<<"reg", "(", "id", ",", "id", ")", ":">> \o NewBlock \o <<"on">>,
          {"on", "reset", "tick", "id", ":"}, 9, 2),
    Scene(<<"priority", ":">> \o NewBlock,
          {"when", "otherwise", "=>", "id"}, 9, 1),
    Scene(<<"parallel">>,
          {"(", ")", "id", "=", ":", "when"}, 7, 1),
    Scene(<<"parallel", ":">> \o NewBlock,
          {"when", "=>", "id"}, 9, 1),
    Scene(<<>>,
          {"assert", "assume", "always", "cover", "static_assert", "@", ":", ",", "id"}, 6, 0),
    Scene(<<>>,
          {"unchecked", ":", "(", ")", "id"}, 6, 1) }

\* Items: port lists that begin and end at different depths, members, fsm and
\* pipeline sections, gen branches, attributes.
ItemScenes ==
  {
    Scene(<<"module", "id", "(", "in", "id", ":", "Type">>,
          {",", "in", "doc", "id", ":", "Type", ")", "@"}, 8, 1),
    Scene(<<"module", "id", "(", "in", "id", ":", "Type">>,
          {")", ":", ",", "id", "@"}, 8, 2),
    Scene(<<"module", "id", "(">> \o NewBlock \o <<"in", "id", ":", "Type">>,
          {",", ")", ":", "id", "inst"}, 7, 2),
    Scene(<<"module", "id", "(">> \o NewBlock \o <<"in", "id", ":", "Type", ")", ":">> \o NewBlock \o <<"inst", "id", "=", "id", "(">>,
          {",", ")", ":", "id", "="}, 6, 2),
    Scene(<<"inst", "id", "=", "id">>,
          {"<", ">", "(", ")", "id", "=", "->", "<->", "_", ","}, 6, 0),
    Scene(<<"inst", "id", "=", "id", "(">>,
          {")", "id", "=", "->", "<->", "_", ","}, 7, 1),
    Scene(<<"struct", "id", ":">> \o NewBlock,
          {"id", ":", "Type", "@", "[", "]"}, 8, 1),
    Scene(<<"enum", "id">>,
          {"[", "]", "binary", ":", "id", "="}, 7, 1),
    Scene(<<"interface", "id", ":">> \o NewBlock,
          {"group", "id", ":", "Type"}, 9, 2),
    Scene(<<"fn", "id", "(", "id", ":", "Type">>,
          {":", "id", ",", ")", "->", "Type", "<"}, 7, 1),
    Scene(<<"fsm", "id", "(", "id", ",", "id", ")", ":">> \o NewBlock \o <<"initial", ":", "id", "Newline">>,
          {"on", "tick", "states", "|", "encoding", "binary", "initial", "outputs", "=>", ":", "id"}, 6, 2),
    Scene(<<"fsm", "id", "(", "id", ",", "id", ")", ":">> \o NewBlock,
          {"states", "encoding", "initial", ":", "id"}, 6, 1),
    Scene(<<"fsm", "id", "(", "id", ",", "id", ")", ":">> \o NewBlock \o <<"initial", ":", "id", "Newline", "transitions", ":">> \o NewBlock,
          {"_", "id", "--", "(", ")", "timeout", "-->"}, 8, 2),
    Scene(<<"fsm", "id", "(", "id", ",", "id", ")", ":">> \o NewBlock \o <<"initial", ":", "id", "Newline", "transitions", ":">> \o NewBlock \o <<"id", "--", "(", "id", ")", "-->">>,
          {"id", "_", ":", "="}, 7, 3),
    Scene(<<"pipeline", "id", "(", "id", ",", "id">>,
          {",", "backpressure", "=", "auto", ")", ":", "input", "output", "id"}, 9, 1),
    Scene(<<"pipeline", "id", "(", "id", ",", "id", ")", ":">> \o NewBlock,
          {"input", "output", ":", "id", ","}, 7, 1),
    Scene(<<"pipeline", "id", "(", "id", ",", "id", ")", ":">> \o NewBlock \o <<"input", ":", "id", "Newline", "output", ":", "id">>,
          {"stage", "num", "str", "stall_when", ":", "id", ","}, 9, 2),
    Scene(<<>>,
          {"test", "import", "extern", "str", "{", "}", "from", "as", "id", ":"}, 7, 1),
    Scene(<<"extern", "module", "id", "(">>,
          {")", "@", "id", "(", "str", "in", ":", "Type"}, 7, 0),
    Scene(<<"gen", "for", "id">>,
          {"in", "id", ":", "gen"}, 6, 2),
    Scene(<<"gen", "if", "id", ":">> \o NewBlock \o <<"id">>,
          {"gen", "else", "if", "id", ":"}, 8, 2),
    Scene(<<>>,
          {"doc", "@", "pub", "id", "(", ")", "struct", ":"}, 7, 1) }

MCScenes == ExpressionScenes \union TypeScenes \union StatementScenes \union ItemScenes

\* The interface AXI4Lite of the language design, section A.19, its first group.
DefaultScenes ==
  { Scene(<<"interface", "Type", "<", "id", ":", "uint", "=", "num", ",",
            "id", ":", "uint", "=", "num", ">", ":">>
            \o NewBlock \o <<"group", "id", ":">> \o NewBlock,
          {"id", ":", "Type"}, 4, 2) }

\* The match of the plan of the semantic analysis, its last arm.
WildcardScenes ==
  { Scene(<<"match", "id", ":">> \o NewBlock \o <<"num", "=>", "id", "=", "num", "Newline">>,
          {"_", "num", "=>", "id", "="}, 6, 1) }
=================================================================================
