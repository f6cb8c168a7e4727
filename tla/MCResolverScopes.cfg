SPECIFICATION Spec
CONSTANTS
  A = A
  b = b
  Names <- Both
  Capitalised = {}
  Widths = {}
  MaxWidth = 2
  Profiles <- Scopes
INVARIANTS
  TypeOK
  LookupIsLexical
  DeclarationsAccounted
PROPERTY
  ImplementsLexicalScopes
SYMMETRY Alike
CHECK_DEADLOCK FALSE
