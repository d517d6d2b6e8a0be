CONSTANTS
  Decl <- MCDecl
  Types <- MCAllTypes
  Programs <- MCPrograms
  Alphabet <- MCAlphabet
  CheckedIn <- AkasarGen
SPECIFICATION Spec
INVARIANTS VerdictRight Closed Dispatch RoundTrip UpToDate
CHECK_DEADLOCK FALSE
