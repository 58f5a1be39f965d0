\* Up to three rows of two kinds, with and without characters that do not come
\* through.
SPECIFICATION Spec
CONSTANTS
  None = None
  Kind = {k1, k2}
  Serial <- MCSerial
  NoSerial <- MCNoSerial
  Listed <- MCListed
  Ruled <- MCRuled
  Plain <- MCPlain
  MaxRows = 3
  MaxEntries = 4
INVARIANTS
  TypeOK
  SelectionKept
  RulesMatchSelection
  TerminalRestored
\* The editor ends.
CHECK_DEADLOCK FALSE
