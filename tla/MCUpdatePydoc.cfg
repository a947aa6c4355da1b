SPECIFICATION Spec
CONSTANTS
  BREAK = BREAK
  Malformed = Malformed
  Args = Args
  Colon = Colon
  Compounds <- MCCompounds
  Xml <- MCXml
  Indexes <- MCIndexes
  Filter <- Ns
  Templates <- MCTemplates
  Octal = {"16QAM"}
  Digits = {"8PSK"}
  Closing = {"(frames)", "(chosen)"}
INVARIANTS
  NothingLost
  PlaceholdersFilled
CHECK_DEADLOCK FALSE
