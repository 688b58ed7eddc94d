SPECIFICATION Spec
CONSTANTS
  Names <- FewNames
  Asked = {"", "all", "kchain", "nosuch"}
  Requests <- MCRequests
  MaxQueryDepth = 3
  MaxTopFields = 2
  MaxQuery = 60
INVARIANTS TypeOK AnsweredAsWritten TruncatedRefused
PROPERTY ScanAdvances
CHECK_DEADLOCK FALSE
