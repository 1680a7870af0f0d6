\* One press at a time, one seller, one approver; two prices below the floor.
SPECIFICATION Spec
CONSTANTS
  Sellers = {s1}
  Approvers = {a1}
  Settings <- MCSettings
INVARIANTS
  OneDocument
  NothingForgotten
  RecordIsTrue
  SentAsShown
  OutcomeFollows
CHECK_DEADLOCK FALSE
