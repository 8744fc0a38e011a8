CONSTANTS
  Requests <- MCRequests
  CustomDecisions <- MCCustomDecisions
  Word <- MCWord
SPECIFICATION Spec
CHECK_DEADLOCK FALSE
INVARIANTS
  AcceptedIsEligible
  SelectsBest
  DeterministicIsAccepted
