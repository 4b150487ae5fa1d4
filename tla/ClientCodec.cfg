SPECIFICATION Spec
CONSTANTS
  Base = 11
  String <- MCString
  Payload <- MCPayload
  Seqs <- MCSeqs
  Refused = Refused
INVARIANTS
  TypeOK
  RequestsArrive
  NothingElseArrives
  AnswersArrive
  TornAnswersAreRefused
  EventIsNoAnswer
CHECK_DEADLOCK FALSE
