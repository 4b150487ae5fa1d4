SPECIFICATION Spec
CONSTANTS
  Client = {c1, c2}
  chat = chat
  user = user
  all = all
  Topic <- MCTopic
  Pattern = {all}
  Matching <- MCMatching
  Nobody = Nobody
  NoSub = NoSub
  Wishes <- MCWishes
  Publisher = {c2}
  Published = {"data"}
  MaxTopics = 1
  MaxPerClient = 2
  MaxSubs = 3
  MaxEvents = 1
INVARIANTS
  TypeOK
  TablesAgree
  EverySubscriberIsServed
  NothingAfterUnsubscribe
PROPERTIES
  HandlersEnd
CHECK_DEADLOCK FALSE
