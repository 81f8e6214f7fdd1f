CONSTANTS
  Topics = {"att", "vote"}
  Callers = {"c1", "c2"}
  Msgs = {"m1", "m2"}
  TopicOf <- MCTopicOf
  ClassOf <- MCClassOf
  PartialTopics = {"vote"}
  Subscribable = {"att"}
  MaxSubs = 2
SPECIFICATION Spec
CHECK_DEADLOCK FALSE
INVARIANTS NoLeakedSubscription ReceivedOnce
PROPERTIES HooksReturn CloseReturns
