CONSTANTS
  Brokers = {"redis", "mqtt", "nats"}
  Sends = {"s1", "s2"}
  Events = {"e"}
  Services = {{"s1", "s2", "e"}, {"s2"}}
  Untimed = {"s2"}
  MaxConnects = 2
  MaxLost = 1
SPECIFICATION Spec
INVARIANTS AnswersAreHeard
PROPERTIES EverySendSettles KeepsPromise
CHECK_DEADLOCK FALSE
