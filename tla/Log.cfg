\* Three requests to start or stop the log.
SPECIFICATION Spec
CONSTANTS
  h1 = h1
  h2 = h2
  h3 = h3
  Nil = Nil
  Handlers = {h1, h2, h3}
  Cap = 2
INVARIANTS NoSendOnClosed SubscriptionIsConsumed
PROPERTIES LogCallsReturn
\* two overlapping starts can leave a subscription nobody empties, which stops
\* the pump for good
CHECK_DEADLOCK FALSE
