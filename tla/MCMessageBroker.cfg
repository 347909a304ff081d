CONSTANTS
  QueueSize = 2
  MaxSlots = 2
  MaxPublish = 5
SPECIFICATION FairSpec
INVARIANTS TypeOK OneMessageAtATime DeliveredInOrder
PROPERTIES ImplementsLog AcceptedIsDelivered
CHECK_DEADLOCK FALSE
