CONSTANTS
  MaxSerial = 3
  MaxRequests = 2
  MaxResets = 2
  MaxOverflows = 1
  MaxStream = 4
SPECIFICATION Spec
INVARIANTS ReceiverAgrees SceneUnmixed SessionOutlivesUse RetiredSignalled RebindResolves
