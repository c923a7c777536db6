SPECIFICATION OutboxFairSpec
CONSTANTS
  EventCount = 2
  Events <- MCEvents
  Relays = {r1, r2}
  BatchSize = 2
  OccurredAt <- MCOccurredAt
  Transactional <- MCTransactional
  RecordActivity <- MCRecordActivity
  Automatable <- MCAutomatable
  Webhook <- MCWebhook
  MaxFaults = 2
  NoEvent = NoEvent
CHECK_DEADLOCK FALSE
INVARIANTS
  ClaimsExclusive
  SettledWasFannedOut
  RepeatsNeedFaults
PROPERTIES
  CommittedEventIsRelayed
  ImplementsPromise
