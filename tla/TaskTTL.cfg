\* A task with a ttl longer than the heartbeat interval.
SPECIFICATION Spec
CONSTANTS
  Tasks = {t1}
  Agents = {a1}
  NoTask = NoTask
  NoAgent = NoAgent
  DeliveryWorkers = {d1}
  ExpiryWorkers = {e1}
  Requests = {r1}
  MAX_DELIVERY_ATTEMPTS = 3
  BatchLimit = 1
  HeartbeatInterval = 1
  DeliveryWindow = 1
  Reports = {"success"}
  TTLs = {1, 2}
  MaxAge = 2
  MaxAborts = 0
  MaxReports = 1
INVARIANTS TimeoutMeansExceededTTL
