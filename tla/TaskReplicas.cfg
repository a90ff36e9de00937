\* Two replicas' delivery workers, an expiry worker and a request around
\* one task, which is reported twice.
SPECIFICATION Spec
CONSTANTS
  Tasks = {t1}
  Agents = {a1}
  NoTask = NoTask
  NoAgent = NoAgent
  DeliveryWorkers = {d1, d2}
  ExpiryWorkers = {e1}
  Requests = {r1}
  MAX_DELIVERY_ATTEMPTS = 2
  BatchLimit = 1
  HeartbeatInterval = 1
  DeliveryWindow = 1
  Reports = {"success", "failed"}
  TTLs = {1}
  MaxAge = 1
  MaxAborts = 1
  MaxReports = 2
SYMMETRY Symmetry
INVARIANTS TypeOK PlatformClosureRecorded JournalBelowCap OutcomesBounded PostsAccounted
PROPERTIES NeverPendingAgain RestingTaskIsStable
