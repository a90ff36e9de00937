\* One replica, batches of up to two tasks, one iteration rolled back.  Time
\* passes and the expiry worker runs; everything else may stop.
SPECIFICATION FairSpec
CONSTANTS
  Tasks = {t1, t2}
  Agents = {a1}
  NoTask = NoTask
  NoAgent = NoAgent
  DeliveryWorkers = {d1}
  ExpiryWorkers = {e1}
  Requests = {}
  MAX_DELIVERY_ATTEMPTS = 2
  BatchLimit = 2
  HeartbeatInterval = 1
  DeliveryWindow = 1
  Reports = {"success"}
  TTLs = {1}
  MaxAge = 2
  MaxAborts = 1
  MaxReports = 0
PROPERTIES PendingIsTemporary
