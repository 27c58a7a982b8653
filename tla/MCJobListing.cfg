SPECIFICATION ListingSpec
CONSTANTS
  NumJobs = 3
  Batches = {r1}
  Deleters = {d1}
  Polled = {1}
  Filters = {"", "completed"}
  PageSize = 2
  MaxPages = 2
  MaxAttempts = 2
CHECK_DEADLOCK FALSE
INVARIANTS
  AllMatchingQueued
  QueuedOnce
  CompletedWithResults
  NoDeletionForgotten
