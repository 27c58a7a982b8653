SPECIFICATION WizardSpec
CONSTANTS
  MaxRuns = 3
  NoFile = NoFile
  Torn = Torn
CHECK_DEADLOCK FALSE
INVARIANTS
  CompleteMeansUsable
PROPERTIES
  SavedSecretsAreKept
  UsedSecretsAreSaved
