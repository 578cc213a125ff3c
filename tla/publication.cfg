CONSTANTS
    MaxLag = 1
    MarkerLooks = 3
    ConfirmLooks = 3

SPECIFICATION PublicationSpec

CHECK_DEADLOCK FALSE
INVARIANTS
  FinalizerSound
  ReportIsTrue
  ConsumedIsUploaded
