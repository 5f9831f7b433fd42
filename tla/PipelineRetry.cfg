\* "One OCR result per document" by upsert: saving the text again fails. Same
\* bounds as MCDocumentPipeline.cfg.
CONSTANTS
  d1 = d1
  d2 = d2
  k1 = k1
  k2 = k2
  k3 = k3
  Docs <- MCDocs
  Slots <- MCSlots
  Limit = 1
  MaxFaults = 1
  MaxCrashes = 1
  MaxMonths = 1
SPECIFICATION Spec
PROPERTIES OcrResultIsSaved
CHECK_DEADLOCK FALSE
