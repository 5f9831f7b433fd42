\* The delete dialog of the list removes the object of a document it does not delete.
CONSTANTS
  d1 = d1
  d2 = d2
  Docs = {d1, d2}
  Pages <- MCPages
  Texts = {d1}
  Extracted = {d1}
SPECIFICATION Spec
INVARIANTS RowHasFile
