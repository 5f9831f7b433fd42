\* What the table of fields shows and selects: two fields, a few writes.
CONSTANTS
  Fields = {1, 2}
  Values = {v1, v2}
  Root <- MCRoot
  Found = {2}
  MaxWrites = 4
  v1 = v1
  v2 = v2
SPECIFICATION Spec
INVARIANTS TypeOK ShowsTheExtraction
