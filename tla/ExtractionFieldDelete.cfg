\* One extraction with two fields, and a page that was rendered before it saved.
CONSTANTS
  f1 = f1
  f2 = f2
  Fields <- MCTwoFields
  MaxRows = 1
  MaxCorrections = 0
SPECIFICATION Spec
PROPERTIES DeletesOnlyChosen
CHECK_DEADLOCK FALSE
