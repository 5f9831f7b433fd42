\* The tables under filters, boxes, tabs and two handlers: two documents, one stack.
SPECIFICATION Spec
CONSTANTS
  MaxDocs = 2
  Stacks = {s1}
  Ranges = {"last7"}
  Age <- MCAge
  Found = {1}
  MaxJobs = 2
  s1 = s1
CONSTRAINT FewAtOnce
INVARIANTS TypeOK SelectsTicked RowHasFile
