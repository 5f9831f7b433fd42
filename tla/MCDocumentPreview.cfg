\* What the preview shows, and that it settles: two PDFs.
CONSTANTS
  d1 = d1
  d2 = d2
  Docs = {d1, d2}
  Pages <- MCPages
  Texts = {d1}
  Extracted = {d1}
SPECIFICATION FairSpec
INVARIANTS TypeOK PanelShowsSelected DialogDeletesNamed
PROPERTIES PreviewSettles
