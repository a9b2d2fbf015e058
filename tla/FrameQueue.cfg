\* The ring at its real capacity.  It copies frames and never looks at them,
\* so two distinguishable frames show one delivered in the place of another.
SPECIFICATION Spec
CONSTANTS
  Frame = {f1, f2}
  Capacity = 8
  Unwritten = Unwritten
INVARIANTS TypeOK IndicesAgree
PROPERTY ImplementsFifo
