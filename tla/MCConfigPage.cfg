SPECIFICATION Spec
CONSTANTS
  Handwritten <- MCHandwritten
  Edits <- MCEdits
  Tabs = {t1, t2}
  MaxSaves = 2
SYMMETRY Symmetry
INVARIANTS
  TypeOK
  
  NothingInvented
  Loadable
