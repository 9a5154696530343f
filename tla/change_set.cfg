\* Two requests at a time on a task with one patch of two files, which the user
\* may edit; one change from outside; the last request may be the last step.
SPECIFICATION Spec
CONSTANTS
  notes = notes
  fresh = fresh
  asked = asked
  edited = edited
  Files = {notes, fresh}
  Patches = {asked, edited}
  NoPatch = NoPatch
  Kind <- TwoPatches
  Present = {notes}
  Manifests = {c1, c2}
  First = c1
  FirstPatch = asked
  Approvals = {a1, a2}
  Asked = a1
  Handlers = {h1, h2}
  NoHandler = NoHandler
  MayCrash = TRUE
  MayFail = TRUE
  MayElapse = TRUE
  MaxCalls = 3
  MaxEdits = 1
SYMMETRY HandlerSymmetry
INVARIANTS TypeOK OneExecution UndoIsAllOrNothing
PROPERTIES NoBlindOverwrite
CHECK_DEADLOCK FALSE
