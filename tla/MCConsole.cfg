SPECIFICATION Spec
INVARIANTS CachedPagesAreCurrent  LeavesOnlyAsked ExportIsComplete
PROPERTIES PromisedIsDone SaveChangesWhatWasEdited SaveDoesWhatWasShown
CHECK_DEADLOCK FALSE
CONSTANTS
  Handlers = {h1, h2}
  MaxCommits = 2
  Words = {nothing, anna, bert}
  NoWord = nothing
  Filters = {all, active}
  NoFilter = all
  MaxInputs = 4
  Rows = {u1, u2}
  MaxClicks = 2
  MaxElsewhere = 1
  Records = {r1, r2}
  Names = {ada, bob}
  NoRecord = none
  MaxEdits = 2
  MaxCalls = 2
  MaxOthers = 1
  Items = {i1, i2, i3}
  MaxTicks = 2
  MaxSaves = 2
  MaxElse = 1
  MaxMoves = 9
  Writers = {w1, w2}
  PageSize = 2
  ExportMax = 4
  MaxRetries = 3
  OldRows = 2
  NewRows = 2
