SPECIFICATION Spec
CONSTANTS
  sys = sys
  req = req
  a = a
  b = b
  c = c
  NoDoc = NoDoc
  NoKey = NoKey
  Doc <- Docs
  Parent <- Parents
  Freeform <- OnlyReq
  Key <- Keys
  Items = 3
  DocOf <- Places
  FirstDefs <- Definitions
  FirstLabels <- Labelled
  Given <- GivenSets
  Uses = {}
  MaxActs = 3
  MaxUpdates = 3
INVARIANTS TypeOK UndefinedIsKnown ScreenShowsDisk
PROPERTIES DecisionsAreApplied
