SPECIFICATION Spec
CONSTANTS
  w1 = w1
  w2 = w2
  f1 = f1
  f2 = f2
  d1 = d1
  d2 = d2
  t1 = t1
  t2 = t2
  Folders = {w1, w2}
  Home = w1
  Flows = {f1, f2}
  Docs = {d1, d2}
  Threads = {t1, t2}
  MaxMade = 2
  MaxSaves = 2
  MaxTrust = 1
  MaxRequests = 3
SYMMETRY FlowDocThreadSymmetry
INVARIANTS SwitchIsClean EngineRunsStored OpenIsStored RecoversLastSave WatcherFollows
CHECK_DEADLOCK FALSE
