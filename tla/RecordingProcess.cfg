SPECIFICATION ProcessSpec
CONSTANTS
  Starter = {u, t}
  K = 3
  E = 2
  Overtaken = FALSE
  MaxUpdates = 5
  FlushAfter = 2
  MaxFaults = 2
  Indexing = {i}
  Reading = {r}
  Foreground = {f}
  Plain = {p}
  Summary = {s}
  Sweep = {w}
  Nobody = Nobody
  u = u
  t = t
  i = i
  r = r
  f = f
  p = p
  s = s
  w = w
INVARIANTS NoMixing NothingEmittedLost CleanRest CleanIsSaved OffIsOff OwnNative
PROPERTIES EventuallySaved OffFreesModel NotRefusedByBackground ClaimDecided
