SPECIFICATION ExportSpec
CONSTANTS
 Exports = {e1}
 Pages = 2
 Selections = {{1}, {1, 2}}
 MaxSignIns = 1
 MaxSessions = 0
 MaxTroubles = 0
INVARIANT TaskOnce
CHECK_DEADLOCK FALSE
