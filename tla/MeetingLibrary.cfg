SPECIFICATION MeetingSpec
CONSTANTS
 MaxTexts = 2
 MaxRevisions = 2
 MaxFaults = 1
 MaxNotes = 2
 Passages = 2
 MaxGeneration = 3
 Meetings = {m1, m2}
 Contents = {c1}
 MaxNames = 2
 MaxMishaps = 1
 Exports = {e1, e2}
 Pages = 3
 Selections = {{1, 2}, {3}}
 Brief = {{3}}
 MaxSignIns = 3
 MaxSessions = 4
 MaxTroubles = 1
INVARIANTS TextRecoverable MirrorKnown NotesKept GenerationAlone Accounted OriginalsKept NothingLeaks SignedOutStaysOut CreatedOnce
PROPERTIES KeepsIndexPromise Indexed RestoresWhole
CHECK_DEADLOCK FALSE
