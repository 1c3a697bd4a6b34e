SPECIFICATION MCSpec
CONSTANTS
    s1 = s1
    s2 = s2
    v1 = v1
    Sessions = {s1, s2}
    Versions = {v1}
    Readers = {r1}
    Ver <- MCVer
    None = None
    Requests = {q1, q2, q3, q4}
    Users = {u1, u2}
    Founder = u1
    Releases = {1, 2}
    Absent = Absent
    Works <- MCWorks
SYMMETRY Symmetry
\* The requests of the metadata side end.
CHECK_DEADLOCK FALSE
INVARIANTS
    AckedStaysPublished
    PublishedOwnsVersion
    PublishedBytesDeclared
    ServedVersionStable
    StaleOnlyByRaceOrRestart
    LatestIsNewest
    OrphansOnlyByOverlap
    OwnerlessOnlyByDemotionOrOverlap
