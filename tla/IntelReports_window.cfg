\* Three submissions of one fingerprint and two slots: enough for a scan to pass
\* a row, for a slot shared by two rows, for an emptied slot below a row and
\* for a full table.
SPECIFICATION FairSpec
CONSTANTS
    q1 = q1  q2 = q2  q3 = q3
    Submissions <- ThreeSubmissions
    ReportTimes <- LineTimes
    Fuzz = 2
    MaxSlots = 2
INVARIANTS RejectedReportIsHeld NearTwinsHaveACause
PROPERTY FullTableDrains
CHECK_DEADLOCK FALSE
