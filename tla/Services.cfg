SPECIFICATION PartsSpec
CONSTANTS
    Pairs = {p1, p2}
    Reviewers = {r1}
    Submissions = {s1, s2, s3}
    MaxVersion = 7
    Vehicle = v1
    Another = v2
    Nothing = nothing
    Scanners = {w1, w2}
    Calls = {l1, l2}
    RecoveryCodes = {k1}
    Wrong = wrong
    Incidents = {i1}
    Others = {o1}
    Drains = {d1, d2}
    Unknown = unknown
CHECK_DEADLOCK FALSE
SYMMETRY PartsSymmetry
VIEW PartsView
INVARIANT PartsTypeOK
INVARIANT CustodyIsCovered
INVARIANT ApprovalsWereInformed
INVARIANT CompletedWasConfirmed
INVARIANT OneScanAtATime
INVARIANT PhotoTripAddsUp
INVARIANT OneLiveChallenge
INVARIANT CodesSignInOnce
INVARIANT OneStrikePerBurn
INVARIANT EmergencyCodeNotRetired
INVARIANT LostOnlyByStaleOrFailedWrite
INVARIANT HiddenWorkIsRecounted
PROPERTY ShownReadingKept
