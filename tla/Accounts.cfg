SPECIFICATION Spec
CONSTANTS
    ann = ann
    bob = bob
    r1 = r1
    r2 = r2
    persister = persister
    nobody = nobody
    Account <- MCAccount
    Request <- MCRequest
    Admin = ann
    NoAccount = nobody
    Persister = persister
    OneConnection = TRUE
    RefreshTTL = 0
    MailTTL = 0
    AccessTTL = 0
    BanTTL = 1
    BanThreshold = 1
    MaxRows = 4
    Scenario <- MCScenario
    MaxNow = 1
SYMMETRY Symmetry
INVARIANTS TypeOK OneLivePerFamily CondemnedStaysDead MailSpentOnce OneSystemBan
CHECK_DEADLOCK FALSE
