CONSTANTS
    w1 = w1
    w2 = w2
    w3 = w3
    c1 = c1
    c2 = c2
    cron1 = cron1
    cron2 = cron2
    click1 = click1
    f1 = f1
    f2 = f2
    s1 = s1
    s2 = s2
    Deployments = {w1, w2, w3}
    Customers = {c1, c2}
    Owner <- MCOwner
    Email <- MCEmail
    Scenes <- MCScenes
    Crons = {cron1, cron2}
    Clicks = {click1}
    Forms = {f1, f2}
    Setups = {s1, s2}
    NoRow = NoRow
    NoOne = NoOne
    NoForm = NoForm
    Unclaimed = Unclaimed
    MaxSha = 2
    MaxTag = 2
    MaxToken = 2
    MaxFaults = 1
    MaxEdits = 2
    MaxSelf = 2
    MaxTries = 2
SPECIFICATION Spec
INVARIANTS
    TypeOK
    LedgerIsLastPush
    ToldMeansManaged
PROPERTIES
    OwnerDecides
    CronLeavesAlone
    BindingsSurvive
    ActiveCatchesUp
CHECK_DEADLOCK FALSE
