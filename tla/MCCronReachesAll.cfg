CONSTANTS
    d1 = d1
    c1 = c1
    cron1 = cron1
    click1 = click1
    Deployments = {d1}
    Customers = {c1}
    Crons = {cron1}
    Clicks = {click1}
    Owner <- MCOwner
    Scenes <- MCScenes
    NoRow = NoRow
    NoOne = NoOne
    MaxSha = 2
    MaxTag = 1
    MaxToken = 1
    MaxFaults = 1
    MaxEdits = 1
    MaxSelf = 0
SPECIFICATION UpdatesSpec
PROPERTY EveryActiveCatchesUp
CHECK_DEADLOCK FALSE
