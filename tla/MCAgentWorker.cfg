SPECIFICATION MCSpec
CONSTANTS
    s1 = s1
    q1 = q1
    t1 = t1
    t2 = t2
    p1 = p1
    p2 = p2
    c1 = c1
    c2 = c2
    c3 = c3
    m1 = m1
    m2 = m2
    db = db
    ai = ai
    key = key
    k1 = k1
    k2 = k2
    r1 = r1
    r2 = r2
    r3 = r3
    w1 = w1
    w2 = w2
    f1 = f1
    d1 = d1
    d2 = d2
    box = box
    Null = Null
    NoOne = NoOne
    Unset = Unset
    Part <- MCPart
    MaxFrames = 4
    Session = {s1}
    Project = {q1}
    Touch = {t1, t2}
    Body <- MCBody
    Patch = {p1, p2}
    Msg = {m1, m2}
    MaxIter <- MCMaxIter
    MaxBatch <- MCMaxBatch
    Caller = {c1, c2, c3}
    Cap = 3
    MaxPrice = 2
    MaxDay = 1
    Block = {db, ai}
    Comment = {key}
    Skill = {k1, k2}
    Scene <- MCScene
    Request = {r1, r2, r3}
    Streams = {r2, r3}
    ReqId = {1, 2}
    MaxTells = 1
    Flow = {w1, w2}
    Firing = {f1}
    Phone = {d1, d2}
    Mailbox = box
    Limit <- MCLimit
INVARIANTS
    TypeOK
    OvershootBounded
    RunsAreLogged
    PushedStays
    AnswersFindCallers
    OwnerToldOnce
PROPERTIES
    KeepsFrameFeed
    StreamSettles
    OwnTitleKept
    NoCrosstalk
CHECK_DEADLOCK FALSE
