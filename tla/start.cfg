SPECIFICATION Spec
CONSTANTS
    c1 = c1
    c2 = c2
    q1 = q1
    q2 = q2
    i1 = i1
    old = old
    new = new
    r1 = r1
    r2 = r2
    None = None
    Keys = {q1, q2}
    Instances = {i1}
    Definitions = {old, new}
    Runtimes = {r1, r2}
    Clients = {c1, c2}
    Instance <- SameInstance
    Definition <- OldAndNew
    Serves <- Builds
    Allowed <- Deploying
INVARIANTS AnswersAgree RunIsAnswered
PROPERTIES CatalogFollowsRuntimes
CHECK_DEADLOCK FALSE
