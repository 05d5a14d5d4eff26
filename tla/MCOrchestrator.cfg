CONSTANTS
    t1 = t1
    t2 = t2
    t3 = t3
    a1 = a1
    a2 = a2
    e1 = e1
    e2 = e2
    Stages = 3
    AnswerBound = 2
    Tasks = {t1, t2, t3}
    Workers = {0, 2}
    QueueSize = 1
    NoTask = NoTask
    DoubleBound = 1
    Agents = {a1, a2}
    Events = {e1, e2}
    Matching <- MCMatching
    StartBound = 2
    ChangeBound = 3
    Segments = 3
    Named = {2, 3}
    MessageBound = 2
SPECIFICATION FairSpec
INVARIANTS OutputIsHeard TasksAccounted RoutedOnce
PROPERTY PipelineEnds
CHECK_DEADLOCK FALSE
