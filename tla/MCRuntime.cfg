CONSTANTS
    m1 = m1
    m2 = m2
    w1 = w1
    w2 = w2
    Mutations = {m1, m2}
    Writes = {w1, w2}
    Composes = {w1}
    Plain = {"message"}
    MaxAsk = 3
    RequestCapacity = 2
    QueryCapacity = 1
    ReplyCapacity = 2
    MaxBackfill = 1
    MaxFaults = 1
    CommandCapacity = 2
    EventCapacity = 1
    Burst = 2
    InFlight = 2
    MaxStatus = 1
    Cases = {"answering", "writing", "refusing", "asking"}
SPECIFICATION CaseSpec
INVARIANTS
    WritesAreHonest
    OnlyObsoleteIsCut
PROPERTIES
    CoreAnswers
\* A core that has ended stays so.
CHECK_DEADLOCK FALSE
