SPECIFICATION FairSpec
CONSTANTS
    h1 = h1
    h2 = h2
    h3 = h3
    t1 = t1
    t2 = t2
    None = None
    Wildcard = "*"
    Endpoint = {"e"}
    Instance = {"i", "absent"}
    NameSpace = {"n"}
    Name = {"x", "y"}
    Handler = {h1, h2, h3}
    Thread = {t1, t2}
    RulesOf <- ThreeRulesOf
CHECK_DEADLOCK FALSE
PROPERTIES
    ShutdownReturns
