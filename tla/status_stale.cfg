\* status lists an injection that has ended.
SPECIFICATION FairSpec
CONSTANTS
    m1 = m1
    m2 = m2
    w1 = w1
    k1 = k1
    v1 = v1
    v2 = v2
    v3 = v3
    t1 = t1
    t2 = t2
    t3 = t3
    Exact = FALSE
    NoThread = NoThread
    NoName = NoName
    NoPreset = NoPreset
    Nodes <- MCSmallNodes
    Groups <- MCGroups
    Names <- MCNames
    GroupOf <- MCSmallGroupOf
    NodeName <- MCSmallNodeName
    NameLength <- MCNameLength
    NameOrder <- MCNameOrder
    Contains <- MCFuzzyContains
    OwnNames <- MCOwnNames
    Keyless <- MCKeyless
    Presets <- MCPresets1
    Threads <- MCThreads2
    VirtualNode <- MCVirtualNode2
    Requestable <- MCPartRequestable
    Invalid <- MCInvalid
    AutoloadConfig <- MCEmpty
PROPERTIES StatusSettles
