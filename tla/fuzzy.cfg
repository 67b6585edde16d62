\* Parts of names requested, groups renamed by hotplug.
SPECIFICATION Spec
CONSTANTS
    m1 = m1
    m2 = m2
    w1 = w1
    k1 = k1
    v1 = v1
    v2 = v2
    v3 = v3
    t1 = t1
    t2 = t2
    t3 = t3
    Exact = FALSE
    NoThread = NoThread
    NoName = NoName
    NoPreset = NoPreset
    Nodes <- MCMouseNodes
    Groups <- MCGroups
    Names <- MCNames
    GroupOf <- MCMouseGroupOf
    NodeName <- MCMouseNodeName
    NameLength <- MCNameLength
    NameOrder <- MCNameOrder
    Contains <- MCFuzzyContains
    OwnNames <- MCOwnNames
    Keyless <- MCKeyless
    Presets <- MCPresets2
    Threads <- MCThreads3
    VirtualNode <- MCVirtualNode3
    Requestable <- MCFuzzyRequestable
    Invalid <- MCInvalid
    AutoloadConfig <- MCFuzzyAutoload
SYMMETRY MCSymmetry
INVARIANTS TypeOK NoOrphan NoFeedback GrabbedAll
