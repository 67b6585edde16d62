\* A mouse with two nodes and a keyboard; requests name devices exactly.
SPECIFICATION Spec
CONSTANTS
    m1 = m1
    m2 = m2
    w1 = w1
    k1 = k1
    v1 = v1
    v2 = v2
    v3 = v3
    t1 = t1
    t2 = t2
    t3 = t3
    Exact = TRUE
    NoThread = NoThread
    NoName = NoName
    NoPreset = NoPreset
    Nodes <- MCExactNodes
    Groups <- MCGroups
    Names <- MCNames
    GroupOf <- MCGroupOf
    NodeName <- MCExactNodeName
    NameLength <- MCNameLength
    NameOrder <- MCNameOrder
    Contains <- MCEmpty
    OwnNames <- MCOwnNames
    Keyless <- MCKeyless
    Presets <- MCPresets1
    Threads <- MCThreads3
    VirtualNode <- MCVirtualNode3
    Requestable <- MCExactRequestable
    Invalid <- MCInvalid
    AutoloadConfig <- MCExactAutoload
SYMMETRY MCSymmetry
INVARIANTS NoBusyFailure DaemonInv
PROPERTIES StopMeansStopped StopAllMeansStopped AutoloadOk OneSession
