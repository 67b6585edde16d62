\* Two keyboards, presets with and without common codes, restarts.
SPECIFICATION FairSpec
CONSTANTS
    Xmodmap <- MCXmodmap
    Builtin <- MCBuiltin
    EvKey = "key"
    NoSymbol = NoSymbol
    NoCode = "syn"
    Readers <- MCReaders
    KeysOf <- MCKeysShared
    Supported <- MCSupported
    Presets <- MCPresets
    MaxBuffer = 3
INVARIANTS RemapInv Justified NoLoss ComboAtomic LastEntryWins
PROPERTIES NothingStuck
