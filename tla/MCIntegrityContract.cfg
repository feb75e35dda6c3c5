SPECIFICATION ContractSpec
CONSTANTS
    Keys = {k1}
    Hashes = {h1, h2}
    Addresses = {alice, bob}
    Kinds = {1, 2}
    MaxRevision = 3
    MaxLedger = 3
    MinTtl = 1
    Threshold = 1
    ExtendTo = 1
SYMMETRY Symmetry
INVARIANT RegistryIsSound
PROPERTY AppendOnlyChain
CHECK_DEADLOCK FALSE
