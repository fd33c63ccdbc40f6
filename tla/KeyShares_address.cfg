SPECIFICATION Spec
CONSTANTS
    Order = 5  Width = 4  Hardened = 2
    CC = {0, 1}
    Mac <- MCMac
    KeyID <- MCKeyID
    KeyIDOf <- MCKeyIDOf
    ChainCode <- MCChainCode
    NoKeyID = NoKeyID
    Node = {1, 2, 3}
    Threshold = 2
    Participants <- MCParticipants
    Request <- MCRequest
    MaxWarms = 2
    NoKey = NoKey  NoMaterial = NoMaterial  NoInput = NoInput
    Refused = Refused  NoTask = NoTask
INVARIANTS
    TypeOK
    SignedByAddressKey
    ConsistentInputsSign
    RefreshKeepsKey
