\* Six branches with four difficulty periods, messages of up to four headers in any order.
SPECIFICATION Spec
CONSTANTS
    Headers <- MCHeaders
    Parent <- MCParent
    Bits <- MCBits
    Base = 0
    BaseHeight = 0
    Interval = 2
    Retarget <- MCRetarget
    Reporters = {r1, r2}
    MaxMsg = 4
INVARIANTS
    StoresAgree
    DifficultyOfOwnChain
    HooksTellTheChain
PROPERTIES
    ImplementsHeaderChain
