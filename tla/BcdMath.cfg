CONSTANTS
    Configurations <- MC_Configurations
    Literals <- MC_Literals
    Floats <- MC_Floats
    Texts <- MC_Texts
    Bits = 4
    WorkRadix = 4
    UIntMax = 8
SPECIFICATION Spec
INVARIANTS BcdExact  FixedAgrees
