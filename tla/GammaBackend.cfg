SPECIFICATION FairSpec
CONSTANTS
    Full = 1
    Unit = 1
    Outputs = {o1, o2, o3}
    Bindable = {o1, o2}
    MaxLate = 1
    MaxPlugs = 2
INVARIANTS
    TypeOK
PROPERTIES
    ImplementsGammaControl
    LossNoticed
    AppearanceNoticed
    CallsEnd
