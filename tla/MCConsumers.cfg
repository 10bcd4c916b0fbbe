SPECIFICATION Spec
CONSTANTS
    Configurations <- MCConfigurations
    Addresses = {1, 2, 3}
    Lower <- MCLower
INVARIANT AlwaysServed
INVARIANT SameRules
CHECK_DEADLOCK FALSE
