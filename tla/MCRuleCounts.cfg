SPECIFICATION Spec
CONSTANTS
    Lists <- MCLists
    ShortName <- MCShortName
    Settings <- MCSettings
    MaxRules = 2
INVARIANT TotalIsSum
 
CHECK_DEADLOCK FALSE
