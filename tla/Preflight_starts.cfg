SPECIFICATION Spec
CONSTANTS
    Starters = {a, b}
    Links = {1, 2}
    Hosts <- Machines
    Requests <- CommandLines
    Policies <- FirstModes
    MaxChanges = 2
SYMMETRY Symmetry
INVARIANT SoleStartFitsTogether
INVARIANT ExemptIsDedicated
PROPERTY DemandsAreRefused
PROPERTY SessionIsNotReplaced
CHECK_DEADLOCK FALSE
