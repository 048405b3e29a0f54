SPECIFICATION Spec
CONSTANTS
    Budget = 11
    Scenarios <- MCScenarios
    Configurations <- MCConfigurations
    Weight <- MCWeight
INVARIANTS NothingTwice
