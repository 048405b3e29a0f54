SPECIFICATION FairSpec
CONSTANTS
    Budget = 11
    Scenarios <- MCScenarios
    Configurations <- MCConfigurations
    Weight <- MCWeight
INVARIANTS TypeOK Complete ReportReplays OthersRefused MinimalReport
PROPERTIES ShallowFirst SearchEnds
