SPECIFICATION Spec
CONSTANTS
    Mod = 3
    LongMax = 2
    MaxNodes = 2
    Me <- Node1
    Others <- OtherNodes
    Latencies = {0, 2}
    MaxGrowth = 2
    MaxQueries = 2
    MaxReports = 2
    MaxWire = 2
INVARIANTS
    SumsExact
    QuietReportConsistent
