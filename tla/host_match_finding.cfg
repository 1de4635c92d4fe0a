SPECIFICATION Spec
CONSTANTS
    Name <- MCName
    Address <- MCAddress
    NoName = NoName
    Unusable <- MCUnusable
    Cert <- MCCert
    NoCert = NoCert
    ManualHost <- MCManualHost
    Device <- MCDevice
    Threshold = 1
    MaxDay = 3
INVARIANT MismatchIsTold
