SPECIFICATION FairSpec
CONSTANTS
    Candidates <- MCCandidates
    DeviceSpeeds <- MCDeviceSpeeds
    MinValid = 1
    MaxRoom = 2
    MaxRx = 2
    MaxValid = 2
    MaxAddresses = 2
    NoResult = NoResult
PROPERTY
    DisconnectAlwaysReturns
