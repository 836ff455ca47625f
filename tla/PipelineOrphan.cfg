SPECIFICATION Spec
CONSTANTS
    GP = GP
    GN = GN
    II = II
    Unknown = Unknown
    Talkers <- MCTalkers
    Formatters <- MCFormatters
    Raw <- MCRaw
    Flows <- MCFlows
    Qos <- MCQos
    DeviceIds <- MCDeviceIds
    Targets <- MCTargets
    GlobalTarget <- MCGlobal
    Campaign <- MCCampaign
    NoTarget = NoTarget
    NoWriter = NoWriter
    NoFlow = NoFlow
    NoSample = NoSample
    Configs <- MCSelective
    MaxChunk = 2
SYMMETRY MCSymmetry
INVARIANT WritersWithinAllowlist
