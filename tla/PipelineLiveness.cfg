SPECIFICATION FairSpec
CONSTANTS
    GP = GP
    GN = GN
    II = II
    Unknown = Unknown
    Talkers <- MCTalkers
    Formatters <- MCFormatters
    Raw <- MCRaw
    Flows <- MCFewFlows
    Qos <- MCQos
    DeviceIds <- MCDeviceIds
    Targets <- MCFewTargets
    GlobalTarget <- MCGlobal
    Campaign <- MCCampaign
    NoTarget = NoTarget
    NoWriter = NoWriter
    NoFlow = NoFlow
    NoSample = NoSample
    Configs <- MCConfigs
    MaxChunk = 2
PROPERTIES
    StopReturns
    EndReleasesEntities
    DelistedWriterGoes
