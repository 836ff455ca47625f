SPECIFICATION Spec
CONSTANTS
    serial = serial
    udp = udp
    bow = bow
    stern = stern
    fast = fast
    latched = latched
    Sources <- MCSources
    Flows <- MCFlows
    RosFlows <- MCRosFlows
    Brings <- MCBrings
    DeviceIds <- MCDeviceIds
    QosProfiles <- MCProfiles
    NoTarget = NoTarget
    NoFlow = NoFlow
    TalkerNode = TalkerNode
    MaxQueue = 2
    MaxRows = 2
SYMMETRY MCSymmetry
INVARIANT DisconnectedLeaveTheTree
