SPECIFICATION Spec
CONSTANTS
    Flows <- MCFlows
    Category <- MCCategory
    QosEdits <- MCQosEdits
    Typed <- MCTyped
    OwnName = "own"
    OwnTopic = "/own"
    NoFlow = NoFlow
    NoTarget = NoTarget
INVARIANTS
    ConvertedWithOwnProfile
    DeviceIsOfSelection
    RosMessageFits
