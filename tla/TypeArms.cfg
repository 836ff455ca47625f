SPECIFICATION Spec
CONSTANTS
    Wanted <- MCWanted
    Edits <- MCEdits
    Addresses <- MCAddresses
    Views <- MCViews
    Numerals <- MCNumerals
    MaskBits = 14
    MaxFaults = 2
    Torn = Torn
    NoGateway = NoGateway
INVARIANTS
    PresenceIsContent
    ArmsAgree
    AcceptedTreeIsCurrent
