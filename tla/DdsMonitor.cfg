SPECIFICATION Spec
CONSTANTS
    Domains <- MCDomains
    Topics <- MCTopics
    Types <- MCTypes
    ReadableTypes <- MCReadable
    Endpoints <- MCEndpoints
    DomainOf <- MCDomainOf
    KindOf <- MCKindOf
    TopicOf <- MCTopicOf
    TypeOf <- MCTypeOf
    NoParticipant = NoParticipant
    NoTopic = NoTopic
    MaxEvents = 3
INVARIANTS
    ErrorWithinMisplaced
    RowsAreAggregates
    OnlyTheStreamLives
