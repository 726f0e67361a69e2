SPECIFICATION Spec
CONSTANTS
    post = post
    interaction = interaction
    Process <- MCProcess
    NodeID <- MCNodeID
    NodeSpan = 4
    SequenceSpan = 2
    MaxTime = 3
    MaxSetBacks = 1
    MaxRestarts = 1
INVARIANTS TypeOK UniqueIds
PROPERTIES IsIdSource
CHECK_DEADLOCK FALSE
