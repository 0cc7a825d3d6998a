SPECIFICATION Spec
CONSTANTS
    RefA = RefA
    RefB = RefB
    NoRef = NoRef
    Surfaces <- MCSurfaces
    Commands <- MCCommands
    Replies <- MCReplies
    HasResolver = TRUE
INVARIANTS
    AskedAsAuthorized
    AskedWhereConnected
PROPERTIES
    ListFollowsReply
    BindingsStay
CHECK_DEADLOCK FALSE
