\* An inbox of two messages, three messages from the controller.
SPECIFICATION FairSpec
CONSTANTS
    agent = agent
    controller = controller
    other = other
    None = None
    InboxSize = 2
    MaxFrames = 3
INVARIANTS TypeOK Conserved ClosedOnce ErrorIsKnown
PROPERTIES ReadsInOrder ImplementsStream Ends
CHECK_DEADLOCK FALSE
