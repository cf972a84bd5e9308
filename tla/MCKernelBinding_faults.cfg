SPECIFICATION BoundedSpec
CONSTANTS
    Bindings = {b1, b2, b3}
    Messages = {m1, m2}
    Creators = {c1, c2}
    Faults = {"crash", "lost_ack"}
    Sessions = {1, 2, 3}
    HostFaults = {"refuse", "lost_answer", "page", "restart", "wipe"}
    MaxMishaps = 1
    None = None
SYMMETRY Symmetry
INVARIANTS
    RecoveryTypeOK RunningIsCurrent PredecessorRetired ConversationKeepsBinding
    DisposedIsRetired SessionsHaveRows SuccessorRemembers
PROPERTIES RetiredForever ImplementsConversationTurns
