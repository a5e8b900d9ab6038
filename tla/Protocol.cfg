SPECIFICATION Spec
CONSTANTS
    Bodies <- MCBodies
    Generated <- MCGenerated
    Preview <- MCPreview
    ChunkLen = 3
    None = None
INVARIANTS EnvelopeFollowsConversation ApisAgree ToolServesIntent
    ReplayArgsFaithful StreamMatchesJson
CHECK_DEADLOCK FALSE
