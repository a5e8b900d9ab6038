SPECIFICATION Spec
CONSTANTS
    Texts <- MCTexts
    Prompts <- MCPrompts
    Vocab <- MCVocab
    Merges <- MCMerges
    Control <- MCControl
    Effort <- MCEffort
    None = None
INVARIANTS PiecesCutCharacters DecodeGivesText ControlsFromTemplate
PROPERTY RanksAscend
CHECK_DEADLOCK FALSE
