SPECIFICATION Spec
CONSTANTS
    Styles = {"ends", "any"}
    MaxBlocks <- MCMaxBlocks
    MaxCode <- MCMaxCode
    MaxFrames <- MCMaxFrames
INVARIANTS OneTerminator TerminatorLast OpenBlocksArePending
CHECK_DEADLOCK FALSE
