CONSTANTS
    Keys = {k1, k2, k3}
SPECIFICATION FairSpec
INVARIANTS KeepsLooking GnubbiesClosed
PROPERTIES NoPromptAfterClose PromptsEnd HandlerAnswers
CHECK_DEADLOCK FALSE
