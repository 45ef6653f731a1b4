CONSTANTS
    MaxTokens = 3
    MaxTopic = 3
SPECIFICATION Spec
INVARIANT GlobStyle
CHECK_DEADLOCK FALSE
