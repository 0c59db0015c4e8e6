SPECIFICATION Spec
CONSTANTS
    NumBlocks = 1
    MaxUpsets = 2
    ConnectTries = 1
    LoaderTries = 2
    MaxPolls = 2
PROPERTY
    CompletionCheckNotCancelled
