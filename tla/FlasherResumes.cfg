SPECIFICATION ResumingSpec
CONSTANTS
    NumBlocks = 1
    MaxUpsets = 3
    ConnectTries = 1
    LoaderTries = 2
    MaxPolls = 2
PROPERTY
    Resumable
