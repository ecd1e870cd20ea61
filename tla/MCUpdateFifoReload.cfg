SPECIFICATION FairSpec
CONSTANTS
    MaxEdits = 1
    MaxCommands = 2
PROPERTIES FifoReloadServed
