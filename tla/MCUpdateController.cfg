SPECIFICATION FairSpec
CONSTANTS
    MaxEdits = 1
    MaxCommands = 2
INVARIANTS TrustReloadPending RuleReloadPending
PROPERTIES ReconfigurationServed FifoRulesServed
