SPECIFICATION Spec
CONSTANTS
    None = None
    MaxEdits = 3
INVARIANTS
    AcceptedIsDeclared
    FactsAgree
    OptionsSuffice
    ScriptAsksAsTold
