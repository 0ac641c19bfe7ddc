SPECIFICATION Spec
CONSTANTS
    Web = {w1, w2}
    Cli = {c1}
    Units <- MCUnits
    Hooks <- MCHooks
    Installed <- MCInstalled
    MaxToggles = 2
INVARIANTS ShellAnswerTrue EnableWasOn
PROPERTY PageConverges
