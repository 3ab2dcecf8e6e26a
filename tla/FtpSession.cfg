\* A client that uses one command of each kind, with every option on, until one of
\* them is overtaken.
SPECIFICATION Spec
CONSTANTS
    None = None
    Cmds <- DialogueCmds
    HostOverride = TRUE
    PortRange = TRUE
    TlsRequired = TRUE
    Preauthorized = FALSE
    MaxInbox = 2
    MaxOps = 1
CONSTRAINT
    UntilOvertaken
INVARIANTS
    TypeOK
    OneAnswerEach
    WorkBelongsToCommand
    DataConnectionAgrees
PROPERTY
    KeepsDialogue
