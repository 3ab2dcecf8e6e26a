\* A client that aborts operations, listings and transfers over active data
\* connections, and sends lines that begin with a space.
SPECIFICATION FairSpec
CONSTANTS
    None = None
    Cmds <- PatientCmds
    HostOverride = FALSE
    PortRange = FALSE
    TlsRequired = FALSE
    Preauthorized = FALSE
    MaxInbox = 1
    MaxOps = 1
PROPERTY
    LinesAreAnswered
