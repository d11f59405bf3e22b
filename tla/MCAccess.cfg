SPECIFICATION Spec
CONSTANTS
    Rights = {"backstage"}
    Tools = {"serve", "cli"}
    Service = {"serve"}
    MaxCommands = 3
    MaxEvents = 4
    MaxBusy = 3
INVARIANTS
    AccessAgrees
    LedgerTells
PROPERTIES
    PolicyKept
    SuspensionStands
    InvitedBack
CHECK_DEADLOCK FALSE
