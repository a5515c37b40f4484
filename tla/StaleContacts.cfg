CONSTANTS
    None = None
    a = a
    b = b
    Users = {a, b}
    Lists <- ListsUsed
    Quoted = {2}
    Passwords = {"old", "new"}
    Snapshots <- SnapshotsUsed
    MaxLogins = 3
    MaxChanges = 2
SPECIFICATION Spec
INVARIANT SameAsStored
CHECK_DEADLOCK FALSE
