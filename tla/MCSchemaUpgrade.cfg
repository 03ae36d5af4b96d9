\* Two processes on a database of two documents, two versions and contents each.
SPECIFICATION Spec
CONSTANTS
    Processes = {p1, p2}
    Ids = {d1, d2}
    Numbers = {1, 2}
    Projects = {project}
    Roles = {tender, proposal}
    Digests = {a, b}
    OldSchemas <- MCOldSchemas
    None = none
CHECK_DEADLOCK FALSE
INVARIANTS
    ValidatedUpgradeSucceeds
    UpgradedIsSound
PROPERTIES
    UpgradeIsAtomic
