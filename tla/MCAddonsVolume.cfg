SPECIFICATION Safety
CONSTANTS
    Addons = {1, 2}
    Commits = {1, 2, 3}
    Modules = {1, 2, 3}
    ModulesOf <- Repositories
    MaxPods = 3
    Overlap = "addons"
    Kills = "outside rm"
INVARIANTS TypeOK NeverHalfCopied SyncPublishes CleanedUp RemovedModulesDisappear LinksResolve
PROPERTIES OneProvider
CHECK_DEADLOCK FALSE
