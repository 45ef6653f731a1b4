CONSTANTS
    Queues = {a}
    Routes = {r}
    Channels = {c}
    Users = {u}
    Admin = Admin
    Messages = {m, n}
    max_msg = 2
    force_push = FALSE
    Pids = {p1, p2}
    AutoSave = TRUE
    Null = Null
    MaxTime = 3
SPECIFICATION StorageSpec
SYMMETRY Symmetry
INVARIANTS Loadable
PROPERTIES Restored NeverOlder
