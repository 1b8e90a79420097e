CONSTANTS
    Consumers = {n1, n2}
    Storages = {n3}
    Foreign = {n4}
    Hooks = {h1, h2}
    Main = main
    Local = local
    None = None

SPECIFICATION Spec
INVARIANT ConnectedToStorage
CHECK_DEADLOCK FALSE
