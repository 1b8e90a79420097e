CONSTANTS
    Consumers = {n1, n2}
    Storages = {n3}
    Foreign = {n4}
    Hooks = {h1, h2}
    Main = main
    Local = local
    None = None

SPECIFICATION Spec
INVARIANT TypeOK
INVARIANT NoNilForwarder
INVARIANT AddressInForce
INVARIANT ConnectedToMember
INVARIANT StopIsFinal
PROPERTY CallsForwarder
CHECK_DEADLOCK FALSE
