CONSTANTS
    Terminator = n
    Binary = b
    Quit = q
    Ask = a
    Letter = t
    BinaryLength = 1
    ListHead = ListHead
    Incoming = {c1, c2}
    Outgoing = {o1}
    Active = {o1}
    Unresolved = {}
    Sockets = {0, 1}
    PeerBytes = {q}
    Window = 1
    MaxSent = 1
    MaxWritten = 0
SPECIFICATION Spec
INVARIANTS CursorIsAlive SnapshotIsTrue TimersMatch
PROPERTY EverythingIsRead
