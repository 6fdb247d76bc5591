CONSTANTS
    Terminator = n
    Binary = b
    Quit = q
    Ask = a
    Letter = t
    BinaryLength = 1
    ListHead = ListHead
    Incoming = {c1}
    Outgoing = {}
    Active = {}
    Unresolved = {}
    Sockets = {0}
    PeerBytes = {n, b, q, t, a}
    Window = 1
    MaxSent = 5
    MaxWritten = 2
SPECIFICATION Spec
INVARIANTS  MessagesInOrder
