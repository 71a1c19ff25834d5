SPECIFICATION Spec
CONSTANTS
    Thread = {t1, t2}
    Chan = {a, b}
    Null = Null
    MaxCalls = 4
    MaxPeerEvents = 1
INVARIANTS TypeOK OneAnnouncer NoLostUpdate PeerMirrors
PROPERTY CallsReturn
