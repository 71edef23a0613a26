SPECIFICATION ListenerSpec
CONSTANTS
    Scanners = {s1, s2}
    Callers = {c1, c2}
    Streams = {e1, e2}
    Tasks = {t1, t2}
    NoScanner = NoScanner
    NoCaller = NoCaller
    NoStream = NoStream
    NoTask = NoTask
INVARIANT SocketAgrees
PROPERTY StreamsEndForACause
PROPERTY CallsReturn
