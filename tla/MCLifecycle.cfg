SPECIFICATION Spec
CONSTANTS
    Http = {h1}
    WebSockets = {w1, w2}
    Workers = {watcher, syncer}
INVARIANTS
    AcceptedUsageSaved
    WebSocketUsageKept
    HttpUsageKept
    DatabaseClosedLast
PROPERTIES
    ExitsAfterSignal
CHECK_DEADLOCK FALSE
