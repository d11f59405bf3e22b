CONSTANTS
    prometheus = prometheus
    loki = loki
    Rules <- OneEach
    Series = {s}
    Backends <- Two
    NoData = NoData
    Source <- SourceOfEach
    Hold <- LongHold
    MaxHold = 2
    NoDataAlerts = {}
    Warnings <- Second
    Faults = {"note", "crash", "lost", "deploy"}
SPECIFICATION FairSpec
INVARIANT InboxAgrees
PROPERTIES SilentWhileFiring OutageIsNotResolve EveryAlertTold EveryEndTold
