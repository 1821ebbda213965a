\* Two targets, and one old instance that may outlive its cancellation.
CONSTANTS
    Target = {t1, t2}
    Instance = {i1, i2}
    NoTarget = NoTarget
    NoContent = NoContent
SPECIFICATION MirrorLiveSpec
INVARIANTS TypeOK OneWatchPerDesire
PROPERTIES MirrorConverges WatchStops
