\* Two documents in one feed range, four writes.
SPECIFICATION LiveSpec
CONSTANTS
    Key = {k1, k2}
    FeedRanges = {{k1, k2}}
    MaxLSN = 4
INVARIANT FeedCoversDifference
PROPERTIES CacheNeverGoesBack FeedCatchesUp CacheConverges
