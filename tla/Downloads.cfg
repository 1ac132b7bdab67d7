SPECIFICATION Spec
CONSTANTS
    Procs = {p1, p2}
    Paced = {p1, p2}
    Nobody = Nobody
    Interval = 1
    Retries = 1
    Mortal = {"off", "queue", "sleep", "backoff", "body", "gone", "failed"}
    Leftovers = {"other"}
    Releases = 1
    Ids = {1, 2}
    Names = {"tune"}
    Served <- MCServed
    TornPages = FALSE
    MaxKills = 1
INVARIANTS
    OneAtATime
    OneDownloads
    Delivered
    Filed
PROPERTIES
    Spaced
    NoVainFailure
SYMMETRY Perms
