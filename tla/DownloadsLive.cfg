SPECIFICATION FairSpec
CONSTANTS
    Procs = {p1, p2}
    Paced = {p1, p2}
    Nobody = Nobody
    Interval = 1
    Retries = 1
    Mortal = {"off", "queue", "sleep", "backoff", "body", "gone", "failed"}
    Leftovers = {"other"}
    Releases = 1
    Ids = {1}
    Names = {"tune", "song"}
    Served <- MCRenamed
    TornPages = FALSE
    MaxKills = 0
PROPERTIES
    CallsEnd
