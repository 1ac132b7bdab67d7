SPECIFICATION Spec
CONSTANTS
    Procs = {p1, p2}
    Paced = {p1, p2}
    Nobody = Nobody
    Interval = 1
    Retries = 1
    Mortal = {"off", "queue", "sleep", "backoff", "body", "gone", "failed"}
    Leftovers = {"other"}
    Releases = 1
    Ids = {1, 2}
    Names = {"tune"}
    Served <- MCServed
    TornPages = TRUE
    MaxKills = 1
INVARIANTS
    Complete
SYMMETRY Perms
