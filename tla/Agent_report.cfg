\* One request whose crash report may not be written.
SPECIFICATION Spec
CONSTANTS
    core = core
    payment = payment
    Requests = {r1}
    Services = {core}
    Allowed = {core}
    S3Enabled = TRUE
    LastN = 1
INVARIANT
    SavedReportExists
