SPECIFICATION ChatSpec
CONSTANTS
    Proposal = {q1}
    Request = {h1, h2}
    AutoWired = FALSE
    NoRequest = NoRequest
INVARIANT
    DecidedOnce
