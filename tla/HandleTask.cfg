\* Two handlers of up to three calls each.
SPECIFICATION Spec
CONSTANTS
    Handlers = 2
    MaxCalls = 3
    ErrorCodes = {404, 503}
    Cookies = {c1}
INVARIANTS
    WellFormedAnswer
    CountedAsAnswered
    EarlyFailureVisible
    TerminatedOnlyInHeaders
