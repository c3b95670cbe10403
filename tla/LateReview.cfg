SPECIFICATION Spec
CONSTANTS
    ClaimsOf <- TwoSources
    Central = {"a", "b"}
    Findings = {"f", "g", "h"}
    Cites <- TheirClaims
    Worded = {"f", "g"}
    LateRetry = TRUE
INVARIANT RefusalsLast
CHECK_DEADLOCK FALSE
