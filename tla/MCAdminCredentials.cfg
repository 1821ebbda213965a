\* One request between two revocations.
CONSTANTS
    Request = {q1}
    Revocation = {v1, v2}
    None = None
SPECIFICATION LiveSpec
CHECK_DEADLOCK FALSE
INVARIANTS SentinelIsActive RevokedCredentialsGo
PROPERTIES EndedRequestsAreFinal RequestsEnd RevocationsEnd
