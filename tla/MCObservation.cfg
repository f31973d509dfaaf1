SPECIFICATION Spec
CONSTANTS
    Details = {none, d1}
    NoDetail = none
    CommitWrap = 5
    MaxCount = 6
INVARIANTS
    TypeOK
    StableSnapshot
    QuietLineIsValid
