\* Two clients whose tokens share a jti, two proof ids, four sync snapshots, two
\* disturbances.
SPECIFICATION Spec
CONSTANTS
    Requests = {"first", "second"}
    Proofs = {1, 2}
    MaxAmount = 2
    MaxLag = 1
    StaleAfter = 1
    Inputs <- MCInputs
    Snapshots <- MCSnapshots
    MaxDisturbances = 2
INVARIANTS SignedAsAuthorized RowHasAReason AnswersAreHonest
PROPERTY ReadyWalletAnswers
CHECK_DEADLOCK FALSE
