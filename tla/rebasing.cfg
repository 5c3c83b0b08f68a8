\* A token that doubles, halves and is wiped out beside an ordinary one.  The
\* amounts do not convert to whole shares after a doubling: a tip of 1 moves none.
SPECIFICATION CustodySpec
CONSTANTS
    alice = alice
    bob = bob
    C = C
    Z = Z
    Account = {alice, bob}
    Contract = C
    ZeroAddress = Z
    None = None
    Username = {u1}
    Text = {short}
    LongText = {}
    Token = {t1, t2}
    Rebasing = t2
    Factor <- MCFactors
    Amount = {1, 3}
    FeeInput = {5000}
    CapInput = {0}
    MinInput = {0}
    AdminInput <- MCNobody
    RecipientInput <- MCRecipients
    DepositTarget <- MCDeposits
    Supply = 3
    MAX_U32 = 2
    MAX_U64 = 2
    MAX_I128 = 1000000
VIEW WithoutRecords
INVARIANTS
    OtherTokensWithdrawable
    PaidWhileBacked
PROPERTIES
    DivergencePersists
