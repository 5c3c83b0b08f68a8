\* Two tokens that may come to refuse transfers, a fee of 50 percent, which is 0
\* for a tip of 1, and a refused withdrawal that is to be repeated.
SPECIFICATION RejectionSpec
CONSTANTS
    alice = alice
    bob = bob
    C = C
    Z = Z
    t1 = t1
    t2 = t2
    Account = {alice, bob}
    Contract = C
    ZeroAddress = Z
    None = None
    Username = {u1}
    Text = {short}
    LongText = {}
    Token = {t1, t2}
    Amount = {1, 2}
    FeeInput = {5000}
    CapInput = {0}
    MinInput = {0}
    AdminInput <- MCNobody
    RecipientInput <- MCRecipients
    DepositTarget = {C}
    Supply = 2
    MAX_U32 = 2
    MAX_U64 = 2
    MAX_I128 = 10000
    Freezable <- MCHoldings
VIEW WithoutRecords
INVARIANTS
    RejectionsConfined
    RejectedWithdrawalStands
