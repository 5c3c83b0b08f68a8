\* One account in every role: entries of two tokens and of two registrations
\* that age, are archived and are restored between any two calls.
SPECIFICATION LifetimeSpec
CONSTANTS
    alice = alice
    C = C
    Z = Z
    Account = {alice}
    Contract = C
    ZeroAddress = Z
    None = None
    Username = {u1}
    Text = {short}
    LongText = {}
    Token = {t1, t2}
    Amount = {1, 2}
    FeeInput = {0, 10000}
    CapInput = {0}
    MinInput = {0}
    AdminInput <- MCNobody
    RecipientInput <- MCRecipients
    DepositTarget <- MCNobody
    Supply = 3
    MAX_U32 = 2
    MAX_U64 = 2
    MAX_I128 = 100000
    TTL_THRESHOLD = 2
    TTL_EXTEND = 4
    MIN_TTL = 1
VIEW WithoutRecords
INVARIANTS
    RecentlyTippedLive
    RecentCreditWithdrawable
    TipHeldUpByOldEntriesOnly
PROPERTIES
    WritesOutliveThreshold
