\* Every entry point and its event, tips and registrations through the
\* orchestrator, and another contract that publishes events of the same form.
SPECIFICATION EventSpec
CONSTANTS
    alice = alice
    bob = bob
    C = C
    D = D
    O = O
    Z = Z
    Account = {alice, bob}
    Contract = C
    ZeroAddress = Z
    None = None
    Username = {u1}
    Text = {short}
    LongText = {}
    Token = {t1}
    Amount = {1, 2}
    FeeInput = {0, 5000}
    CapInput = {0}
    MinInput <- MCMinimums
    AdminInput <- MCAdmins
    RecipientInput <- MCRecipients
    DepositTarget = {C}
    Supply = 2
    MAX_U32 = 2
    MAX_U64 = 2
    MAX_I128 = 100000
    Orchestrator = O
    StellarTipInput <- MCTargets
VIEW WithoutStaleRecords
INVARIANTS
    ReplayedConfig
    ReplayedLedger
    ReplayedHistory
    OnlyAdminConfigures
