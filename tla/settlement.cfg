\* Every kind of fee recipient, rejected and boundary inputs, a minimum, caps,
\* products that overflow, tokens sent to the contract without a tip, and
\* handovers of the administrator's role, to the contract itself too: the system
\* may really stop, paused for good with every token in the contract.
SPECIFICATION Spec
CONSTANTS
    alice = alice
    bob = bob
    C = C
    Z = Z
    Account = {alice, bob}
    Contract = C
    ZeroAddress = Z
    None = None
    Username = {u1}
    Text = {short}
    LongText = {}
    Token = {t1}
    Amount = {0, 1, 2}
    FeeInput = {0, 5000, 10000, 10001}
    CapInput = {0, 1}
    MinInput <- MCMinimums
    AdminInput <- MCSuccessors
    RecipientInput <- MCAllRecipients
    DepositTarget = {C}
    Supply = 2
    MAX_U32 = 2
    MAX_U64 = 2
    MAX_I128 = 15000
VIEW WithoutRecords
CHECK_DEADLOCK FALSE
INVARIANTS
    TypeOK
    FeeAlwaysPayable
PROPERTIES
    TipSettlesExactly
    SurplusPreserved
    AdminSuccession
    PausedFreezesUsers
