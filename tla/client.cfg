\* The script of alice, run twice, while bob administers
\* the contract, competes for the name and tips her as well.
SPECIFICATION FairClientSpec
CONSTANTS
    alice = alice
    bob = bob
    C = C
    Z = Z
    u1 = u1
    short = short
    t1 = t1
    Account = {alice, bob}
    Contract = C
    ZeroAddress = Z
    None = None
    Username = {u1}
    Text = {short}
    LongText = {}
    Token = {t1}
    Amount = {1}
    FeeInput = {0}
    CapInput = {0}
    MinInput = {0}
    AdminInput <- MCNobody
    RecipientInput <- MCRecipients
    DepositTarget <- MCNobody
    Supply = 2
    MAX_U32 = 2
    MAX_U64 = 3
    MAX_I128 = 100000
    Owner = alice
    Handle = u1
    Bio = short
    Asset = t1
    TipAmount = 1
    BuildTime = {0, 1}
    MAX_POLLS = 2
    MAX_RUNS = 2
INVARIANTS
    TipsOnce
    PrintedIndexIsOwnTip
    RegistrationShown
PROPERTIES
    ScriptEnds
