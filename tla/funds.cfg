\* Tips, fees, withdrawals and exits in two tokens: every order of two
\* accounts that may be supporter, creator and fee recipient at once.
SPECIFICATION Spec
CONSTANTS
    alice = alice
    bob = bob
    C = C
    Z = Z
    Account = {alice, bob}
    Contract = C
    ZeroAddress = Z
    None = None
    Username = {u1, u2}
    Text = {short}
    LongText = {}
    Token = {t1, t2}
    Amount = {1, 2}
    FeeInput = {0, 5000, 10000}
    CapInput = {0}
    MinInput = {0}
    AdminInput <- MCNobody
    RecipientInput <- MCRecipients
    DepositTarget <- MCNobody
    Supply = 2
    MAX_U32 = 2
    MAX_U64 = 2
    MAX_I128 = 100000
SYMMETRY Symmetry
VIEW WithoutRecords
INVARIANTS
    NoStrandedCredit
    TrackedTokensBacked
    Solvent
    CreditWithdrawable
PROPERTIES
    CreditLeavesToOwner
    ImplementsEscrow
