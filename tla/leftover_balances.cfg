\* Does unregister remove all Balance entries?  (docs/API_REFERENCE.md:144)
SPECIFICATION Spec
CONSTANTS
    alice = alice
    bob = bob
    C = C
    Z = Z
    Account = {alice, bob}
    Contract = C
    ZeroAddress = Z
    None = None
    Username = {u1}
    Text = {short}
    LongText = {}
    Token = {t1}
    Amount = {1}
    FeeInput = {0, 10000}
    CapInput = {0}
    MinInput = {0}
    AdminInput <- MCNobody
    RecipientInput <- MCRecipients
    DepositTarget <- MCNobody
    Supply = 1
    MAX_U32 = 2
    MAX_U64 = 2
    MAX_I128 = 100000
INVARIANTS
    UnregisterPurgesBalances
