\* Registration, exits and re-registration under changing caps and pauses; one
\* token with a unit of supply per account keeps the money part minimal.
SPECIFICATION Spec
CONSTANTS
    alice = alice
    bob = bob
    C = C
    Z = Z
    Account = {alice, bob}
    Contract = C
    ZeroAddress = Z
    None = None
    Username = {u1, u2}
    Text = {short, other, long}
    LongText = {long}
    Token = {t1}
    Amount = {1}
    FeeInput = {0}
    CapInput = {0, 1}
    MinInput = {0}
    AdminInput <- MCNobody
    RecipientInput <- MCRecipients
    DepositTarget = {C}
    Supply = 1
    MAX_U32 = 2
    MAX_U64 = 2
    MAX_I128 = 100000
SYMMETRY Symmetry
INVARIANTS
    RegistryConsistent
    CreatorCountExact
    HistoryContiguous
    ExitIffSettled
PROPERTIES
    CapsBoundGrowth
    LiveHistoryImmutable
    ImplementsRegistry
