\* Every call that is refused, remembered across whatever happens next, held
\* against the errors that are documented as never to be retried.
SPECIFICATION RefusalSpec
CONSTANTS
    alice = alice
    bob = bob
    C = C
    Z = Z
    Account = {alice, bob}
    Contract = C
    ZeroAddress = Z
    None = None
    Username = {u1}
    Text = {short, long}
    LongText = {long}
    Token = {t1}
    Amount = {0, 1, 2}
    FeeInput = {5000, 10001}
    CapInput = {1}
    MinInput <- MCMinimums
    AdminInput <- MCAdmins
    RecipientInput <- MCRecipients
    DepositTarget <- MCNobody
    Supply = 1
    MAX_U32 = 2
    MAX_U64 = 1
    MAX_I128 = 9999
INVARIANT NeverRetryIsFinal
