\* Batches over two creators at fees of 0, 25 and 100 percent, until the
\* supporters' 11 units are spent.
SPECIFICATION BatchSpec
CONSTANTS
    admin = admin
    recipient = recipient
    c1 = c1
    c2 = c2
    tipper = tipper
    C = C
    Z = Z
    t1 = t1
    Account = {admin, recipient, c1, c2, tipper}
    Contract = C
    ZeroAddress = Z
    None = None
    Username = {u1, u2}
    Text = {short}
    LongText = {}
    Token = {t1}
    Amount = {1, 4, 5}
    FeeInput = {0, 2500, 10000}
    CapInput = {0}
    MinInput = {0}
    AdminInput <- MCNobody
    RecipientInput <- MCRecipients
    DepositTarget <- MCNobody
    Supply = 11
    MAX_U32 = 2
    MAX_U64 = 11
    MAX_I128 = 110000
    BatchAdmin = admin
    BatchRecipient = recipient
    BatchToken = t1
    Creator1 = c1
    Creator2 = c2
    Tipper = tipper
VIEW WithoutRecords
INVARIANTS
    OracleAgrees
    TipFailsIffPaused
