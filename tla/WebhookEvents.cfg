\* One payment of two units, a top-up or not, refunded in parts and disputed, two
\* deliveries at once.
SPECIFICATION Spec
CONSTANTS
    c1 = c1  v1 = v1
    Payments = {c1}  Advertisers = {v1}
    Payer <- OnePayer  Amount <- TwoUnits
    Handlers = {h1, h2}  None = None
INVARIANTS
    TypeOK ReversalsReconcile AcknowledgedIsApplied
PROPERTY
    ImplementsAccount
SYMMETRY Symmetric
