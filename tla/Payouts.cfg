\* Two overlapping runs and one publisher.  Money accrues in lots of three units,
\* of two to the cent, so that a unit stays behind.  A key lives long enough to be made,
\* to outlive a run and to be forgotten before the clock stops.
SPECIFICATION Spec
CONSTANTS
    Publishers = {p1}  Runs = {r1, r2}  Payments = {i1, i2}  None = None
    Hold = 1  Threshold = 2  Cent = 2  KeyLife = 2  MaxDuration = 1
    Accruals = {3}  MaxAccrued = 6  MaxClock = 5
INVARIANTS
    TypeOK PaidOnlyMatured TransferredOnce DebitsAreRows
SYMMETRY Symmetric
