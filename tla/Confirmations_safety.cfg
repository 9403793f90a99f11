SPECIFICATION Spec
CONSTANTS
    r1 = r1
    r2 = r2
    p1 = p1
    Requests = {r1,r2,p1}
    Timed = {r1}
    Posted = {p1}
    Cancellable = {r1}
    Widgets = {r2}
    Faulty = TRUE
    MaxCrashes = 1
    None = None
CHECK_DEADLOCK FALSE
INVARIANT TypeOK
INVARIANT QueueHoldsWaiters
INVARIANT SlotMatchesEvent
INVARIANT ActedOnce
INVARIANT ApprovalOnRecord
PROPERTY PromotionIsFifo
INVARIANT QueueHasPromoter
