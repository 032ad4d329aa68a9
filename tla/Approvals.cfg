\* Bounds: two taps, two failed requests, failed writes or restarts.
CONSTANTS
    c1 = c1
    c2 = c2
    Cards = {c1, c2}
    MaxTaps = 2
    MaxFaults = 2
SPECIFICATION FairSpec
INVARIANTS TypeOK ApprovalLatch AtMostOneOrder
PROPERTIES ClosedCardsStayClosed EveryCardDecided EveryTapRouted
