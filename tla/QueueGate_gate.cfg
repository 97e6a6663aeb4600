SPECIFICATION GwFairSpec
CONSTANTS
    Requests = {r1, r2, r3, r4, r5}
    G0Cap <- Gate0
    G1Cap <- Gate1
    Settings <- AllSettings
INVARIANTS TicketConservation QueueConsistent NoIdleTicket NeverWaits
PROPERTIES KeepsItsPlace Answered ImplementsAdmission
CHECK_DEADLOCK FALSE
