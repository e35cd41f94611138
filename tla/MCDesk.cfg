SPECIFICATION DeskSpec
CONSTANTS
    Card <- AllCards
    MaxOutside = 1
    Slots = {1, 2}
    Cap = 1
    MaxElsewhere = 1
    MaxFlight = 2
INVARIANTS DeskTypeOK LandsAsShown SendsAccepted ModalHolds LockoutWarned
PROPERTIES UntouchedAsCarried OnlyPointedAt
