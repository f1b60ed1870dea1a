SPECIFICATION ControlSpec
CONSTANTS
    INTERVAL = 2
    TIMEOUT = 6
    MaxMillis = 12
    Unset = Unset
    Offers <- MCOffers
    PayloadIds = {1, 2}
    MaxDelay = 1
    MaxSaid = 2
INVARIANTS NoFalseDeath PairingIsSound AckedWasDelivered
PROPERTIES SilenceIsNoticed ExchangesSettle
CHECK_DEADLOCK FALSE
