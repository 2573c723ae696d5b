CONSTANTS
    Gateway = {g1, g2}
    Nobody = Nobody
    TTL = 6
    RenewEvery = 3
    MaxCall = 1
    MaxFaults = 4
SPECIFICATION LeaseSpec
SYMMETRY Symmetry
INVARIANTS LeaseTypeOK AtMostOnePoller LossIsNoticed
