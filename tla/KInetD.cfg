\* One service, advertised by SLP and by DNS-SD, for longer than a registration.
SPECIFICATION Spec
CONSTANTS
    krfb = krfb
    other = other
    Services = {krfb}
    Ports = {1, 2}
    Registrable = {krfb}
    Publishable = {krfb}
    Base <- MCBase
    BaseRange <- MCBaseRange
    MaxRange = 2
    Lifetime = 4
    MaxTime = 6
INVARIANTS
    PortIsRetried
    ExpiredIsDisabled
    ListensWhereConfigured
    RegistrationIsRenewed
    AdvertisedPortIsOwn
