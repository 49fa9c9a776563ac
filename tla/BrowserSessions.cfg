SPECIFICATION FairSpec
CONSTANTS
    Tabs = {t1, t2}
    MaxChanges = 2
    CanHide = TRUE
    None = None

PROPERTIES
    RevokedTabGoes
    StreamComesBack
