\* Two callers that may outlive their token; two e-mail slots.
CONSTANTS
    Caller = {g1, g2}
    Nobody = Nobody
    Sender = {e1, e2, e3}
    Second = 2
    TokenTTL = 4
    Margin = 2
    SignTime = 1
    CallTime = 4
    MaxEmails = 2
    EmailTimeout = 2
SPECIFICATION FairSpec
INVARIANTS
    TypeOK
    TokenLastsForTheMargin
    QuietFreesTheSlots
PROPERTIES
    CallersAreServed
