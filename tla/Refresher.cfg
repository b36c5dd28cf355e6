SPECIFICATION FairSpec
CONSTANTS
    Methods = {"REGISTER", "PUBLISH", "SUBSCRIBE"}
    Codes = {200, 302, 401, 412, 423, 480, 491, 503, 603}
    Calls = {"none", "stop", "refresh", "unrefresh"}
INVARIANTS
    TypeOK
    NeverAbandoned
    QuietOnceStopped
    PublishesInSequence
PROPERTIES
    DelayedPublishSent
CHECK_DEADLOCK FALSE
