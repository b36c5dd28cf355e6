SPECIFICATION Spec
CONSTANTS
    Methods = {"PUBLISH"}
    Codes = {200, 503}
    Calls = {"none"}
INVARIANT StopTerminates
CHECK_DEADLOCK FALSE
