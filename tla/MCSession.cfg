\* Disconnect and done close every card handle of the session.
CONSTANTS
    Handles <- MC_Handles
    MaxReaders = 2
    SW_SUCCESS = 36864
    SW_AUTHENTICATION_FAILED = 25536
    SW_FILE_FULL = 27268
    SW_FILE_NOT_FOUND = 27266
    SW_WRONG_DATA = 27264
    SW_MEMORY_ERROR = 25985
    SW_SECURITY_STATUS_NOT_SATISFIED = 27010
    SW_FILE_INVALID = 27011
    SW_DATA_INVALID = 27012
    SW_INS_NOT_SUPPORTED = 27904
SPECIFICATION Spec
INVARIANT DisconnectReleasesAll
INVARIANT FailedConnectReleasesAll
PROPERTY SessionRefines
