\* A record whose label fills the 65-byte field leaves it unterminated.
CONSTANTS
    TAG_LABEL_LIST = 114
    LabelCap = 65
    Caps = {0, 1, 2}
    Payloads <- MC_Payloads
    StatusWords <- MC_StatusWords
    SW_SUCCESS <- MC_SW_SUCCESS
    SW_AUTHENTICATION_FAILED <- MC_SW_AUTHENTICATION_FAILED
    SW_FILE_FULL <- MC_SW_FILE_FULL
    SW_FILE_NOT_FOUND <- MC_SW_FILE_NOT_FOUND
    SW_WRONG_DATA <- MC_SW_WRONG_DATA
    SW_MEMORY_ERROR <- MC_SW_MEMORY_ERROR
    SW_SECURITY_STATUS_NOT_SATISFIED <- MC_SW_SECURITY_STATUS_NOT_SATISFIED
    SW_FILE_INVALID <- MC_SW_FILE_INVALID
    SW_DATA_INVALID <- MC_SW_DATA_INVALID
    SW_INS_NOT_SUPPORTED <- MC_SW_INS_NOT_SUPPORTED
    ListNullModes = {FALSE}
SPECIFICATION FairSpec
INVARIANT LabelTerminated
