\* get_challenge and get_pubkey copy the whole reply into the caller's buffer.
CONSTANTS
    DataCap = 255
    RecvCap = 256
    PW_LEN = 16
    MIN_LABEL_LEN = 1
    MAX_LABEL_LEN = 64
    SESSION_KEY_LEN = 16
    CARD_CRYPTO_LEN = 8
    ECP256_PUBKEY_LEN = 65
    ECP256_PRIVKEY_LEN = 32
    AES128_ALGO = 38
    ECP256_ALGO = 39
    TAG_LABEL = 113
    TAG_PW = 115
    TAG_ALGO = 116
    TAG_KEY_ENC = 117
    TAG_KEY_MAC = 118
    TAG_CONTEXT = 119
    TAG_RESPONSE = 120
    TAG_TOUCH = 122
    TAG_MGMKEY = 123
    TAG_PUBKEY = 124
    TAG_PRIVKEY = 125
    Touches = {1}
    SW_SUCCESS <- MC_SW_SUCCESS
    SW_AUTHENTICATION_FAILED <- MC_SW_AUTHENTICATION_FAILED
    SW_FILE_FULL <- MC_SW_FILE_FULL
    SW_FILE_NOT_FOUND <- MC_SW_FILE_NOT_FOUND
    SW_WRONG_DATA <- MC_SW_WRONG_DATA
    SW_MEMORY_ERROR <- MC_SW_MEMORY_ERROR
    SW_SECURITY_STATUS_NOT_SATISFIED <- MC_SW_SECURITY_STATUS_NOT_SATISFIED
    SW_FILE_INVALID <- MC_SW_FILE_INVALID
    SW_DATA_INVALID <- MC_SW_DATA_INVALID
    SW_INS_NOT_SUPPORTED <- MC_SW_INS_NOT_SUPPORTED
    StatusWords <- MC_StatusWords
    RawLens <- MC_RawLens
    LabelLens <- MC_LabelLens
    MgmkeyLens <- MC_MgmkeyLens
    KeyLens <- MC_KeyLens
    PwLens <- MC_PwLens
    Algos <- MC_Algos
    ContextLens <- MC_ContextLens
    PubkeyLens <- MC_PubkeyLens
    CryptoLens <- MC_CryptoLens
    CapLens <- MC_CapLens
    VersionLens <- MC_VersionLens
SPECIFICATION Spec
INVARIANT BlobFitsCaller
