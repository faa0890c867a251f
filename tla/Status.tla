------------------------------- MODULE Status -------------------------------
(***************************************************************************)
(* Return codes of ykhsmauth and translate_error, the map from a card     *)
(* status word to a return code (ykhsmauth.c 64-89).  The status words    *)
(* are the SW_* constants of internal.h, given numeric values in the MC   *)
(* modules.                                                               *)
(***************************************************************************)
EXTENDS Integers

CONSTANTS
    SW_SUCCESS, SW_AUTHENTICATION_FAILED, SW_FILE_FULL, SW_FILE_NOT_FOUND,
    SW_WRONG_DATA, SW_MEMORY_ERROR, SW_SECURITY_STATUS_NOT_SATISFIED,
    SW_FILE_INVALID, SW_DATA_INVALID, SW_INS_NOT_SUPPORTED

\* ykhsmauth_rc values.
RetCodes == {"SUCCESS", "MEMORY_ERROR", "PCSC_ERROR", "GENERIC_ERROR",
             "WRONG_PW", "INVALID_PARAMS", "ENTRY_NOT_FOUND", "STORAGE_FULL",
             "TOUCH_ERROR", "ENTRY_INVALID", "DATA_INVALID", "NOT_SUPPORTED"}

\* Mutation variant of HighBits: the mask written as 0xffff, so only 63c0
\* itself is recognised.
HighBitsExact(sw) == sw

\* sw & 0xfff0 for a 16-bit status word (sw is an int holding 0..0xffff).
HighBits(sw) == sw - (sw % 16)

\* translate_error's result, the first matching branch of its if-chain.
TranslateError(sw) ==
    CASE HighBits(sw) = SW_AUTHENTICATION_FAILED -> "WRONG_PW"
      [] sw = SW_FILE_FULL                       -> "STORAGE_FULL"
      [] sw = SW_FILE_NOT_FOUND                  -> "ENTRY_NOT_FOUND"
      [] sw = SW_WRONG_DATA                      -> "INVALID_PARAMS"
      [] sw = SW_MEMORY_ERROR                    -> "MEMORY_ERROR"
      [] sw = SW_SECURITY_STATUS_NOT_SATISFIED   -> "TOUCH_ERROR"
      [] sw = SW_FILE_INVALID                    -> "ENTRY_INVALID"
      [] sw = SW_DATA_INVALID                    -> "DATA_INVALID"
      [] sw = SW_INS_NOT_SUPPORTED               -> "NOT_SUPPORTED"
      [] OTHER                                   -> "GENERIC_ERROR"

\* The value translate_error stores through `retries' (sw & ~0xfff0), or
\* NoWrite when it leaves the caller's byte alone.
TranslateRetries(sw, NoWrite) ==
    IF HighBits(sw) = SW_AUTHENTICATION_FAILED THEN sw % 16 ELSE NoWrite
=============================================================================
