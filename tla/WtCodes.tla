------------------------------- MODULE WtCodes -------------------------------
(***************************************************************************)
(* The mapping of a 32-bit WebTransport application error code to the      *)
(* HTTP/3 code that carries it (h3wt_callback.h).  HTTP/3 reserves every   *)
(* codepoint 0x1f * N + 0x21, so the range of the mapping skips one        *)
(* codepoint after each run of 0x1e codes.  FirstCode and LastCode are     *)
(* AIOPQUIC_WT_APP_ERROR_FIRST and _LAST, MaxCode the largest application  *)
(* code (0xffffffff), SessionGone WT_SESSION_GONE (0x170d7b68): the checked *)
(* instance shortens the range and keeps the residue of its start and the  *)
(* place of SessionGone in it, the theorems hold for any of them.          *)
(***************************************************************************)
EXTENDS Integers

CONSTANTS FirstCode, LastCode, MaxCode, SessionGone

\* 0x52e4a40fa8db leaves 3 modulo 0x1f, so that the first 0x1e codepoints of
\* the range are free; the range ends where the last code is carried.
ASSUME CodesAssumption ==
    /\ FirstCode \in Nat /\ LastCode \in Nat /\ MaxCode \in Nat
    /\ MaxCode < FirstCode
    /\ SessionGone \in 0 .. MaxCode
    /\ FirstCode % 31 = 3
    /\ LastCode = FirstCode + MaxCode + MaxCode \div 30

Reserved(h) == (h - 33) % 31 = 0

\* The skip placed one code late.
CodeToH3Late(code) ==
    IF code > MaxCode THEN code ELSE FirstCode + code + code \div 31

\* aiopquic_wt_code_to_h3: a code above 32 bits is an HTTP/3 code already.
CodeToH3(code) ==
    IF code > MaxCode THEN code ELSE FirstCode + code + code \div 30

\* aiopquic_wt_code_from_h3
CodeFromH3(h) ==
    IF h < FirstCode \/ h > LastCode \/ Reserved(h)
    THEN h
    ELSE (h - FirstCode) - (h - FirstCode) \div 31
==============================================================================
