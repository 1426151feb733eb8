----------------------------- MODULE MCMsgReader -----------------------------
(***************************************************************************)
(* Small instances of MsgReader: a header of 2 bytes of 4 values, so that    *)
(* the length field has 16 and msg_len_read counts to 3.                     *)
(***************************************************************************)
EXTENDS MsgReader
=============================================================================
