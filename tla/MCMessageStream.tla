----------------------------- MODULE MCMessageStream -----------------------------
(* MessageStream with messages shorter than, as long as and longer than    *)
(* the buffer.                                                             *)
EXTENDS MessageStream

MixedLengths == <<2, 1, 3, 1>>
==================================================================================
