------------------------------ MODULE MCMsgTask ------------------------------
(* A finite instance of MsgTask: two threads and the worker itself send.     *)
EXTENDS MsgTask

CONSTANTS jni, modem, hal

Senders == {jni, modem, hal}
=============================================================================
