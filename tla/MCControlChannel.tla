--------------------------- MODULE MCControlChannel ----------------------------
(***************************************************************************)
(* The control channel with a handful of messages for TLC.                 *)
(***************************************************************************)
EXTENDS ControlChannel

\* A cancel message of the models below cancels every task.
CancelAll == [c \in CancelMsgs |-> Assignments]
================================================================================
