------------------------------- MODULE MCBulkTX -------------------------------
(***************************************************************************)
(* Instances of BulkTX for TLC.                                            *)
(***************************************************************************)
EXTENDS BulkTXInv

\* The signal handlers of test-USBBulk.cpp block no signal: each handler may
\* interrupt the other one (but not itself).
NestAll == {<<"timer", "usb">>, <<"usb", "timer">>}

\* reset() between two calls of write_impl.
BetweenCalls == {"idle", "connect", "wait", "acquire"}
===============================================================================
