------------------------------- MODULE MCBulkRX -------------------------------
(***************************************************************************)
(* Instances of BulkRX for TLC.                                            *)
(***************************************************************************)
EXTENDS BulkRX

\* Nothing, less than a message, and one or two messages with and without a
\* remainder, for messages of two bytes.
AllLengths == 0..4

\* reset() while read() is not using a buffer.
BetweenReads == {"idle", "resume"}
===============================================================================
