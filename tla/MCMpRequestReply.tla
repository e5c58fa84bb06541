--------------------------- MODULE MCMpRequestReply ---------------------------
(***************************************************************************)
(* Two launches: of Multiple_Sender_MP one secondary, which retries and    *)
(* handles signals, and of Multiple_Msg_Passing two secondaries, which ask *)
(* at the same time and once per request.                                  *)
(***************************************************************************)
EXTENDS MpRequestReply

CONSTANTS retrier, first, second

MCSecondaries == {retrier, first, second}
MCLaunches == {{retrier}, {first, second}}

\* The code's 3 requests; bound: the other of two concurrent secondaries makes 2.
MCNREQUESTS == [s \in MCSecondaries |-> IF s = second THEN 2 ELSE 3]

\* As in the code.
MCMAX_RETRIES == [s \in MCSecondaries |-> IF s = retrier THEN 3 ELSE 1]
MCHandlesSignals == {retrier}
===============================================================================
