---------------------------- MODULE MpRequestReply ----------------------------
(***************************************************************************)
(* Multiple_Sender_MP/: several secondary processes each ask the primary   *)
(* NREQUESTS times for its statistics over the multi-process channel, with *)
(* MAX_RETRIES attempts per request, a timeout per attempt and a signal    *)
(* handler.  With one attempt and no handler it is the loop of             *)
(* Multiple_Msg_Passing/, and with one request as well the exchange of     *)
(* Message_Passing_DPDK/: what its program gives a secondary is a function *)
(* of the secondary, and those launched together are of one program.       *)
(*                                                                         *)
(* The channel is external: a FIFO socket per process, and in a secondary  *)
(* one pending request, found by its name alone.  A reply that finds a     *)
(* request pending fills its buffer, whichever attempt it answers; one     *)
(* that finds none is dropped.  Sleeps and the callback's duration are the *)
(* freedom of the scheduler; a timeout may always come first.              *)
(*                                                                         *)
(* A definition commented "Fault" is a bug this code could have had; it is *)
(* part of no behaviour, and shows that a property can tell it apart.      *)
(***************************************************************************)
EXTENDS Naturals, Sequences, FiniteSets

CONSTANTS
  Secondaries,
  Launches,        \* which secondaries may be launched, together
  NREQUESTS,       \* iterations of a secondary's request loop (3)
  MAX_RETRIES,     \* its attempts per request
  HandlesSignals,  \* the secondaries whose force_quit SIGINT sets
  NoReply          \* the reply buffer of a request that was not answered

ASSUME MpAssumption ==
  /\ Launches \subseteq SUBSET Secondaries
  /\ NREQUESTS \in [Secondaries -> Nat]
  /\ MAX_RETRIES \in [Secondaries -> Nat \ {0}]
  /\ HandlesSignals \subseteq Secondaries

VARIABLES
  registered,      \* primary: rte_mp_action_register was called
  request_count,   \* primary: atomic_int
  requests,        \* the primary's socket, oldest first
  replies,         \* each secondary's socket, oldest first
  slot,            \* reply buffer of each secondary's pending request
  pc, i, retry, force_quit,
  timeouts,        \* history: attempts of each secondary that ended unanswered
  accepted         \* history: what each secondary took for answers, oldest first

primaryVars == <<registered, request_count>>
loopVars == <<i, retry, force_quit>>
vars == <<primaryVars, requests, replies, slot, pc, loopVars, timeouts, accepted>>

\* A secondary that is never launched is like one that has ended.
Init ==
  /\ registered = FALSE /\ request_count = 0
  /\ requests = <<>>
  /\ replies = [s \in Secondaries |-> <<>>]
  /\ slot = [s \in Secondaries |-> NoReply]
  /\ \E launched \in Launches :
       pc = [s \in Secondaries |-> IF s \in launched THEN "for" ELSE "exited"]
  /\ i = [s \in Secondaries |-> 0]
  /\ retry = [s \in Secondaries |-> 0]
  /\ force_quit = [s \in Secondaries |-> FALSE]
  /\ timeouts = [s \in Secondaries |-> 0]
  /\ accepted = [s \in Secondaries |-> <<>>]

Goes(s, from, to) ==
  /\ pc[s] = from
  /\ pc' = [pc EXCEPT ![s] = to]

-------------------------------------------------------------------------------
(* The secondary *)

\* for (i = 1; i <= 3 && !force_quit; i++)
Iterate(s) ==
  /\ i[s] < NREQUESTS[s] /\ ~force_quit[s]
  /\ Goes(s, "for", "attempt")
  /\ i' = [i EXCEPT ![s] = @ + 1]
  /\ retry' = [retry EXCEPT ![s] = 0]
  /\ UNCHANGED <<primaryVars, requests, replies, slot, force_quit, timeouts, accepted>>

EndLoop(s) ==
  /\ ~(i[s] < NREQUESTS[s] /\ ~force_quit[s])
  /\ Goes(s, "for", "cleanup")
  /\ UNCHANGED <<primaryVars, requests, replies, slot, loopVars, timeouts, accepted>>

\* Fault: one attempt too many.
MayTryOnceMore(s) == retry[s] <= MAX_RETRIES[s] /\ ~force_quit[s]

\* Fault: the inner loop does not look at force_quit.
MayTryRegardless(s) == retry[s] < MAX_RETRIES[s]

\* while (retry < MAX_RETRIES && !success && !force_quit); a success leaves the loop.
MayTry(s) == retry[s] < MAX_RETRIES[s] /\ ~force_quit[s]

\* A retry sleeps between the test and the attempt.
Try(s) ==
  /\ MayTry(s)
  /\ Goes(s, "attempt", "trying")
  /\ UNCHANGED <<primaryVars, requests, replies, slot, loopVars, timeouts, accepted>>

\* rte_mp_request_sync sends, and waits with an empty reply buffer.
Send(s) ==
  /\ Goes(s, "trying", "waiting")
  /\ requests' = Append(requests, [from |-> s, iteration |-> i[s]])
  /\ slot' = [slot EXCEPT ![s] = NoReply]
  /\ UNCHANGED <<primaryVars, replies, loopVars, timeouts, accepted>>

\* It could not send, and returns at once.
SendFails(s) ==
  /\ Goes(s, "trying", "attempt")
  /\ retry' = [retry EXCEPT ![s] = @ + 1]
  /\ UNCHANGED <<primaryVars, requests, replies, slot, i, force_quit, timeouts, accepted>>

\* "All retries failed": on to the next iteration.
GiveUp(s) ==
  /\ ~MayTry(s)
  /\ Goes(s, "attempt", "for")
  /\ UNCHANGED <<primaryVars, requests, replies, slot, loopVars, timeouts, accepted>>

\* Fault: the wait has no time limit.
NoTimeout(s) == FALSE

Timeout(s) ==
  /\ slot[s] = NoReply
  /\ Goes(s, "waiting", "attempt")
  /\ retry' = [retry EXCEPT ![s] = @ + 1]
  /\ timeouts' = [timeouts EXCEPT ![s] = @ + 1]
  /\ UNCHANGED <<primaryVars, requests, replies, slot, i, force_quit, accepted>>

\* A reply is in the buffer: success.  It is printed and freed.
Receive(s) ==
  /\ slot[s] # NoReply
  /\ Goes(s, "waiting", "for")
  /\ accepted' = [accepted EXCEPT ![s] = Append(@, [reply |-> slot[s], iteration |-> i[s]])]
  /\ slot' = [slot EXCEPT ![s] = NoReply]
  /\ UNCHANGED <<primaryVars, requests, replies, loopVars, timeouts>>

\* The process ends, and its socket with it.
Exit(s) ==
  /\ Goes(s, "cleanup", "exited")
  /\ replies' = [replies EXCEPT ![s] = <<>>]
  /\ UNCHANGED <<primaryVars, requests, slot, loopVars, timeouts, accepted>>

Secondary(s) ==
  \/ Iterate(s) \/ EndLoop(s) \/ Try(s) \/ Send(s) \/ SendFails(s) \/ GiveUp(s)
  \/ Timeout(s) \/ Receive(s) \/ Exit(s)

\* signal_handler, at any point of the process's life.
Signal(s) ==
  /\ s \in HandlesSignals
  /\ pc[s] # "exited"
  /\ ~force_quit[s]
  /\ force_quit' = [force_quit EXCEPT ![s] = TRUE]
  /\ UNCHANGED <<primaryVars, requests, replies, slot, pc, i, retry, timeouts, accepted>>

\* The secondary's channel thread takes a reply from the socket.
Deliver(s) ==
  /\ replies[s] # <<>>
  /\ replies' = [replies EXCEPT ![s] = Tail(@)]
  /\ slot' = IF pc[s] = "waiting" THEN [slot EXCEPT ![s] = Head(replies[s])] ELSE slot
  /\ UNCHANGED <<primaryVars, requests, pc, loopVars, timeouts, accepted>>

-------------------------------------------------------------------------------
(* The primary *)

Register ==
  /\ ~registered
  /\ registered' = TRUE
  /\ UNCHANGED <<request_count, requests, replies, slot, pc, loopVars, timeouts, accepted>>

\* No callback for this name yet: the channel thread drops the request.
Discard ==
  /\ ~registered
  /\ requests # <<>>
  /\ requests' = Tail(requests)
  /\ UNCHANGED <<primaryVars, replies, slot, pc, loopVars, timeouts, accepted>>

\* mp_callback's answer: "Response#%d"; the iteration is what a reader of the two
\* logs would match it with, no field of the message.
ReplyTo(req) == [number |-> request_count + 1, iteration |-> req.iteration]

\* Fault: the reply is sent a second time, to be sure.
ServeTwice ==
  /\ registered
  /\ requests # <<>>
  /\ LET req == Head(requests)
     IN \/ UNCHANGED replies
        \/ /\ pc[req.from] # "exited"
           /\ replies' = [replies EXCEPT ![req.from] = @ \o <<ReplyTo(req), ReplyTo(req)>>]
  /\ request_count' = request_count + 1
  /\ requests' = Tail(requests)
  /\ UNCHANGED <<registered, slot, pc, loopVars, timeouts, accepted>>

\* Fault: two callbacks read the same count, and one increment is lost.
ServeUncounted ==
  /\ registered
  /\ requests # <<>>
  /\ LET req == Head(requests)
     IN \/ UNCHANGED replies
        \/ /\ pc[req.from] # "exited"
           /\ replies' = [replies EXCEPT ![req.from] = Append(@, ReplyTo(req))]
  /\ requests' = Tail(requests)
  /\ UNCHANGED <<registered, request_count, slot, pc, loopVars, timeouts, accepted>>

\* mp_callback: count, and answer; rte_mp_reply may fail, and does if the sender is gone.
Serve ==
  /\ registered
  /\ requests # <<>>
  /\ LET req == Head(requests)
     IN \/ UNCHANGED replies
        \/ /\ pc[req.from] # "exited"
           /\ replies' = [replies EXCEPT ![req.from] = Append(@, ReplyTo(req))]
  /\ request_count' = request_count + 1
  /\ requests' = Tail(requests)
  /\ UNCHANGED <<registered, slot, pc, loopVars, timeouts, accepted>>

Primary == Register \/ Discard \/ Serve

Next ==
  \/ Primary
  \/ \E s \in Secondaries : Secondary(s) \/ Signal(s) \/ Deliver(s)

Spec == Init /\ [][Next]_vars

\* A secondary's sleeps and waits end.  Nothing is asked of the primary.
FairSpec == Spec /\ \A s \in Secondaries : WF_vars(Secondary(s))

-------------------------------------------------------------------------------
(* Properties *)

Reply == [number : Nat, iteration : Nat]

TypeOK ==
  /\ registered \in BOOLEAN
  /\ request_count \in Nat
  /\ requests \in Seq([from : Secondaries, iteration : Nat])
  /\ replies \in [Secondaries -> Seq(Reply)]
  /\ slot \in [Secondaries -> Reply \cup {NoReply}]
  /\ pc \in [Secondaries -> {"for", "attempt", "trying", "waiting", "cleanup", "exited"}]
  /\ i \in [Secondaries -> Nat] /\ \A s \in Secondaries : i[s] <= NREQUESTS[s]
  /\ retry \in [Secondaries -> Nat] /\ \A s \in Secondaries : retry[s] <= MAX_RETRIES[s]
  /\ force_quit \in [Secondaries -> BOOLEAN]
  /\ timeouts \in [Secondaries -> Nat]
  /\ accepted \in [Secondaries -> Seq([reply : Reply, iteration : Nat])]

\* Everything numbered for s that s has taken, holds or will find in its socket.
Numbers(s) ==
  LET taken == [k \in 1..Len(accepted[s]) |-> accepted[s][k].reply.number]
      held == IF slot[s] = NoReply THEN <<>> ELSE <<slot[s].number>>
      coming == [k \in 1..Len(replies[s]) |-> replies[s][k].number]
  IN taken \o held \o coming

\* Each secondary sees growing response numbers, and no number is given to two of
\* them, although replies come late and overwrite each other in the buffer
\* (prim.c:14, sec.c:79).
NumbersGrow ==
  /\ \A s \in Secondaries : \A j, k \in 1..Len(Numbers(s)) :
       j < k => Numbers(s)[j] < Numbers(s)[k]
  /\ \A s, t \in Secondaries : s # t =>
       \A j \in 1..Len(Numbers(s)) : \A k \in 1..Len(Numbers(t)) :
         Numbers(s)[j] # Numbers(t)[k]

\* The messages of s somewhere between its Send and its Receive.
InFlight(s) ==
  Cardinality({k \in 1..Len(requests) : requests[k].from = s}) + Len(replies[s])
    + (IF slot[s] = NoReply THEN 0 ELSE 1)

\* Each message on its way beyond the pending one is the trace of an attempt that
\* timed out: nothing is ever duplicated on the way.
BacklogIsTimeouts ==
  \A s \in Secondaries :
    InFlight(s) <= timeouts[s] + (IF pc[s] = "waiting" THEN 1 ELSE 0)

\* The answer a secondary prints for an iteration answers that iteration or an
\* earlier one, and an earlier one only if some attempt timed out (sec.c:79-98: a
\* retry and the next request have the name of those before).
StaleOnlyAfterTimeout ==
  \A s \in Secondaries : \A k \in 1..Len(accepted[s]) :
    LET a == accepted[s][k]
    IN /\ a.reply.iteration <= a.iteration
       /\ timeouts[s] = 0 => a.reply.iteration = a.iteration

\* SIGINT ends the request loop: a secondary finishes the attempt it has begun, one it
\* was sleeping for included, and begins no other, whatever replies come
\* (Multiple_Sender_MP/sec.c:49, 72-79).
NoAttemptAfterSignal ==
  [][\A s \in Secondaries :
       force_quit[s] /\ pc[s] \notin {"trying", "waiting"}
         => force_quit'[s] /\ pc'[s] \notin {"trying", "waiting"}]_vars

\* Every secondary ends, whatever the primary does or does not.
SecondariesExit == <>(\A s \in Secondaries : pc[s] = "exited")
===============================================================================
