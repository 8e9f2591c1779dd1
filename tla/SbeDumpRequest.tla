--------------------------- MODULE SbeDumpRequest ---------------------------
(***************************************************************************)
(* collectdump/dump_utils.cpp: requestSBEDump asks the dump manager for an  *)
(* SBE dump (getService, CreateDump) and monitorDump then watches the       *)
(* Progress interface of the new dump object until its Status leaves        *)
(* InProgress or the timeout is used up.                                    *)
(*                                                                         *)
(* Three parties: the requester, the dump manager (a D-Bus service outside  *)
(* this repository) and the bus connection monitorDump opens, which queues  *)
(* a signal only once its match is registered.                              *)
(***************************************************************************)
EXTENDS Naturals, Sequences

CONSTANTS
  Timeout,        \* SBE_DUMP_TIMEOUT: 240 in the code
  CountModulus,   \* secondsCount is a uint32_t: 2^32 in the code
  MaxOther        \* bound: messages that say nothing about the end of the dump

ASSUME TimeoutAssumption ==
  /\ Timeout \in Nat \ {0}
  /\ CountModulus \in Nat
  /\ Timeout < CountModulus
ASSUME MaxOtherAssumption == MaxOther \in Nat

\* Messages on monitorDump's connection: a Status that is no longer InProgress;
\* a Status that still is; a change of other Progress properties; one that is
\* no property change at all and matches nothing (the connection's own name).
Messages == {"Over", "InProgress", "OtherProperty", "NoMatch"}

\* Bound: longer waits are not told apart.
MaxElapsed == Timeout + 1

VARIABLES
  rpc,            \* where the requester is
  reply,          \* the dump manager's answer to CreateDump
  dump,           \* the dump object: does it exist, is it still in progress
  queue,          \* messages on the connection, not processed yet
  others,         \* how many messages other than "Over" were sent
  inProgress,     \* monitorDump's flag, cleared by dumpStatusChanged
  timedOut,       \* monitorDump's flag of that name
  secondsCount,   \* monitorDump's counter of that name
  elapsed,        \* seconds the loop has really waited, up to MaxElapsed
  missed          \* history: the dump was over before the match was registered

requesterVars == <<rpc, inProgress, timedOut, secondsCount, elapsed, missed>>
vars == <<rpc, reply, dump, queue, others, inProgress, timedOut, secondsCount,
          elapsed, missed>>

Ended      == {"returned", "threw"}
Monitoring == {"wait", "process"}

TypeOK ==
  /\ rpc \in {"lookup", "call", "reply", "subscribe"} \cup Monitoring \cup Ended
  /\ reply \in {"unasked", "pending", "path", "Disabled", "error"}
  /\ dump \in {"none", "InProgress", "Over"}
  /\ queue \in Seq(Messages)
  /\ others \in 0 .. MaxOther
  /\ inProgress \in BOOLEAN
  /\ timedOut \in BOOLEAN
  /\ secondsCount \in 0 .. Timeout
  /\ elapsed \in 0 .. MaxElapsed
  /\ missed \in BOOLEAN

Init ==
  /\ rpc = "lookup"
  /\ reply = "unasked"
  /\ dump = "none"
  /\ queue = <<>>
  /\ others = 0
  /\ inProgress = TRUE
  /\ timedOut = FALSE
  /\ secondsCount = 0
  /\ elapsed = 0
  /\ missed = FALSE

-----------------------------------------------------------------------------
(* The requester: requestSBEDump. *)

Move(from, to) ==
  /\ rpc = from
  /\ rpc' = to
  /\ UNCHANGED <<reply, dump, queue, others, inProgress, timedOut,
                 secondsCount, elapsed, missed>>

\* getService: the mapper names the service, fails, or has no answer.
GetService ==
  \/ Move("lookup", "call")
  \/ Move("lookup", "threw")

\* CreateDump is sent, or cannot be.
CallCreateDump ==
  \/ /\ rpc = "call"
     /\ rpc' = "reply"
     /\ reply' = "pending"
     /\ UNCHANGED <<dump, queue, others, inProgress, timedOut, secondsCount,
                    elapsed, missed>>
  \/ Move("call", "threw")

\* The reply, or the end of bus.call's own timeout.  Only the error that says
\* dumps are disabled is swallowed; every other one is thrown again.
TakeReply ==
  \/ reply = "path"     /\ Move("reply", "subscribe")
  \/ reply = "Disabled" /\ Move("reply", "returned")
  \/ reply = "error"    /\ Move("reply", "threw")
  \/ reply = "pending"  /\ Move("reply", "threw")

\* monitorDump opens a connection of its own and registers the match on it:
\* what was signalled earlier is not delivered.
Subscribe ==
  \/ /\ rpc = "subscribe"
     /\ rpc' = "wait"
     /\ missed' = (dump = "Over")
     /\ UNCHANGED <<reply, dump, queue, others, inProgress, timedOut,
                    secondsCount, elapsed>>
  \/ Move("subscribe", "threw")

\* bus.wait(1 s) comes back at once when a message is there, and else when one
\* arrives or the second is over.
Wait ==
  /\ rpc = "wait"
  /\ rpc' = "process"
  /\ \/ UNCHANGED elapsed
     \/ queue = <<>> /\ elapsed < MaxElapsed /\ elapsed' = elapsed + 1
  /\ UNCHANGED <<reply, dump, queue, others, inProgress, timedOut,
                 secondsCount, missed>>

\* Faults: any change on the Progress interface ends the loop; the end of the
\* dump is taken and forgotten.
AnyChangeClears(m) == m # "NoMatch"
NothingClears(m)   == m \notin Messages

\* dumpStatusChanged clears the flag.
Clears(m) == m = "Over"

\* Faults: the count is compared before it is incremented, or not at all.
CountLate  == secondsCount = Timeout
CountNever == FALSE

\* process_discard handles one message; the others stay.
AfterOne(q) == Tail(q)

\* The counter reaches the timeout with this turn of the loop.
LastTurn == secondsCount + 1 = Timeout

\* A message is handled if there is one; the turn is counted whether or not a
\* second has passed; then the loop's condition is evaluated.
Process ==
  /\ rpc = "process"
  /\ IF queue = <<>>
     THEN UNCHANGED <<queue, inProgress>>
     ELSE /\ queue' = AfterOne(queue)
          /\ inProgress' = (inProgress /\ ~Clears(Head(queue)))
  /\ secondsCount' = (secondsCount + 1) % CountModulus
  /\ timedOut' = LastTurn
  /\ rpc' = IF inProgress' /\ ~timedOut' THEN "wait" ELSE "returned"
  /\ UNCHANGED <<reply, dump, others, elapsed, missed>>

\* wait, process and the read of a message can throw out of the loop.
MonitorThrows ==
  \/ Move("wait", "threw")
  \/ Move("process", "threw")

-----------------------------------------------------------------------------
(* The dump manager, and the bus. *)

\* The manager may handle the request after the requester has given up on it.
HandleCreate ==
  /\ reply = "pending"
  /\ \/ dump' = "InProgress" /\ reply' \in {"path", "error"}
     \/ UNCHANGED dump /\ reply' \in {"Disabled", "error"}
  /\ UNCHANGED <<queue, others>>
  /\ UNCHANGED requesterVars

Deliver(m) == queue' = IF rpc \in Monitoring THEN Append(queue, m) ELSE queue

\* Status becomes Completed, Failed or Aborted, and the change is signalled.
FinishDump ==
  /\ dump = "InProgress"
  /\ dump' = "Over"
  /\ Deliver("Over")
  /\ UNCHANGED <<reply, others>>
  /\ UNCHANGED requesterVars

\* A message that does not say that the dump is over.
SendOther(m) ==
  /\ others < MaxOther
  /\ others' = others + 1
  /\ m \in Messages \ {"Over"}
  /\ m = "InProgress" => dump = "InProgress"
  /\ m = "OtherProperty" => dump # "none"
  /\ rpc \in Monitoring
  /\ Deliver(m)
  /\ UNCHANGED <<reply, dump>>
  /\ UNCHANGED requesterVars

-----------------------------------------------------------------------------

Request ==
  \/ GetService
  \/ CallCreateDump
  \/ TakeReply
  \/ Subscribe
  \/ Wait
  \/ Process
  \/ MonitorThrows

\* The requester is done; the dump manager may stay idle for ever.
Finished ==
  /\ rpc \in Ended
  /\ UNCHANGED vars

Next ==
  \/ Request
  \/ HandleCreate
  \/ FinishDump
  \/ \E m \in Messages : SendOther(m)
  \/ Finished

\* The requester's process runs, and its blocking calls return.  Nothing is
\* assumed of the dump manager: it may never answer, nor ever end a dump.
Spec == Init /\ [][Next]_vars /\ WF_vars(Request)

-----------------------------------------------------------------------------
(* Properties. *)

\* requestSBEDump returns without a timeout only if dumps are disabled or the
\* dump it asked for is over: no other message ends the loop, no error is
\* taken for success (L39-52, L86-96, L150-161).
ReturnIsJustified ==
  rpc = "returned" =>
    \/ reply = "Disabled" /\ secondsCount = 0
    \/ reply = "path" /\ timedOut
    \/ reply = "path" /\ dump = "Over"

\* Once the match is registered no end of the dump is lost: as long as the
\* loop has not seen it, it is in the queue (L72-79, L88-89).  An end before that
\* is never seen, and logged as a status that did not change (L98-99).
EndIsQueued ==
  rpc \in Monitoring /\ inProgress /\ dump = "Over" /\ ~missed =>
    \E i \in 1 .. Len(queue) : queue[i] = "Over"

\* The loop turns at most Timeout times and so waits at most Timeout seconds;
\* if it gives up, it has turned exactly that often (L86-95).
WaitIsBounded ==
  /\ elapsed <= Timeout
  /\ timedOut => secondsCount = Timeout

\* The request ends, however the dump manager behaves.
RequestEnds == <>(rpc \in Ended)

=============================================================================
