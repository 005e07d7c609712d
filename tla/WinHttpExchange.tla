----------------------------- MODULE WinHttpExchange -----------------------------
(* The HTTP client of the Windows build: sendRequest on the threads that ask *)
(* providers, and StreamControl, through which a thread that serves a client *)
(* cancels an exchange (src/win32/http_client.cpp). To cancel is to close    *)
(* the request's handle under the thread that uses it, which keeps the       *)
(* handle's value in a local variable.                                       *)
(*                                                                           *)
(* WinHTTP is external: a call on a closed handle fails, also one that is    *)
(* waiting, and the value of a closed handle may be given to the next        *)
(* request that is opened. A call on such a value is one on the other        *)
(* exchange's request.                                                       *)
EXTENDS FiniteSets, Naturals

CONSTANTS
  Exchanges, \* calls of sendRequest
  Streamed,  \* those of postStream, which have a StreamControl
  Handles,   \* values of request handles
  Null, NoOne

ASSUME ExchangesAssumption == Streamed \subseteq Exchanges /\ NoOne \notin Exchanges
ASSUME HandlesAssumption == Null \notin Handles

VARIABLES
  pc,        \* where each exchange is
  request,   \* its local variable
  owner,     \* of each handle: the exchange whose request is open under it
  request_handle, \* StreamControl's request_handle_ and cancelled_
  cancelled,
  closing,   \* the handles that the exchange's thread and its cancellers took out
             \* of the control and are about to close
  notified   \* the statuses that status_cb was called with

control == <<request_handle, cancelled>>
vars == <<pc, request, owner, control, closing, notified>>

\* Where a thread calls WinHTTP with its variable.
Operating == {"sending", "receiving", "headers", "reading"}
Status == {0, 200, 400, 499, 503}

TypeOK ==
  /\ pc \in [Exchanges -> {"new", "opened", "attached", "ending", "over"} \cup Operating]
  /\ request \in [Exchanges -> Handles \cup {Null}]
  /\ owner \in [Handles -> Exchanges \cup {NoOne}]
  /\ request_handle \in [Exchanges -> Handles \cup {Null}]
  /\ cancelled \in [Exchanges -> BOOLEAN]
  /\ closing \in [Exchanges -> [{"thread", "canceller"} -> Handles \cup {Null}]]
  /\ notified \in [Exchanges -> SUBSET Status]

Init ==
  /\ pc = [e \in Exchanges |-> "new"]
  /\ request = [e \in Exchanges |-> Null]
  /\ owner = [h \in Handles |-> NoOne]
  /\ request_handle = [e \in Exchanges |-> Null]
  /\ cancelled = [e \in Exchanges |-> FALSE]
  /\ closing = [e \in Exchanges |-> [by \in {"thread", "canceller"} |-> Null]]
  /\ notified = [e \in Exchanges |-> {}]

Goes(e, from, to) == pc[e] = from /\ pc' = [pc EXCEPT ![e] = to]
Notify(e, status) == notified' = [notified EXCEPT ![e] = @ \cup {status}]

--------------------------------------------------------------------------------
(* The thread of an exchange: sendRequest.                                   *)

\* WinHttpOpenRequest.
Open(e) ==
  /\ Goes(e, "new", "opened")
  /\ \E h \in Handles :
       /\ owner[h] = NoOne
       /\ owner' = [owner EXCEPT ![h] = e]
       /\ request' = [request EXCEPT ![e] = h]
  /\ UNCHANGED <<control, closing, notified>>

\* No session, no connection or no request: there is nothing to close.
OpenFails(e) ==
  /\ Goes(e, "new", "over")
  /\ Notify(e, 503)
  /\ UNCHANGED <<request, owner, control, closing>>

\* attach, under the control's mutex: the handle of an exchange that is cancelled
\* already is not kept, but closed.
Attach(e) ==
  /\ e \in Streamed /\ Goes(e, "opened", "attached")
  /\ request_handle' = [request_handle EXCEPT ![e] =
                          IF cancelled[e] THEN Null ELSE request[e]]
  /\ closing' = [closing EXCEPT ![e]["thread"] =
                   IF cancelled[e] THEN request[e] ELSE Null]
  /\ UNCHANGED <<request, owner, cancelled, notified>>

\* is_cancelled, once attach has closed what it had to.
Cancelled499(e) ==
  /\ closing[e]["thread"] = Null /\ cancelled[e]
  /\ Goes(e, "attached", "ending")
  /\ Notify(e, 499)
  /\ UNCHANGED <<request, owner, control, closing>>
Start(e) ==
  /\ \/ closing[e]["thread"] = Null /\ ~cancelled[e] /\ Goes(e, "attached", "sending")
     \/ e \notin Streamed /\ Goes(e, "opened", "sending")
  /\ UNCHANGED <<request, owner, control, closing, notified>>

\* A call succeeds only on an open handle.
Succeeds(e, from, to) == Goes(e, from, to) /\ owner[request[e]] # NoOne

SendRequest(e) ==
  /\ Succeeds(e, "sending", "receiving")
  /\ UNCHANGED <<request, owner, control, closing, notified>>
ReceiveResponse(e) ==
  /\ Succeeds(e, "receiving", "headers")
  /\ UNCHANGED <<request, owner, control, closing, notified>>
SendOrReceiveFails(e) ==
  /\ Goes(e, "sending", "ending") \/ Goes(e, "receiving", "ending")
  /\ Notify(e, 503)
  /\ UNCHANGED <<request, owner, control, closing>>

\* WinHttpQueryHeaders, whose failure nobody looks at: the status then stays 0.
QueryStatus(e) ==
  /\ Goes(e, "headers", "reading")
  /\ \E status \in IF owner[request[e]] = NoOne THEN {0} ELSE {200, 400} :
       Notify(e, status)
  /\ UNCHANGED <<request, owner, control, closing>>

\* The loop over WinHttpReadData ends: with the body, with a failure, which is taken
\* for its end, or between two reads because chunk_cb gives up or the exchange was
\* cancelled. What is read is left out here.
ReadEnds(e) ==
  /\ Goes(e, "reading", "ending")
  /\ UNCHANGED <<request, owner, control, closing, notified>>

\* Mutant: the handle stays in the control.
MutDetached(e) == request_handle
\* Mutant: an exchange with a control leaves its handle to the canceller.
MutHandleToClose(e) == IF e \in Streamed THEN Null ELSE request[e]
Detached(e) == [request_handle EXCEPT ![e] = Null]
HandleToClose(e) == IF e \in Streamed THEN request_handle[e] ELSE request[e]

\* close_request: with a control, only a handle that is still there is closed.
CloseRequest(e) ==
  /\ Goes(e, "ending", "over")
  /\ closing' = [closing EXCEPT ![e]["thread"] = HandleToClose(e)]
  /\ request_handle' = Detached(e)
  /\ request' = [request EXCEPT ![e] = Null]
  /\ UNCHANGED <<owner, cancelled, notified>>

--------------------------------------------------------------------------------
(* Cancelling, and closing a handle that was taken.                          *)

\* Mutant: the thread is left to find out by itself.
MutCancelLater(e) ==
  /\ e \in Streamed /\ ~cancelled[e]
  /\ cancelled' = [cancelled EXCEPT ![e] = TRUE]
  /\ UNCHANGED <<pc, request, owner, request_handle, closing, notified>>
\* cancel, under the mutex, by one thread at a time.
Cancel(e) ==
  /\ e \in Streamed /\ closing[e]["canceller"] = Null
  /\ cancelled' = [cancelled EXCEPT ![e] = TRUE]
  /\ closing' = [closing EXCEPT ![e]["canceller"] = request_handle[e]]
  /\ request_handle' = [request_handle EXCEPT ![e] = Null]
  /\ UNCHANGED <<pc, request, owner, notified>>

\* WinHttpCloseHandle.
CloseHandle(e, by) ==
  /\ closing[e][by] # Null
  /\ owner' = [owner EXCEPT ![closing[e][by]] = NoOne]
  /\ closing' = [closing EXCEPT ![e][by] = Null]
  /\ UNCHANGED <<pc, request, control, notified>>

--------------------------------------------------------------------------------
Thread(e) ==
  \/ Open(e) \/ OpenFails(e) \/ Attach(e) \/ Cancelled499(e) \/ Start(e)
  \/ SendRequest(e) \/ ReceiveResponse(e) \/ SendOrReceiveFails(e)
  \/ QueryStatus(e) \/ ReadEnds(e) \/ CloseRequest(e)
  \/ CloseHandle(e, "thread")

Next == \E e \in Exchanges : Thread(e) \/ Cancel(e) \/ CloseHandle(e, "canceller")

\* What the machine owes: a thread that need not wait runs, and so does one that
\* waits on a handle that is not, or not any more, its own: the call fails.
Runs(e) ==
  \/ Open(e) \/ OpenFails(e) \/ Attach(e) \/ Cancelled499(e) \/ Start(e)
  \/ QueryStatus(e) \/ CloseRequest(e) \/ CloseHandle(e, "thread")
Fails(e) ==
  /\ pc[e] \in Operating /\ owner[request[e]] # e
  /\ SendOrReceiveFails(e) \/ ReadEnds(e)

Spec ==
  /\ Init /\ [][Next]_vars
  /\ \A e \in Exchanges :
       /\ WF_vars(Runs(e)) /\ WF_vars(Fails(e))
       /\ WF_vars(CloseHandle(e, "canceller"))

--------------------------------------------------------------------------------
(* Properties.                                                               *)

\* A handle value is never another's.  Whoever is about to close one, the thread or
\* a canceller, is the only one that will, and the value has not been given away
\* meanwhile (attach, detach, cancel, close_request); and only the thread of a
\* cancelled exchange ever calls WinHTTP with a value that is not its own any more.
HandlesOwned ==
  \A e \in Exchanges :
    /\ \A by \in {"thread", "canceller"} :
         closing[e][by] # Null =>
           owner[closing[e][by]] = e /\ request_handle[e] # closing[e][by]
    /\ closing[e]["thread"] # Null => closing[e]["canceller"] # closing[e]["thread"]
    /\ pc[e] \in Operating => owner[request[e]] = e \/ cancelled[e]

\* An exchange that is over leaves no handle behind and has told the thread that
\* waits for its start one status.
EndsClean ==
  \A e \in Exchanges : pc[e] = "over" =>
    /\ Cardinality(notified[e]) = 1
    /\ \A h \in Handles : owner[h] = e =>
         \E by \in {"thread", "canceller"} : closing[e][by] = h

\* A cancelled exchange comes to its end, and its thread is free, although the
\* provider may never answer.
CancelEnds == \A e \in Streamed : cancelled[e] /\ pc[e] # "new" ~> pc[e] = "over"
================================================================================
