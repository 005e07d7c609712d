-------------------------- MODULE WinHttpExchangeProofs --------------------------
(* No handle is closed twice, by a stranger or under a new owner, and none is *)
(* left behind: proofs about WinHttpExchange, for any number of exchanges and *)
(* any set of handle values.                                                  *)
EXTENDS WinHttpExchange, FiniteSetTheorems, TLAPS

\* The handle of an exchange that has been opened and not yet given to the control,
\* or that never is, is in the thread's hands.
InHand(e) ==
  \/ pc[e] = "opened"
  \/ e \notin Streamed /\ pc[e] \in Operating \cup {"ending"}

\* Whatever is in the control or is about to be closed is open and e's, and each
\* handle is in one of these places only.
Places(e) ==
  /\ request_handle[e] # Null => owner[request_handle[e]] = e
  /\ \A by \in {"thread", "canceller"} :
       closing[e][by] # Null =>
         owner[closing[e][by]] = e /\ request_handle[e] # closing[e][by]
  /\ closing[e]["thread"] # Null => closing[e]["canceller"] # closing[e]["thread"]
  /\ InHand(e) => /\ request[e] # Null /\ owner[request[e]] = e
                  /\ request_handle[e] = Null
                  /\ \A by \in {"thread", "canceller"} : closing[e][by] = Null

\* What the control knows at each point of the thread.
ControlKnows(e) ==
  /\ request_handle[e] # Null => ~cancelled[e]
  /\ pc[e] = "new" => /\ request_handle[e] = Null
                      /\ \A by \in {"thread", "canceller"} : closing[e][by] = Null
  /\ closing[e]["thread"] # Null => pc[e] = "over" \/ (pc[e] = "attached" /\ cancelled[e])
  /\ e \notin Streamed => /\ request_handle[e] = Null /\ ~cancelled[e]
                          /\ closing[e]["canceller"] = Null /\ pc[e] # "attached"
  /\ e \in Streamed /\ ~cancelled[e] /\ pc[e] \in Operating \cup {"attached", "ending"} =>
       request[e] # Null /\ request_handle[e] = request[e]

\* An open handle of e is in one of the places where it will be closed.
Kept(e) ==
  \A h \in Handles : owner[h] = e =>
    \/ request_handle[e] = h
    \/ InHand(e) /\ request[e] = h
    \/ \E by \in {"thread", "canceller"} : closing[e][by] = h

\* An exchange has notified once it has a response or an end, and only then.
Told(e) ==
  /\ pc[e] \in {"new", "opened", "attached", "sending", "receiving", "headers"} =>
       notified[e] = {}
  /\ pc[e] \in {"reading", "ending", "over"} => \E s \in Status : notified[e] = {s}
  /\ pc[e] = "over" => request_handle[e] = Null

ExchangeInv(e) == Places(e) /\ ControlKnows(e) /\ Kept(e) /\ Told(e)
Inv == TypeOK /\ \A e \in Exchanges : ExchangeInv(e)

USE ExchangesAssumption, HandlesAssumption

LEMMA InitInv == Init => Inv
  BY DEF Init, Inv, TypeOK, ExchangeInv, Places, ControlKnows, Kept, Told, InHand,
         Operating, Status

LEMMA TypeStep == TypeOK /\ [Next]_vars => TypeOK'
<1> SUFFICES ASSUME TypeOK, [Next]_vars PROVE TypeOK'
  OBVIOUS
<1> USE DEF TypeOK, Operating, Status, Goes, Notify, control
<1>1. CASE UNCHANGED vars
  BY <1>1 DEF vars
<1>2. ASSUME NEW e \in Exchanges, Thread(e) PROVE TypeOK'
  <2>1. CASE Open(e)
    BY <2>1 DEF Open
  <2>2. CASE OpenFails(e)
    BY <2>2 DEF OpenFails
  <2>3. CASE Attach(e)
    BY <2>3 DEF Attach
  <2>4. CASE Cancelled499(e)
    BY <2>4 DEF Cancelled499
  <2>5. CASE Start(e)
    BY <2>5 DEF Start
  <2>6. CASE SendRequest(e)
    BY <2>6 DEF SendRequest, Succeeds
  <2>7. CASE ReceiveResponse(e)
    BY <2>7 DEF ReceiveResponse, Succeeds
  <2>8. CASE QueryStatus(e)
    BY <2>8 DEF QueryStatus
  <2>9. CASE SendOrReceiveFails(e)
    BY <2>9 DEF SendOrReceiveFails
  <2>10. CASE ReadEnds(e)
    BY <2>10 DEF ReadEnds
  <2>11. CASE CloseRequest(e)
    BY <2>11 DEF CloseRequest, Detached, HandleToClose
  <2>12. CASE CloseHandle(e, "thread")
    BY <2>12 DEF CloseHandle
  <2> QED
    BY <1>2, <2>1, <2>2, <2>3, <2>4, <2>5, <2>6, <2>7, <2>8, <2>9, <2>10, <2>11,
       <2>12 DEF Thread
<1>3. ASSUME NEW e \in Exchanges, Cancel(e) \/ CloseHandle(e, "canceller") PROVE TypeOK'
  <2>1. CASE Cancel(e)
    BY <2>1 DEF Cancel
  <2>2. CASE CloseHandle(e, "canceller")
    BY <2>2 DEF CloseHandle
  <2> QED
    BY <1>3, <2>1, <2>2
<1> QED
  BY <1>1, <1>2, <1>3 DEF Next

\* What a step of e does to the others: nothing they can tell.
Untouched(e) ==
  \A f \in Exchanges \ {e} :
    /\ pc'[f] = pc[f] /\ request'[f] = request[f] /\ notified'[f] = notified[f]
    /\ request_handle'[f] = request_handle[f] /\ cancelled'[f] = cancelled[f]
    /\ closing'[f] = closing[f]
    /\ \A h \in Handles : owner'[h] = f <=> owner[h] = f

LEMMA Frame ==
  ASSUME NEW e \in Exchanges, Inv, TypeOK', Untouched(e), NEW f \in Exchanges \ {e}
  PROVE  ExchangeInv(f)'
<1> USE DEF Inv, TypeOK, Untouched
<1>1. InHand(f)' = InHand(f)
  BY DEF InHand
<1>2. Places(f)'
  BY <1>1 DEF ExchangeInv, Places
<1>3. ControlKnows(f)'
  BY DEF ExchangeInv, ControlKnows
<1>4. Kept(f)'
  BY <1>1 DEF ExchangeInv, Kept
<1>5. Told(f)'
  BY DEF ExchangeInv, Told
<1> QED
  BY <1>2, <1>3, <1>4, <1>5 DEF ExchangeInv

--------------------------------------------------------------------------------
(* One lemma for each action.                                                *)

LEMMA OpenStep ==
  ASSUME NEW e \in Exchanges, Inv, TypeOK', Open(e)
  PROVE  Untouched(e) /\ ExchangeInv(e)'
<1> USE DEF Inv, TypeOK, ExchangeInv, Goes, Notify, control, Operating, InHand,
            Open
<1>1. Untouched(e)
  BY DEF Untouched, Places
<1>2. Places(e)'
  BY DEF Places, ControlKnows
<1>3. ControlKnows(e)'
  BY DEF ControlKnows, Places
<1>4. Kept(e)'
  BY Zenon, SMTT(30) DEF Kept, ControlKnows, Places
<1>5. Told(e)'
  BY DEF Told, Status
<1> QED
  BY <1>1, <1>2, <1>3, <1>4, <1>5

LEMMA OpenFailsStep ==
  ASSUME NEW e \in Exchanges, Inv, TypeOK', OpenFails(e)
  PROVE  Untouched(e) /\ ExchangeInv(e)'
<1> USE DEF Inv, TypeOK, ExchangeInv, Goes, Notify, control, Operating, InHand,
            OpenFails
<1>1. Untouched(e)
  BY DEF Untouched, Places
<1>2. Places(e)'
  BY DEF Places, ControlKnows
<1>3. ControlKnows(e)'
  BY DEF ControlKnows, Places
<1>4. Kept(e)'
  BY DEF Kept, ControlKnows, Places
<1>5. Told(e)'
  BY DEF Told, ControlKnows, Status
<1> QED
  BY <1>1, <1>2, <1>3, <1>4, <1>5

LEMMA AttachStep ==
  ASSUME NEW e \in Exchanges, Inv, TypeOK', Attach(e)
  PROVE  Untouched(e) /\ ExchangeInv(e)'
<1> USE DEF Inv, TypeOK, ExchangeInv, Goes, Notify, control, Operating, InHand,
            Attach
<1>1. Untouched(e)
  BY DEF Untouched, Places
<1>2. Places(e)'
  BY DEF Places, ControlKnows
<1>3. ControlKnows(e)'
  BY DEF ControlKnows, Places
<1>4. Kept(e)'
  BY DEF Kept, ControlKnows, Places
<1>5. Told(e)'
  BY DEF Told, Status
<1> QED
  BY <1>1, <1>2, <1>3, <1>4, <1>5

LEMMA Cancelled499Step ==
  ASSUME NEW e \in Exchanges, Inv, TypeOK', Cancelled499(e)
  PROVE  Untouched(e) /\ ExchangeInv(e)'
<1> USE DEF Inv, TypeOK, ExchangeInv, Goes, Notify, control, Operating, InHand,
            Cancelled499
<1>1. Untouched(e)
  BY DEF Untouched, Places
<1>2. Places(e)'
  BY DEF Places, ControlKnows
<1>3. ControlKnows(e)'
  BY DEF ControlKnows, Places
<1>4. Kept(e)'
  BY DEF Kept, ControlKnows, Places
<1>5. Told(e)'
  BY DEF Told, Status
<1> QED
  BY <1>1, <1>2, <1>3, <1>4, <1>5

LEMMA StartStep ==
  ASSUME NEW e \in Exchanges, Inv, TypeOK', Start(e)
  PROVE  Untouched(e) /\ ExchangeInv(e)'
<1> USE DEF Inv, TypeOK, ExchangeInv, Goes, Notify, control, Operating, InHand,
            Start
<1>1. Untouched(e)
  BY DEF Untouched, Places
<1>2. Places(e)'
  BY DEF Places, ControlKnows
<1>3. ControlKnows(e)'
  BY DEF ControlKnows, Places
<1>4. Kept(e)'
  BY DEF Kept, ControlKnows, Places
<1>5. Told(e)'
  BY DEF Told, Status
<1> QED
  BY <1>1, <1>2, <1>3, <1>4, <1>5

LEMMA SendRequestStep ==
  ASSUME NEW e \in Exchanges, Inv, TypeOK', SendRequest(e)
  PROVE  Untouched(e) /\ ExchangeInv(e)'
<1> USE DEF Inv, TypeOK, ExchangeInv, Goes, Notify, control, Operating, InHand,
            SendRequest, Succeeds
<1>1. Untouched(e)
  BY DEF Untouched, Places
<1>2. Places(e)'
  BY DEF Places, ControlKnows
<1>3. ControlKnows(e)'
  BY DEF ControlKnows, Places
<1>4. Kept(e)'
  BY DEF Kept, ControlKnows, Places
<1>5. Told(e)'
  BY DEF Told, Status
<1> QED
  BY <1>1, <1>2, <1>3, <1>4, <1>5

LEMMA ReceiveResponseStep ==
  ASSUME NEW e \in Exchanges, Inv, TypeOK', ReceiveResponse(e)
  PROVE  Untouched(e) /\ ExchangeInv(e)'
<1> USE DEF Inv, TypeOK, ExchangeInv, Goes, Notify, control, Operating, InHand,
            ReceiveResponse, Succeeds
<1>1. Untouched(e)
  BY DEF Untouched, Places
<1>2. Places(e)'
  BY DEF Places, ControlKnows
<1>3. ControlKnows(e)'
  BY DEF ControlKnows, Places
<1>4. Kept(e)'
  BY DEF Kept, ControlKnows, Places
<1>5. Told(e)'
  BY DEF Told, Status
<1> QED
  BY <1>1, <1>2, <1>3, <1>4, <1>5

LEMMA QueryStatusStep ==
  ASSUME NEW e \in Exchanges, Inv, TypeOK', QueryStatus(e)
  PROVE  Untouched(e) /\ ExchangeInv(e)'
<1> USE DEF Inv, TypeOK, ExchangeInv, Goes, Notify, control, Operating, InHand,
            QueryStatus
<1>1. Untouched(e)
  BY DEF Untouched, Places
<1>2. Places(e)'
  BY DEF Places, ControlKnows
<1>3. ControlKnows(e)'
  BY DEF ControlKnows, Places
<1>4. Kept(e)'
  BY DEF Kept, ControlKnows, Places
<1>5. Told(e)'
  BY DEF Told, Status
<1> QED
  BY <1>1, <1>2, <1>3, <1>4, <1>5

LEMMA SendOrReceiveFailsStep ==
  ASSUME NEW e \in Exchanges, Inv, TypeOK', SendOrReceiveFails(e)
  PROVE  Untouched(e) /\ ExchangeInv(e)'
<1> USE DEF Inv, TypeOK, ExchangeInv, Goes, Notify, control, Operating, InHand,
            SendOrReceiveFails
<1>1. Untouched(e)
  BY DEF Untouched, Places
<1>2. Places(e)'
  BY DEF Places, ControlKnows
<1>3. ControlKnows(e)'
  BY DEF ControlKnows, Places
<1>4. Kept(e)'
  BY DEF Kept, ControlKnows, Places
<1>5. Told(e)'
  BY DEF Told, Status
<1> QED
  BY <1>1, <1>2, <1>3, <1>4, <1>5

LEMMA ReadEndsStep ==
  ASSUME NEW e \in Exchanges, Inv, TypeOK', ReadEnds(e)
  PROVE  Untouched(e) /\ ExchangeInv(e)'
<1> USE DEF Inv, TypeOK, ExchangeInv, Goes, Notify, control, Operating, InHand,
            ReadEnds
<1>1. Untouched(e)
  BY DEF Untouched, Places
<1>2. Places(e)'
  BY DEF Places, ControlKnows
<1>3. ControlKnows(e)'
  BY DEF ControlKnows, Places
<1>4. Kept(e)'
  BY DEF Kept, ControlKnows, Places
<1>5. Told(e)'
  BY DEF Told, Status
<1> QED
  BY <1>1, <1>2, <1>3, <1>4, <1>5

LEMMA CloseRequestStep ==
  ASSUME NEW e \in Exchanges, Inv, TypeOK', CloseRequest(e)
  PROVE  Untouched(e) /\ ExchangeInv(e)'
<1> USE DEF Inv, TypeOK, ExchangeInv, Goes, Notify, control, Operating, InHand,
            CloseRequest, Detached, HandleToClose
<1>1. Untouched(e)
  BY DEF Untouched, Places
<1>2. Places(e)'
  BY DEF Places, ControlKnows
<1>3. ControlKnows(e)'
  BY DEF ControlKnows, Places
<1>4. Kept(e)'
  BY DEF Kept, ControlKnows, Places
<1>5. Told(e)'
  BY DEF Told, Status
<1> QED
  BY <1>1, <1>2, <1>3, <1>4, <1>5

LEMMA CancelStep ==
  ASSUME NEW e \in Exchanges, Inv, TypeOK', Cancel(e)
  PROVE  Untouched(e) /\ ExchangeInv(e)'
<1> USE DEF Inv, TypeOK, ExchangeInv, Goes, Notify, control, Operating, InHand,
            Cancel
<1>1. Untouched(e)
  BY DEF Untouched, Places
<1>2. Places(e)'
  BY DEF Places, ControlKnows
<1>3. ControlKnows(e)'
  BY DEF ControlKnows, Places
<1>4. Kept(e)'
  BY DEF Kept, ControlKnows, Places
<1>5. Told(e)'
  BY DEF Told, Status
<1> QED
  BY <1>1, <1>2, <1>3, <1>4, <1>5

LEMMA CloseHandleStep ==
  ASSUME NEW e \in Exchanges, NEW by \in {"thread", "canceller"},
         Inv, TypeOK', CloseHandle(e, by)
  PROVE  Untouched(e) /\ ExchangeInv(e)'
<1> USE DEF Inv, TypeOK, ExchangeInv, control, Operating, InHand, CloseHandle
<1>1. Untouched(e)
  BY DEF Untouched, Places
<1>2. Places(e)'
  BY DEF Places, ControlKnows
<1>3. ControlKnows(e)'
  BY DEF ControlKnows, Places
<1>4. Kept(e)'
  BY DEF Kept, ControlKnows, Places
<1>5. Told(e)'
  BY DEF Told
<1> QED
  BY <1>1, <1>2, <1>3, <1>4, <1>5

--------------------------------------------------------------------------------
LEMMA NextInv == Inv /\ [Next]_vars => Inv'
<1> SUFFICES ASSUME Inv, [Next]_vars PROVE Inv'
  OBVIOUS
<1>1. TypeOK'
  BY TypeStep DEF Inv
<1>2. CASE UNCHANGED vars
  BY <1>2 DEF vars, control, Inv, TypeOK, ExchangeInv, Places, ControlKnows, Kept, Told,
              InHand
<1>3. ASSUME NEW e \in Exchanges, Thread(e) \/ Cancel(e) \/ CloseHandle(e, "canceller")
      PROVE  Inv'
  <2>1. Untouched(e) /\ ExchangeInv(e)'
    BY <1>1, <1>3, OpenStep, OpenFailsStep, AttachStep, Cancelled499Step, StartStep,
       SendRequestStep, ReceiveResponseStep, QueryStatusStep,
       SendOrReceiveFailsStep, ReadEndsStep, CloseRequestStep, CancelStep,
       CloseHandleStep DEF Thread
  <2>2. \A f \in Exchanges \ {e} : ExchangeInv(f)'
    BY <1>1, <2>1, Frame
  <2> QED
    BY <1>1, <2>1, <2>2 DEF Inv
<1> QED
  BY <1>2, <1>3 DEF Next

LEMMA Invariance == Spec => []Inv
  BY InitInv, NextInv, PTL DEF Spec

\* Whoever closes a handle or calls WinHTTP does it with a handle of its own, but for
\* the thread of a cancelled exchange, whose call fails or meets another's request.
THEOREM HandlesOwnedAlways == Spec => []HandlesOwned
<1>1. Inv => HandlesOwned
  <2> SUFFICES ASSUME Inv, NEW e \in Exchanges
               PROVE  HandlesOwned!(e)
    BY DEF HandlesOwned
  <2> QED
    BY DEF Inv, TypeOK, ExchangeInv, Places, ControlKnows, InHand
<1> QED
  BY <1>1, Invariance, PTL

\* An exchange that is over has reported its start once and leaves no handle that is
\* not just being closed.
THEOREM EndsCleanAlways == Spec => []EndsClean
<1>1. Inv => EndsClean
  <2> SUFFICES ASSUME Inv, NEW e \in Exchanges, pc[e] = "over"
               PROVE  EndsClean!(e)!2
    BY DEF EndsClean
  <2>1. PICK s \in Status : notified[e] = {s}
    BY DEF Inv, ExchangeInv, Told
  <2>2. Cardinality(notified[e]) = 1
    BY <2>1, FS_Singleton
  <2> QED
    BY <2>2 DEF Inv, ExchangeInv, Kept, Told, InHand, Operating, TypeOK
<1> QED
  BY <1>1, Invariance, PTL
================================================================================
