---------------------------- MODULE StreamRelayProofs ----------------------------
(***************************************************************************)
(* What StreamRelay guarantees for every buffer limit, chunk size, length  *)
(* of the upstream body and set of upstream statuses.                      *)
(***************************************************************************)
EXTENDS StreamRelay, SequenceLemmas

--------------------------------------------------------------------------------
(* The inductive invariant: the types, the bound on the buffer, and what     *)
(* they rest on.                                                             *)

\* Nothing has moved before the upstream thread exists.
Fresh == hpc \in {"precheck", "spawn"} => upc = "none"

\* The handler writes the one chunk it popped, and holds none elsewhere.
WriterHolds == IF hpc = "write" THEN Len(in_hand) = 1 ELSE in_hand = <<>>

\* A thread about to push holds a non-empty translation of an event it took.
PusherHolds ==
  /\ accepted <= taken
  /\ upc \in {"push", "flushPush"} => u_chunk > 0 /\ accepted < taken

\* The events still expected fit in the body.
EventsLeft ==
  /\ upc \notin {"flushPush", "finish", "fault", "faulted", "ended"} =>
       taken + batch <= MaxEvents /\ (tail => taken + batch < MaxEvents)
  /\ upc = "flush" => tail \/ batch > 0

\* The status published at the end of postStream is a real one.
StatusKnown == upc = "settle" => status_code # 0

IInv == TypeOK /\ Fresh /\ WriterHolds /\ PusherHolds /\ EventsLeft /\ StatusKnown
               /\ BoundedBuffer

\* The initial state satisfies the inductive invariant.
LEMMA InitIInv == Init => IInv
<1> SUFFICES ASSUME Init PROVE IInv
  OBVIOUS
<1>1. chunks \in Seq(Chunk) /\ in_hand \in Seq(Chunk) /\ written \in Seq(0..MaxEvents)
  BY DEF Init
<1>2. BufferOK /\ ControlOK
  BY <1>1 DEF Init, BufferOK, ControlOK
<1>3. HandlerOK
  <2>1. hpc \in HandlerPC /\ ret \in {"provider", "finalize", "finish499"}
        /\ out_status_code = 503 /\ response \in {"open", "done", "cut"}
    BY DEF Init, HandlerPC
  <2>2. error_event \in BOOLEAN /\ peer_alive \in BOOLEAN
    BY DEF Init
  <2> QED
    BY <1>1, <2>1, <2>2 DEF HandlerOK
<1>4. counters \in [Outcomes -> Nat]
  BY DEF Init
<1>5. MonitorOK
  BY <1>4 DEF Init, MonitorOK
<1>6. UpstreamOK
  <2>1. tail \in BOOLEAN /\ sock_shut \in BOOLEAN
    BY DEF Init
  <2>2. batch \in 0..MaxEvents /\ u_chunk \in 0..MaxChunk /\ taken \in 0..MaxEvents
        /\ accepted \in 0..MaxEvents
    BY RelayAssumption DEF Init
  <2>3. upc \in UpstreamPC /\ status_code = 0
    BY DEF Init, UpstreamPC
  <2> QED
    BY <2>1, <2>2, <2>3 DEF UpstreamOK
<1>7. Fresh /\ WriterHolds /\ PusherHolds /\ EventsLeft /\ StatusKnown /\ BoundedBuffer
  BY RelayAssumption DEF Init, Fresh, WriterHolds, PusherHolds, EventsLeft, StatusKnown,
     BoundedBuffer
<1> QED
  BY <1>2, <1>3, <1>5, <1>6, <1>7 DEF IInv, TypeOK

\* A move of the upstream thread that changes nothing but its position.
LEMMA UpstreamMoves ==
  ASSUME IInv, NEW from \in UpstreamPC \ {"none", "finish", "fault", "faulted", "ended"},
         NEW to \in UpstreamPC \ {"push", "flushPush", "flush", "settle"},
         from = "flushPush" => to = "finish", UpstreamGoes(from, to)
  PROVE  IInv'
<1>1. upc = from /\ upc' = to
      /\ UNCHANGED <<notUpstream, status_code, batch, tail, u_chunk, taken, accepted,
                     sock_shut>>
  BY DEF UpstreamGoes, reading, pushing
<1>2. UNCHANGED <<chunks, buffered_bytes, completed, error, cancelled,
                  client_disconnected, monitor_stream_id, monitor_finalized,
                  cancel_upstream, ctl_cancelled, cancel_handler, ready, start_status>>
      /\ UNCHANGED <<active, verdict, counters, hpc, ret, out_status_code, in_hand,
                     written, error_event, response, peer_alive>>
  BY <1>1 DEF notUpstream, shared, bufferVars, queue, flags, marks, books,
     controlVars,
     startVars, monitorVars, handlerVars, delivery
<1>3. BufferOK' /\ ControlOK' /\ HandlerOK' /\ MonitorOK' /\ UpstreamOK'
  BY <1>1, <1>2 DEF IInv, TypeOK, BufferOK, ControlOK, HandlerOK, MonitorOK,
     UpstreamOK
<1>4. Fresh' /\ WriterHolds' /\ PusherHolds' /\ StatusKnown' /\ BoundedBuffer'
  BY <1>1, <1>2 DEF IInv, Fresh, WriterHolds, PusherHolds, StatusKnown,
     BoundedBuffer
<1>5. EventsLeft'
  BY <1>1 DEF IInv, EventsLeft
<1> QED
  BY <1>3, <1>4, <1>5 DEF IInv, TypeOK

\* Every step preserves the inductive invariant.
LEMMA NextIInv == IInv /\ [Next]_vars => IInv'
<1> SUFFICES ASSUME IInv, [Next]_vars PROVE IInv'
  OBVIOUS
<1> USE RelayAssumption
    DEF queue, flags, marks, bufferVars,
        controlVars, startVars, monitorVars, books, shared, delivery, handlerVars,
        reading, pushing, upstreamVars, notHandler, notUpstream
<1>1. CASE Finish499
  <2>1. completed' = TRUE /\ cancel_upstream' = FALSE
    BY <1>1 DEF Finish499, MarkCompleted
  <2>2. BufferOK'
    <3>1. UNCHANGED <<queue, error, cancelled, marks>>
      BY <1>1 DEF Finish499
    <3> QED
      BY <3>1, <2>1, Zenon DEF IInv, TypeOK, BufferOK
  <2>3. ControlOK' /\ HandlerOK' /\ MonitorOK' /\ UpstreamOK' /\ Fresh' /\ WriterHolds'
        /\ PusherHolds' /\ EventsLeft' /\ StatusKnown' /\ BoundedBuffer'
    BY <1>1 DEF Finish499, IInv, TypeOK, ControlOK, HandlerOK, MonitorOK,
       UpstreamOK, Fresh, WriterHolds, PusherHolds, EventsLeft, StatusKnown,
       BoundedBuffer,
       HandlerPC, UpstreamPC
  <2> QED
    BY <2>2, <2>3 DEF IInv, TypeOK
<1>2. CASE RegisterStreamMonitor
  <2>1. BufferOK'
    <3>1. monitor_stream_id' = 1 /\ monitor_finalized' = FALSE
          /\ client_disconnected' = FALSE
      BY <1>2 DEF RegisterStreamMonitor
    <3>2. UNCHANGED <<queue, flags>>
      BY <1>2 DEF RegisterStreamMonitor
    <3> QED
      BY <3>1, <3>2, Zenon DEF IInv, TypeOK, BufferOK
  <2>2. MonitorOK'
    <3>1. active' \in BOOLEAN
      BY <1>2 DEF RegisterStreamMonitor
    <3> QED
      BY <3>1, <1>2 DEF RegisterStreamMonitor, IInv, TypeOK, MonitorOK
  <2>3. ControlOK' /\ HandlerOK' /\ UpstreamOK' /\ Fresh' /\ WriterHolds' /\ PusherHolds'
        /\ EventsLeft' /\ StatusKnown' /\ BoundedBuffer'
    BY <1>2 DEF RegisterStreamMonitor, IInv, TypeOK, ControlOK, HandlerOK,
       UpstreamOK, Fresh, WriterHolds, PusherHolds, EventsLeft, StatusKnown,
       BoundedBuffer,
       HandlerPC, UpstreamPC
  <2> QED
    BY <2>1, <2>2, <2>3 DEF IInv, TypeOK
<1>3. CASE NotWritable
  <2>1. hpc' = "cancel" /\ ret' = "provider"
        /\ hpc # "write" /\ hpc \notin {"precheck", "spawn"}
    BY <1>3 DEF NotWritable
  <2>2. UNCHANGED <<notHandler, delivery, out_status_code>>
    BY <1>3 DEF NotWritable
  <2> QED
    BY <2>1, <2>2 DEF IInv, TypeOK, BufferOK, ControlOK, HandlerOK, MonitorOK,
       UpstreamOK,
       Fresh, WriterHolds, PusherHolds, EventsLeft, StatusKnown, BoundedBuffer, HandlerPC
<1>4. CASE PopChunk
  <2>1. Head(chunks) \in Chunk /\ Tail(chunks) \in Seq(Chunk)
    BY <1>4 DEF PopChunk, IInv, TypeOK, BufferOK
  <2>2. buffered_bytes' \in Nat /\ buffered_bytes' <= buffered_bytes
    BY <2>1, <1>4, SMTT(20) DEF PopChunk, BytesAfterPop, Chunk, IInv, TypeOK, BufferOK
  <2>3. in_hand' = <<Head(chunks)>> /\ chunks' = Tail(chunks) /\ hpc' = "write"
        /\ UNCHANGED <<upstreamVars, books, flags, marks, ret, out_status_code, written,
                       error_event, response, peer_alive>>
    BY <1>4 DEF PopChunk
  <2>4. BufferOK'
    BY <2>1, <2>2, <2>3 DEF IInv, TypeOK, BufferOK
  <2>5. HandlerOK' /\ WriterHolds'
    BY <2>1, <2>3 DEF IInv, TypeOK, HandlerOK, HandlerPC, WriterHolds
  <2>6. BoundedBuffer'
    BY <2>2, RelayAssumption DEF IInv, TypeOK, BufferOK, BoundedBuffer
  <2>7. ControlOK' /\ MonitorOK' /\ UpstreamOK' /\ Fresh' /\ PusherHolds' /\ EventsLeft'
        /\ StatusKnown'
    BY <2>3 DEF IInv, TypeOK, ControlOK, MonitorOK, UpstreamOK, Fresh,
       PusherHolds,
       EventsLeft, StatusKnown
  <2> QED
    BY <2>4, <2>5, <2>6, <2>7 DEF IInv, TypeOK
<1>5. CASE NothingBuffered
  <2>1. hpc' \in {"provider", "errorEvent", "sinkDone", "poll"}
        /\ hpc # "write" /\ hpc \notin {"precheck", "spawn"}
    BY <1>5 DEF NothingBuffered, AfterDrained
  <2>2. UNCHANGED <<notHandler, delivery, ret, out_status_code>>
    BY <1>5 DEF NothingBuffered
  <2> QED
    BY <2>1, <2>2 DEF IInv, TypeOK, BufferOK, ControlOK, HandlerOK, MonitorOK,
       UpstreamOK,
       Fresh, WriterHolds, PusherHolds, EventsLeft, StatusKnown, BoundedBuffer, HandlerPC
<1>6. CASE WriteChunk
  <2>1. in_hand \in Seq(Chunk) /\ Len(in_hand) = 1
    BY <1>6 DEF WriteChunk, IInv, TypeOK, HandlerOK, WriterHolds
  <2>2. in_hand[1] \in Chunk
    BY <2>1
  <2>3. written' \in Seq(0..MaxEvents) /\ in_hand' = <<>> /\ hpc' = "drain"
    BY <2>2, <1>6 DEF WriteChunk, Chunk, IInv, TypeOK, HandlerOK
  <2>4. HandlerOK' /\ WriterHolds'
    BY <2>3, <1>6 DEF WriteChunk, IInv, TypeOK, HandlerOK, HandlerPC, WriterHolds
  <2>5. BufferOK' /\ ControlOK' /\ MonitorOK' /\ UpstreamOK' /\ Fresh' /\ PusherHolds'
        /\ EventsLeft' /\ StatusKnown' /\ BoundedBuffer'
    BY <1>6 DEF WriteChunk, IInv, TypeOK, BufferOK, ControlOK, MonitorOK,
       UpstreamOK, Fresh, PusherHolds, EventsLeft, StatusKnown, BoundedBuffer,
       HandlerPC, UpstreamPC
  <2> QED
    BY <2>4, <2>5 DEF IInv, TypeOK
<1>7. CASE Dial
  <2>1. CASE UpstreamGoes("dial", "connect")
    BY <2>1, UpstreamMoves DEF UpstreamPC
  <2> QED
    BY <1>7, <2>1 DEF Dial
<1>8. CASE AdmitBody
  <2>1. CASE UpstreamGoes("admit", "recv")
    BY <2>1, UpstreamMoves DEF UpstreamPC
  <2>2. CASE UpstreamGoes("admit", "return")
    BY <2>2, UpstreamMoves DEF UpstreamPC
  <2> QED
    BY <1>8, <2>1, <2>2 DEF AdmitBody
<1>9. CASE SocketShut
  <2>1. CASE UpstreamGoes("await", "return")
    BY <2>1, UpstreamMoves DEF UpstreamPC
  <2>2. CASE UpstreamGoes("recv", "return")
    BY <2>2, UpstreamMoves DEF UpstreamPC
  <2> QED
    BY <1>9, <2>1, <2>2 DEF SocketShut, ExchangeEnds
<1>10. CASE CheckControl
  <2>1. CASE UpstreamGoes("checkControl", "checkBuffer")
    BY <2>1, UpstreamMoves DEF UpstreamPC
  <2>2. CASE UpstreamGoes("checkControl", "return")
    BY <2>2, UpstreamMoves DEF UpstreamPC
  <2> QED
    BY <1>10, <2>1, <2>2 DEF CheckControl
<1>11. CASE CheckBuffer
  <2>1. CASE UpstreamGoes("checkBuffer", "translate")
    BY <2>1, UpstreamMoves DEF UpstreamPC
  <2>2. CASE UpstreamGoes("checkBuffer", "return")
    BY <2>2, UpstreamMoves DEF UpstreamPC
  <2> QED
    BY <1>11, <2>1, <2>2 DEF CheckBuffer
<1>12. CASE PushRefused
  <2>1. CASE UpstreamGoes("push", "return")
    BY <2>1, UpstreamMoves DEF UpstreamPC
  <2>2. CASE UpstreamGoes("flushPush", "finish")
    BY <2>2, UpstreamMoves DEF UpstreamPC
  <2> QED
    BY <1>12, <2>1, <2>2 DEF PushRefused
<1>13. CASE PostStreamReturns
  <2>1. ControlOK'
    BY <1>13, ZenonT(40) DEF PostStreamReturns, IInv, TypeOK, ControlOK
  <2>2. BufferOK' /\ HandlerOK' /\ MonitorOK' /\ UpstreamOK' /\ Fresh' /\ WriterHolds'
        /\ PusherHolds' /\ EventsLeft' /\ StatusKnown' /\ BoundedBuffer'
    BY <1>13 DEF PostStreamReturns, FinalStatus, IInv, TypeOK, BufferOK,
       HandlerOK, MonitorOK, UpstreamOK, Fresh, WriterHolds, PusherHolds,
       EventsLeft, StatusKnown, BoundedBuffer,
       HandlerPC, UpstreamPC
  <2> QED
    BY <2>1, <2>2 DEF IInv, TypeOK
<1>14. CASE FlushThrows \/ UrlThrows
  <2>1. CASE UpstreamGoes("flush", "fault")
    BY <2>1, UpstreamMoves DEF UpstreamPC
  <2>2. CASE UpstreamGoes("open", "fault")
    BY <2>2, UpstreamMoves DEF UpstreamPC
  <2> QED
    BY <1>14, <2>1, <2>2 DEF FlushThrows, UrlThrows
<1>15. CASE FinishStream
  <2>1. BufferOK'
    <3>1. completed' = TRUE /\ cancel_upstream' = FALSE
      BY <1>15 DEF FinishStream, MarkCompleted
    <3>2. UNCHANGED <<queue, cancelled, marks>>
      BY <1>15 DEF FinishStream
    <3>3. error' \in BOOLEAN
      BY <1>15 DEF FinishStream
    <3> QED
      BY <3>1, <3>2, <3>3, Zenon DEF IInv, TypeOK, BufferOK
  <2>2. ControlOK' /\ HandlerOK' /\ MonitorOK' /\ UpstreamOK' /\ Fresh' /\ WriterHolds'
        /\ PusherHolds' /\ EventsLeft' /\ StatusKnown' /\ BoundedBuffer'
    BY <1>15 DEF FinishStream, IInv, TypeOK, ControlOK, HandlerOK, MonitorOK,
       UpstreamOK, Fresh, WriterHolds, PusherHolds, EventsLeft, StatusKnown,
       BoundedBuffer,
       HandlerPC, UpstreamPC
  <2> QED
    BY <2>1, <2>2 DEF IInv, TypeOK
<1>16. CASE ConnectEnds
  <2>1. CASE UpstreamGoes("connect", "await")
    BY <2>1, UpstreamMoves DEF UpstreamPC
  <2>2. CASE UpstreamGoes("connect", "return")
    BY <2>2, UpstreamMoves DEF UpstreamPC
  <2> QED
    BY <1>16, <2>1, <2>2 DEF ConnectEnds
<1>17. CASE ExchangeEnds
  <2>1. CASE UpstreamGoes("await", "return")
    BY <2>1, UpstreamMoves DEF UpstreamPC
  <2>2. CASE UpstreamGoes("recv", "return")
    BY <2>2, UpstreamMoves DEF UpstreamPC
  <2> QED
    BY <1>17, <2>1, <2>2 DEF ExchangeEnds
<1>18. CASE ReadBody
  <2>1. batch' \in 0..MaxEvents /\ taken + batch' <= MaxEvents
    BY <1>18 DEF ReadBody
  <2>2. tail' \in BOOLEAN
    BY <1>18 DEF ReadBody
  <2>3. tail' => taken + batch' < MaxEvents
    BY <1>18 DEF ReadBody
  <2>4. taken' = taken /\ upc' = "checkControl"
    BY <1>18 DEF ReadBody
  <2>5. EventsLeft'
    BY <2>1, <2>3, <2>4 DEF EventsLeft
  <2>6. UpstreamOK'
    BY <2>1, <2>2, <1>18 DEF ReadBody, IInv, TypeOK, UpstreamOK, UpstreamPC
  <2>7. BufferOK' /\ ControlOK' /\ HandlerOK' /\ MonitorOK' /\ Fresh' /\ WriterHolds'
        /\ PusherHolds' /\ StatusKnown' /\ BoundedBuffer'
    BY <1>18 DEF ReadBody, IInv, TypeOK, BufferOK, ControlOK, HandlerOK,
       MonitorOK, Fresh, WriterHolds, PusherHolds, StatusKnown, BoundedBuffer,
       HandlerPC, UpstreamPC
  <2> QED
    BY <2>5, <2>6, <2>7 DEF IInv, TypeOK
<1>19. CASE PeerLeaves
  <2>1. peer_alive' \in BOOLEAN
    BY <1>19 DEF PeerLeaves
  <2>2. HandlerOK'
    BY <1>19, <2>1 DEF PeerLeaves, IInv, TypeOK, HandlerOK
  <2>3. BufferOK' /\ ControlOK' /\ MonitorOK' /\ UpstreamOK' /\ Fresh' /\ WriterHolds'
        /\ PusherHolds' /\ EventsLeft' /\ StatusKnown' /\ BoundedBuffer'
    BY <1>19 DEF PeerLeaves, IInv, TypeOK, BufferOK, ControlOK, MonitorOK,
       UpstreamOK, Fresh, WriterHolds, PusherHolds, EventsLeft, StatusKnown,
       BoundedBuffer,
       HandlerPC, UpstreamPC
  <2> QED
    BY <2>2, <2>3 DEF IInv, TypeOK
<1> USE DEF IInv, TypeOK, BufferOK, ControlOK, HandlerOK, MonitorOK, UpstreamOK,
   Fresh,
            WriterHolds, PusherHolds, EventsLeft, StatusKnown, BoundedBuffer,
            Chunk, Outcomes, HandlerPC, UpstreamPC
<1>20. CASE PrecheckFails
  BY <1>20 DEF PrecheckFails, RefuseWith
<1>21. CASE InstallCancelUpstream
  BY <1>21 DEF InstallCancelUpstream
<1>22. CASE SpawnFails
  BY <1>22 DEF SpawnFails, RefuseWith
<1>23. CASE Spawn
  BY <1>23 DEF Spawn
<1>24. CASE Started
  BY <1>24 DEF Started, Failed
<1>25. CASE DownstreamGone
  BY <1>25 DEF DownstreamGone
<1>26. CASE ErrorBodyComplete
  BY <1>26 DEF ErrorBodyComplete, HandlerGoes
<1>27. CASE Answer
  BY <1>27 DEF Answer
<1>28. CASE CancelStreamBuffer
  BY <1>28 DEF CancelStreamBuffer, MarkCancelled
<1>29. CASE StreamControlCancel
  BY <1>29 DEF StreamControlCancel, AfterControlCancel
<1>30. CASE StopClient
  BY <1>30 DEF StopClient
<1>31. CASE WriteHeaders
  BY <1>31 DEF WriteHeaders, HandlerGoes
<1>32. CASE CutResponse
  BY <1>32 DEF CutResponse
<1>33. CASE CallProvider
  BY <1>33 DEF CallProvider, HandlerGoes
<1>34. CASE PollWritable
  BY <1>34 DEF PollWritable, HandlerGoes
<1>35. CASE WriteFails
  BY <1>35 DEF WriteFails
<1>36. CASE WriteErrorEvent
  BY <1>36 DEF WriteErrorEvent
<1>37. CASE ErrorEventFails
  BY <1>37 DEF ErrorEventFails
<1>38. CASE SinkDone
  BY <1>38 DEF SinkDone
<1>39. CASE Release
  BY <1>39 DEF Release
<1>40. CASE FinalizeStreamMonitor
  BY <1>40 DEF FinalizeStreamMonitor
<1>41. CASE AccountStream
  BY <1>41 DEF AccountStream
<1>42. CASE OpenFails
  BY <1>42 DEF OpenFails
<1>43. CASE SetCancelHandler
  BY <1>43 DEF SetCancelHandler
<1>44. CASE ReadDone
  BY <1>44 DEF ReadDone, UpstreamGoes
<1>45. CASE TranslateEvent
  BY <1>45 DEF TranslateEvent
<1>46. CASE TranslationThrows
  BY <1>46 DEF TranslationThrows
<1>47. CASE PushChunk("push", "translate")
  BY <1>47 DEF PushChunk, MayPush, Full
<1>48. CASE PushChunk("flushPush", "finish")
  BY <1>48 DEF PushChunk, MayPush, Full
<1>49. CASE Settle
  BY <1>49 DEF Settle, NotifyStarted, Failed
<1>50. CASE FlushPending
  BY <1>50 DEF FlushPending
<1>51. CASE HeadersArrive
  BY <1>51 DEF HeadersArrive, NotifyStarted
<1>52. CASE UNCHANGED vars
  BY <1>52 DEF vars
<1>53. CASE PublishFault
  BY <1>53 DEF PublishFault, NotifyStarted
<1> HIDE DEF IInv, TypeOK, BufferOK, ControlOK, HandlerOK, MonitorOK,
   UpstreamOK, Fresh,
            WriterHolds, PusherHolds, EventsLeft, StatusKnown, BoundedBuffer,
            Chunk, Outcomes, HandlerPC, UpstreamPC
<1> QED
  BY <1>1, <1>2, <1>3, <1>4, <1>5, <1>6, <1>7, <1>8, <1>9, <1>10, <1>11, <1>12,
     <1>13, <1>14, <1>15, <1>16, <1>17, <1>18, <1>19, <1>20, <1>21, <1>22, <1>23,
     <1>24, <1>25, <1>26, <1>27, <1>28, <1>29, <1>30, <1>31, <1>32, <1>33, <1>34,
     <1>35, <1>36, <1>37, <1>38, <1>39, <1>40, <1>41, <1>42, <1>43, <1>44, <1>45,
     <1>46, <1>47, <1>48, <1>49, <1>50, <1>51, <1>52, <1>53
  DEF Next, HandlerStep, UpstreamStep, Network, ExchangeEnding, vars


LEMMA Invariance == Spec => []IInv
<1> QED
  BY InitIInv, NextIInv, PTL DEF Spec

\* Every variable keeps its type, for all constants.
THEOREM TypeCorrect == Spec => []TypeOK
<1>1. IInv => TypeOK
  BY DEF IInv
<1> QED
  BY Invariance, <1>1, PTL

\* push_stream_chunk never lets the buffer exceed its limit by a whole chunk,
\* for every limit and every chunk size.
THEOREM BufferBounded == Spec => []BoundedBuffer
<1>1. IInv => BoundedBuffer
  BY DEF IInv
<1> QED
  BY Invariance, <1>1, PTL

\* No chunk is accepted into the buffer of a cancelled stream.
THEOREM CancelStopsPushes == Spec => NoPushAfterCancel
<1> USE DEF bufferVars, shared, handlerVars, upstreamVars, reading, pushing, notHandler,
            notUpstream
<1>1. HandlerStep => accepted' = accepted
  BY DEF HandlerStep, PrecheckFails, InstallCancelUpstream, SpawnFails, Spawn,
     Started, DownstreamGone, Finish499, ErrorBodyComplete, Answer, CancelStreamBuffer,
     StreamControlCancel, StopClient, RegisterStreamMonitor, WriteHeaders, CutResponse,
     CallProvider, PollWritable, NotWritable, PopChunk, NothingBuffered, WriteChunk,
     WriteFails, WriteErrorEvent, ErrorEventFails, SinkDone, Release,
     FinalizeStreamMonitor, AccountStream, RefuseWith, HandlerGoes
<1>2. Network \/ PeerLeaves => accepted' = accepted
  BY DEF Network, ExchangeEnding, ConnectEnds, ExchangeEnds, HeadersArrive, ReadBody,
     UpstreamGoes, PeerLeaves
<1>3. UpstreamStep /\ cancelled => accepted' = accepted
  BY DEF UpstreamStep, UrlThrows, OpenFails, SetCancelHandler, Dial, AdmitBody, SocketShut,
     ExchangeEnds, CheckControl, CheckBuffer, ReadDone, TranslateEvent,
     TranslationThrows, PushChunk, MayPush, PushRefused, PostStreamReturns, Settle,
     FlushPending, FlushThrows, PublishFault, FinishStream, UpstreamGoes
<1>4. [Next]_vars => [cancelled => accepted' = accepted]_vars
  BY <1>1, <1>2, <1>3 DEF Next, vars
<1> QED
  BY <1>4, PTL DEF Spec, NoPushAfterCancel

--------------------------------------------------------------------------------
(* What is written, in hand and queued, and when the end may come.           *)

\* Before the upstream thread exists nothing was accepted or written.
NothingYet ==
  hpc \in {"precheck", "spawn"} =>
    /\ chunks = <<>> /\ written = <<>> /\ accepted = 0 /\ response = "open"
    /\ ~completed

\* Ids follow each other through the three places of a chunk.
ChunksInOrder ==
  upc # "none" /\ response # "cut" =>
    /\ accepted = Len(written) + Len(in_hand) + Len(chunks)
    /\ \A i \in 1..Len(in_hand) : in_hand[i].id = Len(written) + i
    /\ \A i \in 1..Len(chunks) : chunks[i].id = Len(written) + Len(in_hand) + i

\* A response that is being written has an upstream thread and was not cut.
CutIsOver ==
  /\ hpc \notin {"precheck", "spawn", "answer", "done"} => upc # "none"
  /\ hpc \in {"poll", "wait", "drain", "write"} => response = "open"
  /\ \A i \in 1..Len(written) : written[i] = i

\* A buffer is completed by the upstream thread's end, or for a response that has
\* not begun; an error comes with it.
CompletedIsEnd ==
  /\ completed => upc = "ended" \/ hpc \in {"answer", "done"}
  /\ error => completed

\* Between the decision to end the response and its end nothing more can come.
Ending ==
  /\ hpc = "errorEvent" => error /\ chunks = <<>>
  /\ hpc = "sinkDone" => /\ completed /\ chunks = <<>>
                         /\ response # "cut" /\ error => error_event
  /\ response = "done" => /\ upc = "ended" /\ chunks = <<>> /\ in_hand = <<>>
                          /\ error => error_event
                          /\ hpc \in {"release", "finalize", "account", "done"}

EndInv == NothingYet /\ ChunksInOrder /\ CutIsOver /\ CompletedIsEnd /\ Ending

\* All five parts hold before the request is handled.
LEMMA InitEndInv == Init => EndInv
  BY DEF Init, EndInv, NothingYet, ChunksInOrder, CutIsOver, CompletedIsEnd, Ending

\* The steps of the handler thread.
LEMMA HandlerEndInv == IInv /\ EndInv /\ HandlerStep => EndInv'
<1> SUFFICES ASSUME IInv, EndInv, HandlerStep PROVE EndInv'
  OBVIOUS
<1>0. /\ chunks \in Seq(Chunk) /\ in_hand \in Seq(Chunk)
      /\ written \in Seq(0..MaxEvents) /\ accepted \in Nat
      /\ WriterHolds /\ Fresh /\ response \in {"open", "done", "cut"}
      /\ ret \in {"provider", "finalize", "finish499"}
  BY DEF IInv, TypeOK, BufferOK, HandlerOK, UpstreamOK
<1> USE <1>0 DEF queue, flags, marks, bufferVars, controlVars, startVars, monitorVars,
        books, shared, delivery, handlerVars, reading, pushing, upstreamVars,
        notHandler, notUpstream, WriterHolds, Fresh,
        EndInv, NothingYet, ChunksInOrder, CutIsOver, CompletedIsEnd, Ending
<1>1. CASE PrecheckFails
  BY <1>1 DEF PrecheckFails, RefuseWith
<1>2. CASE InstallCancelUpstream
  BY <1>2 DEF InstallCancelUpstream
<1>3. CASE SpawnFails
  BY <1>3 DEF SpawnFails, RefuseWith
<1>4. CASE Spawn
  BY <1>4 DEF Spawn
<1>5. CASE Started
  BY <1>5 DEF Started
<1>6. CASE DownstreamGone
  BY <1>6 DEF DownstreamGone
<1>7. CASE Finish499
  BY <1>7 DEF Finish499, MarkCompleted
<1>8. CASE ErrorBodyComplete
  BY <1>8 DEF ErrorBodyComplete, HandlerGoes
<1>9. CASE Answer
  BY <1>9 DEF Answer
<1>10. CASE CancelStreamBuffer
  BY <1>10 DEF CancelStreamBuffer, MarkCancelled
<1>11. CASE StreamControlCancel
  BY <1>11 DEF StreamControlCancel, AfterControlCancel
<1>12. CASE StopClient
  BY <1>12 DEF StopClient
<1>13. CASE RegisterStreamMonitor
  BY <1>13 DEF RegisterStreamMonitor
<1>14. CASE WriteHeaders
  BY <1>14 DEF WriteHeaders, HandlerGoes
<1>15. CASE CutResponse
  BY <1>15 DEF CutResponse
<1>16. CASE CallProvider
  BY <1>16 DEF CallProvider, HandlerGoes
<1>17. CASE PollWritable
  BY <1>17 DEF PollWritable, HandlerGoes
<1>18. CASE NotWritable
  BY <1>18 DEF NotWritable
<1>19. CASE PopChunk
  <2>1. /\ chunks # <<>> /\ in_hand' = <<Head(chunks)>> /\ chunks' = Tail(chunks)
        /\ hpc \in {"wait", "drain"} /\ hpc' = "write"
        /\ UNCHANGED <<upstreamVars, flags, written, error_event, response>>
    BY <1>19 DEF PopChunk
  <2>2. in_hand = <<>>
    BY <2>1
  <2>3. NothingYet' /\ CutIsOver' /\ CompletedIsEnd' /\ Ending'
    BY <2>1, <2>2
  <2>4. /\ Len(in_hand') = 1 /\ in_hand'[1] = chunks[1]
        /\ Len(chunks') = Len(chunks) - 1
        /\ \A i \in 1..Len(chunks') :
             chunks'[i] = chunks[i + 1] /\ i + 1 \in 1..Len(chunks)
    BY <2>1
  <2>5. ChunksInOrder'
    BY <2>1, <2>2, <2>4
  <2> QED
    BY <2>3, <2>5 DEF EndInv
<1>20. CASE NothingBuffered
  BY <1>20 DEF NothingBuffered, Drained, AfterDrained
<1>21. CASE WriteChunk
  <2>1. /\ hpc = "write" /\ hpc' = "drain" /\ in_hand' = <<>>
        /\ written' = Append(written, in_hand[1].id)
        /\ UNCHANGED <<upstreamVars, queue, flags, error_event, response>>
    BY <1>21 DEF WriteChunk
  <2>2. Len(in_hand) = 1 /\ upc # "none" /\ response = "open"
    BY <2>1
  <2>3. in_hand[1].id = Len(written) + 1
    BY <2>2
  <2>4. /\ Len(written') = Len(written) + 1
        /\ \A i \in 1..Len(written') : written'[i] = i
    BY <2>1, <2>3
  <2>5. NothingYet' /\ CompletedIsEnd' /\ Ending' /\ CutIsOver'
    BY <2>1, <2>2, <2>4
  <2>6. ChunksInOrder'
    BY <2>1, <2>2, <2>4
  <2> QED
    BY <2>5, <2>6 DEF EndInv
<1>22. CASE WriteFails
  BY <1>22 DEF WriteFails
<1>23. CASE WriteErrorEvent
  BY <1>23 DEF WriteErrorEvent
<1>24. CASE ErrorEventFails
  BY <1>24 DEF ErrorEventFails
<1>25. CASE SinkDone
  BY <1>25 DEF SinkDone
<1>26. CASE Release
  BY <1>26 DEF Release
<1>27. CASE FinalizeStreamMonitor
  BY <1>27 DEF FinalizeStreamMonitor
<1>28. CASE AccountStream
  BY <1>28 DEF AccountStream
<1> HIDE DEF EndInv
<1> QED
  BY <1>1, <1>2, <1>3, <1>4, <1>5, <1>6, <1>7, <1>8, <1>9, <1>10, <1>11, <1>12,
     <1>13, <1>14, <1>15, <1>16, <1>17, <1>18, <1>19, <1>20, <1>21, <1>22, <1>23,
     <1>24, <1>25, <1>26, <1>27, <1>28
  DEF HandlerStep

\* The steps of the upstream thread and of the network.
LEMMA UpstreamEndInv == IInv /\ EndInv /\ (UpstreamStep \/ Network) => EndInv'
<1> SUFFICES ASSUME IInv, EndInv, UpstreamStep \/ Network PROVE EndInv'
  OBVIOUS
<1>0. /\ chunks \in Seq(Chunk) /\ in_hand \in Seq(Chunk)
      /\ written \in Seq(0..MaxEvents) /\ accepted \in Nat
  BY DEF IInv, TypeOK, BufferOK, HandlerOK, UpstreamOK
<1> USE <1>0 DEF queue, flags, marks, bufferVars, controlVars, startVars, monitorVars,
        books, shared, delivery, handlerVars, reading, pushing, upstreamVars,
        notHandler, notUpstream
<1>1. CASE \/ PushChunk("push", "translate") \/ PushChunk("flushPush", "finish")
  <2>1. /\ chunks' = Append(chunks, [id |-> accepted + 1, size |-> u_chunk])
        /\ accepted' = accepted + 1 /\ upc \in {"push", "flushPush"}
        /\ upc' \in {"translate", "finish"}
        /\ UNCHANGED <<handlerVars, flags>>
    BY <1>1 DEF PushChunk
  <2>2. NothingYet' /\ CompletedIsEnd' /\ Ending' /\ CutIsOver'
    BY <2>1 DEF IInv, Fresh, EndInv, NothingYet, CompletedIsEnd, Ending, CutIsOver
  <2>3. ChunksInOrder'
    <3>1. CASE response # "cut"
      <4>1. Len(chunks') = Len(chunks) + 1
        BY <2>1
      <4>2. \A i \in 1..Len(chunks') :
              i # Len(chunks) + 1 => i \in 1..Len(chunks) /\ chunks'[i] = chunks[i]
        BY <2>1
      <4>3. chunks'[Len(chunks) + 1].id = accepted + 1
        BY <2>1
      <4> QED
        BY <2>1, <3>1, <4>1, <4>2, <4>3 DEF EndInv, ChunksInOrder
    <3> QED
      BY <2>1, <3>1 DEF ChunksInOrder
  <2> QED
    BY <2>2, <2>3 DEF EndInv
<1>2. CASE FinishStream
  BY <1>2 DEF FinishStream, MarkCompleted, IInv, Fresh, EndInv, NothingYet, ChunksInOrder,
     CutIsOver, CompletedIsEnd, Ending
<1>3. CASE /\ UNCHANGED <<queue, flags, handlerVars, accepted>>
           /\ upc \notin {"none", "ended"} /\ upc' \notin {"none", "ended"}
  BY <1>3 DEF EndInv, NothingYet, ChunksInOrder, CutIsOver, CompletedIsEnd, Ending
<1>4. \/ FinishStream
      \/ PushChunk("push", "translate") \/ PushChunk("flushPush", "finish")
      \/ /\ UNCHANGED <<queue, flags, handlerVars, accepted>>
         /\ upc \notin {"none", "ended"} /\ upc' \notin {"none", "ended"}
  BY DEF UpstreamStep, Network, ExchangeEnding, UrlThrows, OpenFails,
     SetCancelHandler, Dial,
     AdmitBody, SocketShut, ConnectEnds, ExchangeEnds, HeadersArrive, ReadBody,
     CheckControl, CheckBuffer, ReadDone, TranslateEvent, TranslationThrows,
     PushRefused, PostStreamReturns, Settle, FlushPending, FlushThrows,
     PublishFault, UpstreamGoes
<1> QED
  BY <1>1, <1>2, <1>3, <1>4

\* Every step keeps them.
LEMMA NextEndInv == IInv /\ EndInv /\ [Next]_vars => EndInv'
<1> SUFFICES ASSUME IInv, EndInv, [Next]_vars PROVE EndInv'
  OBVIOUS
<1>1. CASE PeerLeaves \/ UNCHANGED vars
  <2>1. UNCHANGED <<chunks, completed, error, hpc, in_hand, written, error_event,
                    response, upc, accepted>>
    BY <1>1 DEF PeerLeaves, vars, shared, bufferVars, queue, flags, handlerVars, delivery,
       upstreamVars, pushing
  <2> QED
    BY <2>1 DEF EndInv, NothingYet, ChunksInOrder, CutIsOver, CompletedIsEnd, Ending
<1> QED
  BY <1>1, HandlerEndInv, UpstreamEndInv DEF Next

LEMMA EndInvariance == Spec => [](IInv /\ EndInv)
  BY InitIInv, NextIInv, InitEndInv, NextEndInv, PTL DEF Spec

\* The closing mark of the response comes only after the upstream thread ended, every
\* chunk was written and an error reported, for every limit, chunk size and length.
THEOREM DoneMeansWholeAlways == Spec => []DoneMeansWhole
<1>1. IInv /\ EndInv => DoneMeansWhole
  BY DEF IInv, TypeOK, BufferOK, HandlerOK, UpstreamOK, EndInv, ChunksInOrder, Ending,
     DoneMeansWhole
<1> QED
  BY EndInvariance, <1>1, PTL

\* Until a response is cut its chunks are written in the order they were accepted in,
\* none twice and none left out, for any buffer limit and any number of events: the
\* part of RelayOrder that is not about bytes (push_stream_chunk, sse_provider).
THEOREM OrderKept ==
  Spec => [](ChunksInOrder /\ \A i \in 1..Len(written) : written[i] = i)
<1>1. EndInv => ChunksInOrder /\ \A i \in 1..Len(written) : written[i] = i
  BY DEF EndInv, CutIsOver
<1> QED
  BY EndInvariance, <1>1, PTL

--------------------------------------------------------------------------------
(* The monitor's books.                                                      *)

\* Where the stream is registered with the monitor and not yet finalized.
Registered ==
  \/ hpc \in {"headers", "provider", "poll", "wait", "drain", "write", "cancel",
              "errorEvent", "sinkDone", "release", "finalize"}
  \/ hpc \in {"ctlCancel", "stop"} /\ ret # "finish499"

\* A stream is listed as active between its registration and its accounting.
InBooks ==
  /\ Registered => monitor_stream_id = 1 /\ ~monitor_finalized
  /\ ~Registered /\ hpc # "account" => ~active
  /\ hpc = "cancel" => ret # "finish499"

\* A stream that comes to its finalization was written to its end or cancelled, and
\* is classified accordingly.
Classified ==
  /\ hpc \in {"ctlCancel", "stop"} /\ ret = "finalize" => cancelled
  /\ hpc = "finalize" => response = "done" \/ cancelled
  /\ hpc = "account" => verdict # "none"
  /\ hpc = "account" /\ verdict = "completed" => response = "done" /\ ~error

NotCounted == hpc # "done" => counters = [o \in Outcomes |-> 0]

BooksInv == InBooks /\ Classified /\ NotCounted /\ CountedOnce

LEMMA InitBooksInv == Init => BooksInv
  BY DEF Init, BooksInv, InBooks, Classified, NotCounted, CountedOnce, Registered

\* The steps of the handler thread.
LEMMA HandlerBooksInv == IInv /\ EndInv /\ BooksInv /\ HandlerStep => BooksInv'
<1> SUFFICES ASSUME IInv, EndInv, BooksInv, HandlerStep PROVE BooksInv'
  OBVIOUS
<1>0. /\ counters \in [Outcomes -> Nat] /\ active \in BOOLEAN
      /\ verdict \in {"none", "error", "disconnect", "cancelled", "completed"}
      /\ response \in {"open", "done", "cut"}
      /\ ret \in {"provider", "finalize", "finish499"}
      /\ response = "done" => hpc \in {"release", "finalize", "account", "done"}
  BY DEF IInv, TypeOK, MonitorOK, HandlerOK, EndInv, Ending
<1> USE <1>0 DEF queue, flags, marks, bufferVars, controlVars, startVars, monitorVars,
        books, shared, delivery, handlerVars, reading, pushing, upstreamVars,
        notHandler, notUpstream, Outcomes,
        BooksInv, InBooks, Classified, NotCounted, CountedOnce, Registered
<1>1. CASE PrecheckFails
  BY <1>1 DEF PrecheckFails, RefuseWith
<1>2. CASE InstallCancelUpstream
  BY <1>2 DEF InstallCancelUpstream
<1>3. CASE SpawnFails
  BY <1>3 DEF SpawnFails, RefuseWith
<1>4. CASE Spawn
  BY <1>4 DEF Spawn
<1>5. CASE Started
  BY <1>5 DEF Started
<1>6. CASE DownstreamGone
  BY <1>6 DEF DownstreamGone
<1>7. CASE Finish499
  BY <1>7 DEF Finish499, MarkCompleted
<1>8. CASE ErrorBodyComplete
  BY <1>8 DEF ErrorBodyComplete, HandlerGoes
<1>9. CASE Answer
  BY <1>9 DEF Answer
<1>10. CASE CancelStreamBuffer
  BY <1>10 DEF CancelStreamBuffer, MarkCancelled
<1>11. CASE StreamControlCancel
  BY <1>11 DEF StreamControlCancel, AfterControlCancel
<1>12. CASE StopClient
  BY <1>12 DEF StopClient
<1>13. CASE RegisterStreamMonitor
  BY <1>13 DEF RegisterStreamMonitor
<1>14. CASE WriteHeaders
  BY <1>14 DEF WriteHeaders, HandlerGoes
<1>15. CASE CutResponse
  BY <1>15 DEF CutResponse
<1>16. CASE CallProvider
  BY <1>16 DEF CallProvider, HandlerGoes
<1>17. CASE PollWritable
  BY <1>17 DEF PollWritable, HandlerGoes
<1>18. CASE NotWritable
  BY <1>18 DEF NotWritable
<1>19. CASE PopChunk
  BY <1>19 DEF PopChunk
<1>20. CASE NothingBuffered
  BY <1>20 DEF NothingBuffered, AfterDrained
<1>21. CASE WriteChunk
  BY <1>21 DEF WriteChunk
<1>22. CASE WriteFails
  BY <1>22 DEF WriteFails
<1>23. CASE WriteErrorEvent
  BY <1>23 DEF WriteErrorEvent
<1>24. CASE ErrorEventFails
  BY <1>24 DEF ErrorEventFails
<1>25. CASE SinkDone
  BY <1>25 DEF SinkDone
<1>26. CASE Release
  BY <1>26 DEF Release
<1>27. CASE FinalizeStreamMonitor
  BY <1>27 DEF FinalizeStreamMonitor
<1>28. CASE AccountStream
  <2>1. /\ hpc = "account" /\ hpc' = "done" /\ active' = (active /\ verdict = "none")
        /\ UNCHANGED <<bufferVars, response, verdict, ret>>
    BY <1>28 DEF AccountStream
  <2>2. verdict \in {"error", "disconnect", "cancelled", "completed"}
    BY <2>1
  <2>3. ~active'
    BY <2>1, <2>2
  <2>4. /\ counters'["errors"] = IF verdict = "error" THEN 1 ELSE 0
        /\ counters'["cancellations"] =
             IF verdict \in {"cancelled", "disconnect"} THEN 1 ELSE 0
        /\ counters'["disconnects"] = IF verdict = "disconnect" THEN 1 ELSE 0
        /\ counters'["completions"] = IF verdict = "completed" THEN 1 ELSE 0
    <3>1. \A o \in Outcomes : counters[o] = 0
      BY <2>1
    <3> QED
      BY <1>28, <3>1, <2>2 DEF AccountStream
  <2>5. CountedOnce'
    BY <2>1, <2>2, <2>3, <2>4
  <2>6. InBooks' /\ Classified' /\ NotCounted'
    BY <2>1, <2>3
  <2> QED
    BY <2>5, <2>6 DEF BooksInv
<1> HIDE DEF BooksInv
<1> QED
  BY <1>1, <1>2, <1>3, <1>4, <1>5, <1>6, <1>7, <1>8, <1>9, <1>10, <1>11, <1>12,
     <1>13, <1>14, <1>15, <1>16, <1>17, <1>18, <1>19, <1>20, <1>21, <1>22, <1>23,
     <1>24, <1>25, <1>26, <1>27, <1>28
  DEF HandlerStep

\* Every other step: only the end of the upstream thread can change what the books are
\* about, and it comes before a response is done.
LEMMA NextBooksInv == IInv /\ EndInv /\ BooksInv /\ [Next]_vars => BooksInv'
<1> SUFFICES ASSUME IInv, EndInv, BooksInv, [Next]_vars PROVE BooksInv'
  OBVIOUS
<1>1. CASE UpstreamStep \/ Network \/ PeerLeaves \/ UNCHANGED vars
  <2>1. /\ UNCHANGED <<hpc, ret, response, cancelled, monitor_stream_id,
                       monitor_finalized, active, verdict, counters>>
        /\ error' = error \/ upc # "ended"
    BY <1>1 DEF UpstreamStep, Network, ExchangeEnding, UrlThrows, OpenFails,
       SetCancelHandler, Dial,
       AdmitBody, SocketShut, ConnectEnds, ExchangeEnds, HeadersArrive, ReadBody,
       CheckControl, CheckBuffer, ReadDone, TranslateEvent, TranslationThrows,
       PushChunk, PushRefused, PostStreamReturns, Settle, FlushPending, FlushThrows,
       PublishFault, FinishStream, UpstreamGoes, PeerLeaves, vars, shared,
       bufferVars, queue, flags, marks, books, controlVars, startVars, monitorVars,
       handlerVars, delivery,
       upstreamVars, notUpstream
  <2>2. response = "done" => upc = "ended"
    BY DEF EndInv, Ending
  <2> QED
    BY <2>1, <2>2 DEF BooksInv, InBooks, Classified, NotCounted, CountedOnce, Registered
<1> QED
  BY <1>1, HandlerBooksInv DEF Next

\* A finished request is in the monitor's books once, as what it was, and is not listed
\* as active, for all constants (finalize_stream_monitor, handle_messages).
THEOREM CountedOnceAlways == Spec => []CountedOnce
<1>1. BooksInv => CountedOnce
  BY DEF BooksInv
<1>2. Spec => []BooksInv
  BY EndInvariance, InitBooksInv, NextBooksInv, PTL DEF Spec
<1> QED
  BY <1>1, <1>2, PTL

--------------------------------------------------------------------------------
(* Upstream threads left behind.                                             *)

\* A handler that is past its waits has seen the upstream thread end or never start,
\* or has cancelled the stream, or has given up its start.
LeavesNoneWaiting ==
  /\ hpc \in {"finalize", "account"} => response = "done" \/ cancelled
  /\ hpc \in {"ctlCancel", "stop"} /\ ret = "finalize" => cancelled
  /\ hpc \in {"answer", "done"} =>
       upc \in {"none", "ended"} \/ cancelled \/ out_status_code = 499

LEMMA HandlerLeavesNone ==
  IInv /\ EndInv /\ LeavesNoneWaiting /\ HandlerStep => LeavesNoneWaiting'
<1> SUFFICES ASSUME IInv, EndInv, LeavesNoneWaiting, HandlerStep
             PROVE  LeavesNoneWaiting'
  OBVIOUS
<1>0. ret \in {"provider", "finalize", "finish499"}
  BY DEF IInv, TypeOK, HandlerOK
<1> USE <1>0 DEF queue, flags, marks, bufferVars, controlVars, startVars, monitorVars,
        books, shared, delivery, handlerVars, reading, pushing, upstreamVars,
        notHandler, notUpstream, IInv, Fresh, EndInv, CompletedIsEnd, Ending,
        LeavesNoneWaiting
<1>1. CASE PrecheckFails
  BY <1>1 DEF PrecheckFails, RefuseWith
<1>2. CASE InstallCancelUpstream
  BY <1>2 DEF InstallCancelUpstream
<1>3. CASE SpawnFails
  BY <1>3 DEF SpawnFails, RefuseWith
<1>4. CASE Spawn
  BY <1>4 DEF Spawn
<1>5. CASE Started
  BY <1>5 DEF Started
<1>6. CASE DownstreamGone
  BY <1>6 DEF DownstreamGone
<1>7. CASE Finish499
  BY <1>7 DEF Finish499, MarkCompleted
<1>8. CASE ErrorBodyComplete
  BY <1>8 DEF ErrorBodyComplete, HandlerGoes
<1>9. CASE Answer
  BY <1>9 DEF Answer
<1>10. CASE CancelStreamBuffer
  BY <1>10 DEF CancelStreamBuffer, MarkCancelled
<1>11. CASE StreamControlCancel
  BY <1>11 DEF StreamControlCancel, AfterControlCancel
<1>12. CASE StopClient
  BY <1>12 DEF StopClient
<1>13. CASE RegisterStreamMonitor
  BY <1>13 DEF RegisterStreamMonitor
<1>14. CASE WriteHeaders
  BY <1>14 DEF WriteHeaders, HandlerGoes
<1>15. CASE CutResponse
  BY <1>15 DEF CutResponse
<1>16. CASE CallProvider
  BY <1>16 DEF CallProvider, HandlerGoes
<1>17. CASE PollWritable
  BY <1>17 DEF PollWritable, HandlerGoes
<1>18. CASE NotWritable
  BY <1>18 DEF NotWritable
<1>19. CASE PopChunk
  BY <1>19 DEF PopChunk
<1>20. CASE NothingBuffered
  BY <1>20 DEF NothingBuffered, AfterDrained
<1>21. CASE WriteChunk
  BY <1>21 DEF WriteChunk
<1>22. CASE WriteFails
  BY <1>22 DEF WriteFails
<1>23. CASE WriteErrorEvent
  BY <1>23 DEF WriteErrorEvent
<1>24. CASE ErrorEventFails
  BY <1>24 DEF ErrorEventFails
<1>25. CASE SinkDone
  BY <1>25 DEF SinkDone
<1>26. CASE Release
  BY <1>26 DEF Release
<1>27. CASE FinalizeStreamMonitor
  BY <1>27 DEF FinalizeStreamMonitor
<1>28. CASE AccountStream
  BY <1>28 DEF AccountStream
<1> QED
  BY <1>1, <1>2, <1>3, <1>4, <1>5, <1>6, <1>7, <1>8, <1>9, <1>10, <1>11, <1>12,
     <1>13, <1>14, <1>15, <1>16, <1>17, <1>18, <1>19, <1>20, <1>21, <1>22, <1>23,
     <1>24, <1>25, <1>26, <1>27, <1>28
  DEF HandlerStep

LEMMA NextLeavesNone ==
  IInv /\ EndInv /\ LeavesNoneWaiting /\ [Next]_vars => LeavesNoneWaiting'
<1> SUFFICES ASSUME IInv, EndInv, LeavesNoneWaiting, [Next]_vars
             PROVE  LeavesNoneWaiting'
  OBVIOUS
<1>1. CASE UpstreamStep \/ Network \/ PeerLeaves \/ UNCHANGED vars
  <2>1. /\ UNCHANGED <<hpc, ret, response, cancelled, out_status_code>>
        /\ upc \in {"none", "ended"} => upc' = upc
    BY <1>1 DEF UpstreamStep, Network, ExchangeEnding, UrlThrows, OpenFails,
       SetCancelHandler, Dial,
       AdmitBody, SocketShut, ConnectEnds, ExchangeEnds, HeadersArrive, ReadBody,
       CheckControl, CheckBuffer, ReadDone, TranslateEvent, TranslationThrows,
       PushChunk, PushRefused, PostStreamReturns, Settle, FlushPending, FlushThrows,
       PublishFault, FinishStream, UpstreamGoes, PeerLeaves, vars, shared,
       bufferVars, flags, handlerVars, delivery, upstreamVars, notUpstream
  <2> QED
    BY <2>1 DEF LeavesNoneWaiting
<1> QED
  BY <1>1, HandlerLeavesNone DEF Next

\* An upstream thread waits for room that nobody will make only if the handler gave up
\* before the status came, for all constants (chatStream, push_stream_chunk).
THEOREM OnlyAbandonedStartStrandsAlways == Spec => []OnlyAbandonedStartStrands
<1>1. Init => LeavesNoneWaiting
  BY DEF Init, LeavesNoneWaiting
<1>2. LeavesNoneWaiting => OnlyAbandonedStartStrands
  BY DEF LeavesNoneWaiting, OnlyAbandonedStartStrands
<1> QED
  BY EndInvariance, <1>1, <1>2, NextLeavesNone, PTL DEF Spec

--------------------------------------------------------------------------------
(* StreamRelay implements StreamChannel: every step of the two threads, of   *)
(* the client and of the provider is a step of the channel or none.          *)

\* A refused request was never registered, and remains refused.
StaysRefused ==
  /\ hpc \in {"precheck", "spawn", "waitStart", "finish499", "waitError", "answer",
              "register"} => monitor_stream_id = 0
  /\ hpc = "account" => monitor_stream_id = 1
  /\ ret = "finish499" => /\ hpc \in {"ctlCancel", "stop", "finish499", "answer", "done"}
                          /\ monitor_stream_id = 0

\* Every step keeps a refused request refused.
LEMMA NextStaysRefused ==
  IInv /\ BooksInv /\ StaysRefused /\ [Next]_vars => StaysRefused'
<1> SUFFICES ASSUME IInv, BooksInv, StaysRefused, [Next]_vars PROVE StaysRefused'
  OBVIOUS
<1>0. ret \in {"provider", "finalize", "finish499"} /\ InBooks
  BY DEF IInv, TypeOK, HandlerOK, BooksInv
<1> USE <1>0 DEF queue, flags, marks, bufferVars, controlVars, startVars, monitorVars,
        books, shared, delivery, handlerVars, reading, pushing, upstreamVars,
        notHandler, notUpstream, InBooks, Registered, StaysRefused
<1>1. CASE PrecheckFails
  BY <1>1 DEF PrecheckFails, RefuseWith
<1>2. CASE InstallCancelUpstream
  BY <1>2 DEF InstallCancelUpstream
<1>3. CASE SpawnFails
  BY <1>3 DEF SpawnFails, RefuseWith
<1>4. CASE Spawn
  BY <1>4 DEF Spawn
<1>5. CASE Started
  BY <1>5 DEF Started
<1>6. CASE DownstreamGone
  BY <1>6 DEF DownstreamGone
<1>7. CASE Finish499
  BY <1>7 DEF Finish499, MarkCompleted
<1>8. CASE ErrorBodyComplete
  BY <1>8 DEF ErrorBodyComplete, HandlerGoes
<1>9. CASE Answer
  BY <1>9 DEF Answer
<1>10. CASE CancelStreamBuffer
  BY <1>10 DEF CancelStreamBuffer, MarkCancelled
<1>11. CASE StreamControlCancel
  BY <1>11 DEF StreamControlCancel, AfterControlCancel
<1>12. CASE StopClient
  BY <1>12 DEF StopClient
<1>13. CASE RegisterStreamMonitor
  BY <1>13 DEF RegisterStreamMonitor
<1>14. CASE WriteHeaders
  BY <1>14 DEF WriteHeaders, HandlerGoes
<1>15. CASE CutResponse
  BY <1>15 DEF CutResponse
<1>16. CASE CallProvider
  BY <1>16 DEF CallProvider, HandlerGoes
<1>17. CASE PollWritable
  BY <1>17 DEF PollWritable, HandlerGoes
<1>18. CASE NotWritable
  BY <1>18 DEF NotWritable
<1>19. CASE PopChunk
  BY <1>19 DEF PopChunk
<1>20. CASE NothingBuffered
  BY <1>20 DEF NothingBuffered, AfterDrained
<1>21. CASE WriteChunk
  BY <1>21 DEF WriteChunk
<1>22. CASE WriteFails
  BY <1>22 DEF WriteFails
<1>23. CASE WriteErrorEvent
  BY <1>23 DEF WriteErrorEvent
<1>24. CASE ErrorEventFails
  BY <1>24 DEF ErrorEventFails
<1>25. CASE SinkDone
  BY <1>25 DEF SinkDone
<1>26. CASE Release
  BY <1>26 DEF Release
<1>27. CASE FinalizeStreamMonitor
  BY <1>27 DEF FinalizeStreamMonitor
<1>28. CASE AccountStream
  BY <1>28 DEF AccountStream
<1>29. CASE UpstreamStep \/ Network \/ PeerLeaves \/ UNCHANGED vars
  <2>1. UNCHANGED <<hpc, ret, monitor_stream_id>>
    BY <1>29 DEF UpstreamStep, Network, ExchangeEnding, UrlThrows, OpenFails,
       SetCancelHandler, Dial,
       AdmitBody, SocketShut, ConnectEnds, ExchangeEnds, HeadersArrive, ReadBody,
       CheckControl, CheckBuffer, ReadDone, TranslateEvent, TranslationThrows,
       PushChunk, PushRefused, PostStreamReturns, Settle, FlushPending, FlushThrows,
       PublishFault, FinishStream, UpstreamGoes, PeerLeaves, vars
  <2> QED
    BY <2>1
<1> QED
  BY <1>1, <1>2, <1>3, <1>4, <1>5, <1>6, <1>7, <1>8, <1>9, <1>10, <1>11, <1>12,
     <1>13, <1>14, <1>15, <1>16, <1>17, <1>18, <1>19, <1>20, <1>21, <1>22, <1>23,
     <1>24, <1>25, <1>26, <1>27, <1>28,
     <1>29
  DEF Next, HandlerStep

ChannelInv == IInv /\ EndInv /\ BooksInv /\ StaysRefused

LEMMA ChannelInvariance == Spec => []ChannelInv
<1>1. Init => ChannelInv
  BY InitIInv, InitEndInv, InitBooksInv DEF Init, ChannelInv, StaysRefused
<1>2. ChannelInv /\ [Next]_vars => ChannelInv'
  BY NextIInv, NextEndInv, NextBooksInv, NextStaysRefused DEF ChannelInv
<1> QED
  BY <1>1, <1>2, PTL DEF Spec

--------------------------------------------------------------------------------
(* The mapping, step by step.                                                *)

\* The steps of the handler thread: it sends, ends or cuts the response.
LEMMA HandlerStepMaps ==
  ChannelInv /\ HandlerStep => Channel!Next \/ UNCHANGED Channel!channel
<1> SUFFICES ASSUME ChannelInv, HandlerStep
             PROVE  Channel!Next \/ UNCHANGED Channel!channel
  OBVIOUS
<1>0. /\ chunks \in Seq(Chunk) /\ in_hand \in Seq(Chunk)
      /\ written \in Seq(0..MaxEvents) /\ accepted \in Nat
      /\ WriterHolds /\ Fresh /\ response \in {"open", "done", "cut"}
      /\ ret \in {"provider", "finalize", "finish499"}
      /\ monitor_stream_id \in {0, 1}
      /\ InBooks /\ NothingYet /\ ChunksInOrder /\ CutIsOver /\ CompletedIsEnd /\ Ending
      /\ StaysRefused
  BY DEF ChannelInv, IInv, TypeOK, BufferOK, HandlerOK, UpstreamOK, EndInv, BooksInv
<1> USE <1>0 DEF queue, flags, marks, bufferVars, controlVars, startVars, monitorVars,
        books, shared, delivery, handlerVars, reading, pushing, upstreamVars,
        notHandler, notUpstream, WriterHolds, Fresh, InBooks, Registered, NothingYet,
        ChunksInOrder, CutIsOver, CompletedIsEnd, Ending, StaysRefused, Refused,
        Channel!Next, Channel!channel, Channel!Accept, Channel!Send, Channel!Close,
        Channel!Finish, Channel!Cut
<1>1. CASE PrecheckFails
  BY <1>1 DEF PrecheckFails, RefuseWith
<1>2. CASE InstallCancelUpstream
  BY <1>2 DEF InstallCancelUpstream
<1>3. CASE SpawnFails
  BY <1>3 DEF SpawnFails, RefuseWith
<1>4. CASE Spawn
  BY <1>4 DEF Spawn
<1>5. CASE Started
  BY <1>5 DEF Started
<1>6. CASE DownstreamGone
  BY <1>6 DEF DownstreamGone
<1>7. CASE Finish499
  BY <1>7 DEF Finish499, MarkCompleted
<1>8. CASE ErrorBodyComplete
  BY <1>8 DEF ErrorBodyComplete, HandlerGoes
<1>9. CASE Answer
  BY <1>9 DEF Answer
<1>10. CASE CancelStreamBuffer
  BY <1>10 DEF CancelStreamBuffer, MarkCancelled
<1>11. CASE StreamControlCancel
  BY <1>11 DEF StreamControlCancel, AfterControlCancel
<1>12. CASE StopClient
  BY <1>12 DEF StopClient
<1>13. CASE RegisterStreamMonitor
  BY <1>13 DEF RegisterStreamMonitor
<1>14. CASE WriteHeaders
  BY <1>14 DEF WriteHeaders, HandlerGoes
<1>15. CASE CutResponse
  BY <1>15 DEF CutResponse
<1>16. CASE CallProvider
  BY <1>16 DEF CallProvider, HandlerGoes
<1>17. CASE PollWritable
  BY <1>17 DEF PollWritable, HandlerGoes
<1>18. CASE NotWritable
  BY <1>18 DEF NotWritable
<1>19. CASE PopChunk
  BY <1>19 DEF PopChunk
<1>20. CASE NothingBuffered
  BY <1>20 DEF NothingBuffered, AfterDrained
<1>21. CASE WriteChunk
  <2>1. /\ hpc = "write" /\ hpc' = "drain" /\ written' = Append(written, in_hand[1].id)
        /\ UNCHANGED <<ret, response, upc, accepted, monitor_stream_id>>
    BY <1>21 DEF WriteChunk
  <2>2. response = "open" /\ ~Refused /\ ~Refused'
    BY <2>1
  <2>3. Len(written') = Len(written) + 1
    BY <2>1
  <2>4. Len(written) < accepted
    <3>1. Len(in_hand) = 1 /\ upc # "none" /\ Len(chunks) \in Nat /\ Len(written) \in Nat
      BY <2>1
    <3>2. accepted = Len(written) + Len(in_hand) + Len(chunks)
      BY <3>1, <2>2 DEF ChunksInOrder
    <3> HIDE <1>0 DEF ChunksInOrder, Refused
    <3> QED
      BY <3>1, <3>2
  <2> QED
    BY <2>1, <2>2, <2>3, <2>4
<1>22. CASE WriteFails
  BY <1>22 DEF WriteFails
<1>23. CASE WriteErrorEvent
  BY <1>23 DEF WriteErrorEvent
<1>24. CASE ErrorEventFails
  BY <1>24 DEF ErrorEventFails
<1>25. CASE SinkDone
  BY <1>25 DEF SinkDone
<1>26. CASE Release
  BY <1>26 DEF Release
<1>27. CASE FinalizeStreamMonitor
  BY <1>27 DEF FinalizeStreamMonitor
<1>28. CASE AccountStream
  BY <1>28 DEF AccountStream
<1> QED
  BY <1>1, <1>2, <1>3, <1>4, <1>5, <1>6, <1>7, <1>8, <1>9, <1>10, <1>11, <1>12,
     <1>13, <1>14, <1>15, <1>16, <1>17, <1>18, <1>19, <1>20, <1>21, <1>22, <1>23,
     <1>24, <1>25, <1>26, <1>27, <1>28
  DEF HandlerStep

\* The steps of the upstream thread: it hands over a chunk or comes to its end.
LEMMA OtherStepMaps ==
  ASSUME ChannelInv, UpstreamStep \/ Network \/ PeerLeaves \/ UNCHANGED vars
  PROVE  Channel!Next \/ UNCHANGED Channel!channel
<1>1. /\ UNCHANGED <<hpc, ret, monitor_stream_id, written, response>>
      /\ \/ upc' # "ended" /\ upc # "ended" /\ accepted' \in {accepted, accepted + 1}
         \/ upc' = "ended" /\ upc # "ended" /\ accepted' = accepted
         \/ upc' = upc /\ accepted' = accepted
  BY DEF UpstreamStep, Network, ExchangeEnding, UrlThrows, OpenFails,
     SetCancelHandler, Dial,
     AdmitBody, SocketShut, ConnectEnds, ExchangeEnds, HeadersArrive, ReadBody,
     CheckControl, CheckBuffer, ReadDone, TranslateEvent, TranslationThrows,
     PushChunk, PushRefused, PostStreamReturns, Settle, FlushPending, FlushThrows,
     PublishFault, FinishStream, UpstreamGoes, PeerLeaves, vars, shared,
     bufferVars, queue, flags, marks, handlerVars, delivery, upstreamVars, pushing,
     notUpstream
<1>2. Refused' = Refused
  BY <1>1 DEF Refused
<1> QED
  BY <1>1, <1>2 DEF Channel!Next, Channel!channel, Channel!Accept, Channel!Close

\* A streamed request is a channel that hands the client what upstream accepted, in
\* order and once, and is closed only when nothing is left: the refinement, for all
\* constants (chatStream, push_stream_chunk, sse_provider, finish_stream).
THEOREM RelayKeepsChannel == Spec => KeepsChannel
<1>1. Init => Channel!Init
  BY DEF Init, Channel!Init, Refused
<1>2. ChannelInv /\ [Next]_vars => [Channel!Next]_(Channel!channel)
  BY HandlerStepMaps, OtherStepMaps DEF Next
<1> QED
  BY ChannelInvariance, <1>1, <1>2, PTL DEF Spec, KeepsChannel, Channel!Spec

--------------------------------------------------------------------------------
(* The byte count of the buffer.                                             *)

\* The function that Bytes(q) is made of exists: up to length k by induction.
SumsUpTo(q, k, g) ==
  g = [T \in SUBSET (1..k) |->
         IF T = {} THEN 0 ELSE g[T \ {Max(T)}] + q[Max(T)].size]

LEMMA SumsExist == ASSUME NEW q, NEW n \in Nat PROVE \E g : SumsUpTo(q, n, g)
<1> DEFINE S == {k \in Nat : \E g : SumsUpTo(q, k, g)}
<1>1. 0 \in S
  <2> DEFINE g == [T \in SUBSET (1..0) |-> 0]
  <2>1. SumsUpTo(q, 0, g)
    BY DEF SumsUpTo
  <2> QED
    BY <2>1
<1>2. ASSUME NEW k \in Nat, k \in S PROVE k + 1 \in S
  <2>1. PICK g : SumsUpTo(q, k, g)
    BY <1>2
  <2> DEFINE h == [T \in SUBSET (1..(k + 1)) |->
                     IF k + 1 \in T THEN g[T \ {k + 1}] + q[k + 1].size ELSE g[T]]
  <2>2. ASSUME NEW T \in SUBSET (1..(k + 1))
        PROVE  h[T] = IF T = {} THEN 0 ELSE h[T \ {Max(T)}] + q[Max(T)].size
    <3>1. CASE k + 1 \in T
      <4>1. Max(T) = k + 1
        <5>1. Max(T) \in 1..(k + 1) /\ Max(T) >= k + 1
          <6>1. k + 1 \in Nat /\ T # {} /\ k + 1 \in T
            BY <3>1
          <6> QED
            BY <6>1, MaxOfBounded
        <5> QED
          BY <5>1
      <4>2. T \ {k + 1} \in SUBSET (1..(k + 1)) /\ k + 1 \notin T \ {k + 1} /\ T # {}
        BY <3>1
      <4>3. h[T \ {k + 1}] = g[T \ {k + 1}] /\ h[T] = g[T \ {k + 1}] + q[k + 1].size
        BY <3>1, <4>2
      <4> QED
        BY <4>1, <4>2, <4>3
    <3>2. CASE k + 1 \notin T
      <4>1. T \in SUBSET (1..k) /\ h[T] = g[T]
        BY <3>2
      <4>2. \A U \in SUBSET T : h[U] = g[U]
        BY <3>2
      <4>3. g[T] = IF T = {} THEN 0 ELSE g[T \ {Max(T)}] + q[Max(T)].size
        BY <2>1, <4>1 DEF SumsUpTo
      <4> QED
        BY <4>1, <4>2, <4>3
    <3> QED
      BY <3>1, <3>2
  <2> HIDE DEF h
  <2>3. SumsUpTo(q, k + 1, h)
    <3>1. h = [T \in SUBSET (1..(k + 1)) |-> h[T]]
      BY DEF h
    <3> QED
      BY <2>2, <3>1 DEF SumsUpTo
  <2> QED
    BY <2>3
<1> HIDE DEF S
<1>3. n \in S
  BY <1>1, <1>2, SuccessorInduction
<1> QED
  BY <1>3 DEF S

\* Bytes adds the sizes from the first chunk to the last one.
LEMMA PartialSums ==
  ASSUME NEW q \in Seq(Chunk)
  PROVE  \E v \in [0..Len(q) -> Nat] :
           /\ v[0] = 0 /\ Bytes(q) = v[Len(q)]
           /\ \A i \in 1..Len(q) : v[i] = v[i - 1] + q[i].size
<1> DEFINE n == Len(q)
<1>0. n \in Nat /\ DOMAIN q = 1..n /\ \A i \in 1..n : q[i] \in Chunk
  OBVIOUS
<1>1. PICK g : SumsUpTo(q, n, g) /\ Bytes(q) = g[1..n]
  <2>1. \E g : SumsUpTo(q, n, g)
    BY <1>0, SumsExist
  <2> QED
    BY <1>0, <2>1 DEF Bytes, FoldLeft, MapThenFoldSet, SumsUpTo
<1> DEFINE v == [i \in 0..n |-> g[1..i]]
<1>2. v[0] = 0
  <2>1. 1..0 = {} /\ g[{}] = 0
    BY <1>1 DEF SumsUpTo
  <2> QED
    BY <2>1
<1>3. ASSUME NEW i \in 1..n PROVE v[i] = v[i - 1] + q[i].size
  <2>0. i \in Nat /\ i > 0 /\ i <= n
    BY <1>0
  <2> HIDE DEF n
  <2>1. 1..i \in SUBSET (1..n) /\ 1..i # {} /\ i \in Nat /\ i > 0
    BY <1>0, <2>0
  <2>2. g[1..i] = g[(1..i) \ {Max(1..i)}] + q[Max(1..i)].size
    BY <1>1, <2>1 DEF SumsUpTo
  <2>3. g[1..i] = g[1..(i - 1)] + q[i].size
    BY <2>1, <2>2, MaxOfInterval
  <2>4. i \in 0..n /\ i - 1 \in 0..n
    BY <1>0, <2>0
  <2> QED
    BY <2>3, <2>4
<1>4. Bytes(q) = v[n]
  BY <1>1
<1> HIDE DEF v
<1>5. \A i \in 1..n : q[i].size \in Nat
  BY <1>0 DEF Chunk
<1>6. \A i \in 0..n : v[i] \in Nat
  <2> DEFINE S == {i \in 0..n : v[i] \in Nat}
  <2>1. 0 \in S
    BY <1>2
  <2>2. \A i \in 0..(n - 1) : i \in S => i + 1 \in S
    <3> SUFFICES ASSUME NEW i \in 0..(n - 1), i \in S PROVE v[i + 1] \in Nat
      OBVIOUS
    <3>1. i + 1 \in 1..n /\ (i + 1) - 1 = i
      OBVIOUS
    <3>2. v[i + 1] = v[i] + q[i + 1].size
      BY <1>3, <3>1
    <3> QED
      BY <1>5, <3>1, <3>2
  <2> HIDE DEF S
  <2>3. 0..n \subseteq S
    BY <2>1, <2>2, BoundedInduction, SMTT(30)
  <2> QED
    BY <2>3 DEF S
<1>7. v = [i \in 0..n |-> v[i]]
  BY DEF v
<1>8. v \in [0..n -> Nat]
  BY <1>6, <1>7
<1> QED
  BY <1>2, <1>3, <1>4, <1>8

\* Pushing a chunk adds its size, popping one takes its size away.
LEMMA BytesPushed ==
  ASSUME NEW q \in Seq(Chunk), NEW chunk \in Chunk
  PROVE  Bytes(Append(q, chunk)) = Bytes(q) + chunk.size
<1> DEFINE n == Len(q)
           r == Append(q, chunk)
<1>1. /\ n \in Nat /\ r \in Seq(Chunk) /\ Len(r) = n + 1 /\ r[n + 1] = chunk
      /\ \A i \in 1..n : r[i] = q[i]
  OBVIOUS
<1>2. PICK v \in [0..n -> Nat] : /\ v[0] = 0 /\ Bytes(q) = v[n]
                                 /\ \A i \in 1..n : v[i] = v[i - 1] + q[i].size
  BY PartialSums
<1> HIDE DEF r, n
<1>3. PICK w \in [0..(n + 1) -> Nat] :
        /\ w[0] = 0 /\ Bytes(r) = w[n + 1]
        /\ \A i \in 1..(n + 1) : w[i] = w[i - 1] + r[i].size
  <2>1. \E w \in [0..Len(r) -> Nat] :
          /\ w[0] = 0 /\ Bytes(r) = w[Len(r)]
          /\ \A i \in 1..Len(r) : w[i] = w[i - 1] + r[i].size
    BY <1>1, PartialSums
  <2> QED
    BY <1>1, <2>1
<1> DEFINE S == {i \in 0..n : w[i] = v[i]}
<1>4. 0 \in S
  BY <1>1, <1>2, <1>3
<1>5. ASSUME NEW i \in 0..(n - 1), i \in S PROVE i + 1 \in S
  <2>1. i + 1 \in 1..n /\ i + 1 \in 1..(n + 1) /\ (i + 1) - 1 = i
    BY <1>1
  <2>2. v[i + 1] = v[i] + q[i + 1].size /\ w[i + 1] = w[i] + q[i + 1].size
    BY <1>1, <1>2, <1>3, <2>1
  <2> QED
    BY <1>5, <2>1, <2>2
<1> HIDE DEF S
<1>6. 0..n \subseteq S
  BY <1>1, <1>4, <1>5, BoundedInduction
<1>7. w[n] = v[n]
  BY <1>1, <1>6 DEF S
<1>8. w[n + 1] = w[n] + chunk.size
  BY <1>1, <1>3
<1> QED
  BY <1>2, <1>3, <1>7, <1>8 DEF r

\* The first of the queued chunks counts for its bytes.
LEMMA BytesPopped ==
  ASSUME NEW q \in Seq(Chunk), q # <<>>
  PROVE  Bytes(q) = Head(q).size + Bytes(Tail(q)) /\ Bytes(Tail(q)) \in Nat
<1> DEFINE n == Len(q) - 1
           r == Tail(q)
<1>1. /\ n \in Nat /\ Len(q) = n + 1 /\ r \in Seq(Chunk) /\ Len(r) = n
      /\ Head(q) = q[1] /\ \A i \in 1..n : r[i] = q[i + 1]
      /\ \A i \in 1..(n + 1) : q[i] \in Chunk
  OBVIOUS
<1> HIDE DEF r, n
<1>2. PICK v \in [0..(n + 1) -> Nat] :
        /\ v[0] = 0 /\ Bytes(q) = v[n + 1]
        /\ \A i \in 1..(n + 1) : v[i] = v[i - 1] + q[i].size
  BY <1>1, PartialSums, SMTT(30)
<1>3. PICK w \in [0..n -> Nat] : /\ w[0] = 0 /\ Bytes(r) = w[n]
                                 /\ \A i \in 1..n : w[i] = w[i - 1] + r[i].size
  BY <1>1, PartialSums
<1>4. q[1].size \in Nat /\ v[1] = q[1].size
  <2>1. 1 \in 1..(n + 1) /\ 1 - 1 = 0
    BY <1>1
  <2> QED
    BY <1>1, <1>2, <2>1 DEF Chunk
<1> DEFINE S == {i \in 0..n : v[i + 1] = q[1].size + w[i]}
<1>5. 0 \in S
  BY <1>1, <1>3, <1>4
<1>6. ASSUME NEW i \in 0..(n - 1), i \in S PROVE i + 1 \in S
  <2>1. /\ i + 1 \in 1..n /\ i + 2 \in 1..(n + 1) /\ (i + 1) - 1 = i
        /\ (i + 2) - 1 = i + 1 /\ (i + 1) + 1 = i + 2 /\ i \in 0..n
    BY <1>1
  <2>2. v[i + 2] = v[i + 1] + q[i + 2].size /\ w[i + 1] = w[i] + q[i + 2].size
    <3>1. v[i + 2] = v[(i + 2) - 1] + q[i + 2].size
      BY <1>2, <2>1
    <3>2. w[i + 1] = w[(i + 1) - 1] + r[i + 1].size /\ r[i + 1] = q[(i + 1) + 1]
      BY <1>1, <1>3, <2>1
    <3> QED
      BY <2>1, <3>1, <3>2
  <2>3. v[i + 1] = q[1].size + w[i]
    BY <1>6
  <2>4. q[i + 2].size \in Nat /\ w[i] \in Nat
    <3>1. q[i + 2] \in Chunk
      BY <1>1, <2>1
    <3>2. q[i + 2].size \in Nat
      BY <3>1 DEF Chunk
    <3>3. w[i] \in Nat
      BY <2>1
    <3> QED
      BY <3>2, <3>3
  <2>5. v[(i + 1) + 1] = q[1].size + w[i + 1]
    BY <1>4, <2>1, <2>2, <2>3, <2>4
  <2> QED
    BY <2>1, <2>5
<1> HIDE DEF S
<1>7. 0..n \subseteq S
  BY <1>1, <1>5, <1>6, BoundedInduction
<1>8. v[n + 1] = q[1].size + w[n]
  BY <1>1, <1>7 DEF S
<1> QED
  BY <1>1, <1>2, <1>3, <1>8 DEF r

\* The counter is the size of what is queued once there is an upstream thread.
BytesCounted == /\ upc # "none" => buffered_bytes = Bytes(chunks)
                /\ hpc \in {"precheck", "spawn"} => buffered_bytes = 0 /\ chunks = <<>>

\* No chunk, no byte.
LEMMA NoBytes == Bytes(<<>>) = 0
<1>1. <<>> \in Seq(Chunk) /\ Len(<<>>) = 0
  OBVIOUS
<1> QED
  BY <1>1, PartialSums

\* Every step keeps the counter right.
LEMMA NextBytesCounted == IInv /\ EndInv /\ BytesCounted /\ [Next]_vars => BytesCounted'
<1> SUFFICES ASSUME IInv, EndInv, BytesCounted, [Next]_vars PROVE BytesCounted'
  OBVIOUS
<1>1. chunks \in Seq(Chunk) /\ buffered_bytes \in Nat
  BY DEF IInv, TypeOK, BufferOK
<1> USE <1>1 DEF queue, flags, marks, bufferVars, controlVars, startVars, monitorVars,
        books, shared, delivery, handlerVars, reading, pushing, upstreamVars,
        notHandler, notUpstream
<1>2. CASE PopChunk
  <2>1. /\ chunks # <<>> /\ chunks' = Tail(chunks) /\ hpc \in {"wait", "drain"}
        /\ buffered_bytes' = BytesAfterPop(Head(chunks).size) /\ hpc' = "write"
        /\ upc' = upc
    BY <1>2 DEF PopChunk
  <2>2. Bytes(chunks) = Head(chunks).size + Bytes(Tail(chunks))
        /\ Bytes(Tail(chunks)) \in Nat
    BY <2>1, BytesPopped
  <2>3. Head(chunks).size \in Nat
    <3>1. Head(chunks) \in Chunk
      BY <2>1
    <3> QED
      BY <3>1 DEF Chunk
  <2>4. upc # "none" => buffered_bytes' = Bytes(chunks')
    BY <2>1, <2>2, <2>3 DEF BytesAfterPop, BytesCounted
  <2> QED
    BY <2>1, <2>4 DEF BytesCounted
<1>3. CASE PushChunk("push", "translate") \/ PushChunk("flushPush", "finish")
  <2> DEFINE chunk == [id |-> accepted + 1, size |-> u_chunk]
  <2>1. /\ chunks' = Append(chunks, chunk) /\ buffered_bytes' = buffered_bytes + u_chunk
        /\ upc \in {"push", "flushPush"} /\ hpc' = hpc
    BY <1>3 DEF PushChunk
  <2>2. chunk \in Chunk
    <3>1. u_chunk \in 1..MaxChunk /\ accepted + 1 \in 0..MaxEvents
      BY <2>1, RelayAssumption DEF IInv, TypeOK, UpstreamOK, PusherHolds
    <3> QED
      BY <3>1 DEF Chunk
  <2>3. Bytes(chunks') = Bytes(chunks) + u_chunk
    BY <2>1, <2>2, BytesPushed
  <2>4. hpc \notin {"precheck", "spawn"}
    BY <2>1 DEF IInv, Fresh
  <2> QED
    BY <2>1, <2>3, <2>4 DEF BytesCounted
<1>4. CASE HandlerStep /\ ~PopChunk
  <2>1. CASE PrecheckFails \/ SpawnFails
    <3>1. hpc \in {"precheck", "spawn"} /\ upc' = upc /\ hpc' = "answer"
      BY <2>1 DEF PrecheckFails, SpawnFails, RefuseWith
    <3> QED
      BY <3>1 DEF IInv, Fresh, BytesCounted
  <2>2. CASE UNCHANGED queue /\ (upc' = upc \/ hpc = "spawn")
             /\ (hpc' \in {"precheck", "spawn"} => hpc \in {"precheck", "spawn"})
    BY <2>2, NoBytes DEF BytesCounted
  <2>3. ret \notin {"precheck", "spawn"}
    BY DEF IInv, TypeOK, HandlerOK
  <2> QED
    BY <1>4, <2>1, <2>2, <2>3
    DEF MarkCompleted, MarkCancelled, AfterControlCancel, AfterDrained,
        HandlerStep, InstallCancelUpstream, Spawn, Started, DownstreamGone, Finish499,
        ErrorBodyComplete, Answer, CancelStreamBuffer, StreamControlCancel, StopClient,
        RegisterStreamMonitor, WriteHeaders, CutResponse, CallProvider, PollWritable,
        NotWritable, NothingBuffered, WriteChunk, WriteFails, WriteErrorEvent,
        ErrorEventFails, SinkDone, Release, FinalizeStreamMonitor, AccountStream,
        HandlerGoes
<1>5. CASE UNCHANGED <<queue, hpc>> /\ (upc # "none" <=> upc' # "none")
  BY <1>5 DEF BytesCounted
<1>6. ASSUME UpstreamStep \/ Network \/ PeerLeaves,
             ~ (PushChunk("push", "translate") \/ PushChunk("flushPush", "finish"))
      PROVE  UNCHANGED <<queue, hpc>> /\ (upc # "none" <=> upc' # "none")
  BY <1>6 DEF UpstreamStep, Network, PeerLeaves, ExchangeEnding, UrlThrows, OpenFails,
     SetCancelHandler, Dial, AdmitBody, SocketShut, ConnectEnds, ExchangeEnds,
     HeadersArrive, ReadBody, CheckControl, CheckBuffer, ReadDone, TranslateEvent,
     TranslationThrows, PushRefused, PostStreamReturns, Settle, FlushPending,
     FlushThrows, PublishFault, FinishStream, MarkCompleted, UpstreamGoes
<1>7. CASE UNCHANGED vars
  BY <1>7 DEF vars, BytesCounted
<1> QED
  BY <1>2, <1>3, <1>4, <1>5, <1>6, <1>7 DEF Next

\* The chunks are written in order, none twice and none left out, and the byte count
\* that push_stream_chunk waits on is exactly what is queued, for any buffer limit,
\* chunk sizes and number of events: the clamp of sse_provider hides no drift.
THEOREM RelayOrderAlways == Spec => []RelayOrder
<1>1. Init => BytesCounted
  BY NoBytes DEF Init, BytesCounted
<1>2. EndInv /\ BytesCounted => RelayOrder
  BY DEF EndInv, CutIsOver, ChunksInOrder, BytesCounted, RelayOrder
<1> QED
  BY EndInvariance, NextBytesCounted, <1>1, <1>2, PTL DEF Spec
================================================================================
