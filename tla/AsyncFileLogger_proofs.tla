----------------------- MODULE AsyncFileLogger_proofs -----------------------
(***************************************************************************)
(* The logger keeps the log whole for every size of the ring, every number *)
(* of statements, and every batch limit: what is in the file is an initial *)
(* part of what was accepted, every drop is counted once, and a logger     *)
(* that is destroyed has left nothing behind.                              *)
(*                                                                         *)
(* The inductive invariant LoggerInv adds to these what the ring promises  *)
(* (RingInv of SpscRing_proofs) and how far the worker is when the stop    *)
(* request has been made, seen and acted upon (StopInOrder).               *)
(***************************************************************************)
EXTENDS AsyncFileLogger, SpscRing_proofs

(* A thread is inside the ring exactly while it is in the call, and the    *)
(* worker pops only below its limit.                                       *)
ThreadsInStep ==
  /\ push_pc # "idle" <=> main_pc = "pushing"
  /\ pop_pc # "idle" <=> worker_pc = "popping"
  /\ worker_pc = "popping" => processed < BatchLimit

(* Nothing is logged once the stop request is made; the worker that has    *)
(* seen it tests a ring it knows in full, and past that test the ring is   *)
(* empty for good.                                                         *)
StopInOrder ==
  /\ stop_requested <=> main_pc \in {"joining", "destroyed"}
  /\ stop_visible => stop_requested
  /\ worker_pc = "test_empty" => stop_visible /\ seen_head = head
  /\ worker_pc \in {"end", "last_flush", "exited"} => stop_visible /\ head = tail
  /\ worker_pc \in {"last_flush", "exited"} => dropped_records = 0
  /\ worker_pc = "exited" => flushed = OnDisk(written, reported)
  /\ main_pc = "destroyed" => worker_pc = "exited"

LoggerInv ==
  /\ RingInv
  /\ LoggerTypeOK
  /\ refused <= calls
  /\ ThreadsInStep
  /\ StopInOrder
  /\ RecordsInOrder
  /\ DropsCountedOnce


-----------------------------------------------------------------------------
(* The ring inside the logger *)

(* The one step that is not a step of the ring: to see the stop request is *)
(* to see the head as well.                                                *)
SeesHead ==
  /\ pop_pc = "idle"
  /\ seen_head' = head
  /\ UNCHANGED <<storage, tail, pop_pc, record, popped, producer_vars>>

LEMMA CallsInRecords ==
  ASSUME NEW level \in Levels, calls \in 0 .. MaxCalls, calls < MaxCalls
  PROVE  Record(level, calls + 1) \in Records
<1>1. calls + 1 \in 1 .. MaxCalls
  BY LoggerAssumption
<1> QED
  BY <1>1, LoggerAssumption DEF AllRecords

LEMMA RingMoves ==
  ASSUME LoggerInv, Next
  PROVE  [RingNext]_ring_vars \/ SeesHead
<1>1. ASSUME NEW level \in Levels, LogFiltered(level)
      PROVE  [RingNext]_ring_vars \/ SeesHead
  BY <1>1 DEF LogFiltered
<1>2. ASSUME NEW level \in Levels, LogStarts(level)
      PROVE  [RingNext]_ring_vars \/ SeesHead
  <2>1. Record(level, calls + 1) \in Records
    BY <1>2, CallsInRecords DEF LogStarts, Call, LoggerInv, LoggerTypeOK
  <2> QED
    BY <1>2, <2>1 DEF LogStarts, RingNext
<1>3. ASSUME NEW level \in Levels, LogRefused(level)
      PROVE  [RingNext]_ring_vars \/ SeesHead
  BY <1>3 DEF LogRefused, RingNext
<1>4. CASE CopyRecord
  BY <1>4 DEF CopyRecord, RingNext
<1>5. CASE PublishRecord
  BY <1>5 DEF PublishRecord, RingNext
<1>6. CASE CountDropped
  BY <1>6 DEF CountDropped
<1>7. CASE Join
  BY <1>7 DEF Join
<1>8. CASE RequestStop
  BY <1>8 DEF RequestStop
<1>9. CASE Terminate
  BY <1>9 DEF Terminate
<1>10. CASE TestStop
  <2>1. pop_pc = "idle"
    BY <1>10 DEF TestStop, WorkerGoes, LoggerInv, ThreadsInStep
  <2>2. CASE stop_visible
    BY <1>10, <2>1, <2>2 DEF TestStop, SeesHead
  <2>3. CASE ~stop_visible
    BY <1>10, <2>3 DEF TestStop, ring_vars, consumer_vars, producer_vars
  <2> QED
    BY <2>2, <2>3
<1>11. CASE TestEmpty
  BY <1>11 DEF TestEmpty
<1>12. CASE StartPop
  BY <1>12 DEF StartPop, RingNext
<1>13. CASE CopyOut
  BY <1>13 DEF CopyOut, RingNext
<1>14. CASE WriteRecord
  BY <1>14 DEF WriteRecord, RingNext
<1>15. CASE FindNothing
  BY <1>15 DEF FindNothing, RingNext
<1>16. CASE BatchEnds
  BY <1>16 DEF BatchEnds
<1>17. CASE Exchange
  BY <1>17 DEF Exchange, ReportDropped
<1>18. CASE FlushIfDue
  BY <1>18 DEF FlushIfDue
<1>19. CASE LastExchange
  BY <1>19 DEF LastExchange, ReportDropped
<1>20. CASE LastFlush
  BY <1>20 DEF LastFlush
<1>21. CASE StoreArrives(HeadArrives)
  BY <1>21 DEF StoreArrives, RingNext
<1>22. CASE StoreArrives(TailArrives)
  BY <1>22 DEF StoreArrives, RingNext
<1>23. CASE StopArrives
  BY <1>23 DEF StopArrives
<1>24. CASE SecondPasses
  BY <1>24 DEF SecondPasses
<1> QED
  BY <1>1, <1>2, <1>3, <1>4, <1>5, <1>6, <1>7, <1>8, <1>9, <1>10, <1>11,
     <1>12, <1>13, <1>14, <1>15, <1>16, <1>17, <1>18, <1>19, <1>20, <1>21,
     <1>22, <1>23, <1>24 DEF Next, Main, Worker

LEMMA SeesHeadKeepsRing ==
  ASSUME RingInv, SeesHead
  PROVE  RingInv'
<1> USE DEF SeesHead, producer_vars
<1>0. /\ head \in Indices /\ tail \in Indices
      /\ seen_head \in Indices /\ seen_tail \in Indices
  BY IndexFacts DEF RingInv
<1>1. RingTypeOK'
  BY <1>0 DEF RingInv, RingTypeOK
<1>2. IndicesInOrder'
  <2>1. /\ Minus(tail, seen_tail) \in Nat
        /\ Minus(seen_head, seen_tail) \in Nat
        /\ Minus(head, seen_tail) \in Nat
    BY <1>0, Distances, Limits
  <2> QED
    BY <2>1 DEF RingInv, IndicesInOrder, Full, Empty, Minus
<1>3. CopyDone'
  BY DEF RingInv, CopyDone, Cell
<1> QED
  BY <1>1, <1>2, <1>3 DEF RingInv

LEMMA RingKept ==
  ASSUME LoggerInv, Next
  PROVE  RingInv'
BY RingMoves, InvStep, SeesHeadKeepsRing DEF LoggerInv

-----------------------------------------------------------------------------
(* Threads, stop request and drops *)

LEMMA ThreadsKept ==
  ASSUME LoggerInv, Next
  PROVE  ThreadsInStep'
<1> USE DEF LoggerInv, ThreadsInStep, ring_vars, producer_vars,
            consumer_vars
<1>1. ASSUME NEW level \in Levels, LogFiltered(level)
      PROVE  ThreadsInStep'
  BY <1>1 DEF LogFiltered, Call, MainGoes
<1>2. ASSUME NEW level \in Levels, LogStarts(level)
      PROVE  ThreadsInStep'
  BY <1>2 DEF LogStarts, Call, MainGoes, PushBegins
<1>3. ASSUME NEW level \in Levels, LogRefused(level)
      PROVE  ThreadsInStep'
  BY <1>3 DEF LogRefused, Call, MainGoes, PushRefused
<1>4. CASE CopyRecord
  BY <1>4 DEF CopyRecord, MainGoes, PushCopies
<1>5. CASE PublishRecord
  BY <1>5 DEF PublishRecord, MainGoes, PushPublishes
<1>6. CASE CountDropped
  BY <1>6 DEF CountDropped, MainGoes
<1>7. CASE Join
  BY <1>7 DEF Join, MainGoes, Flush
<1>8. CASE RequestStop
  BY <1>8 DEF RequestStop, MainGoes
<1>9. CASE Terminate
  BY <1>9 DEF Terminate, MainGoes
<1>10. CASE TestStop
  BY <1>10 DEF TestStop, WorkerGoes
<1>11. CASE TestEmpty
  BY <1>11 DEF TestEmpty, WorkerGoes
<1>12. CASE StartPop
  BY <1>12 DEF StartPop, WorkerGoes, PopBegins
<1>13. CASE CopyOut
  BY <1>13 DEF CopyOut, WorkerGoes, PopCopies
<1>14. CASE WriteRecord
  BY <1>14 DEF WriteRecord, WorkerGoes, PopReleases, Write
<1>15. CASE FindNothing
  BY <1>15 DEF FindNothing, WorkerGoes, PopFindsNothing
<1>16. CASE BatchEnds
  BY <1>16 DEF BatchEnds, WorkerGoes
<1>17. CASE Exchange
  BY <1>17 DEF Exchange, WorkerGoes, ReportDropped, Write
<1>18. CASE FlushIfDue
  BY <1>18 DEF FlushIfDue, WorkerGoes, Flush
<1>19. CASE LastExchange
  BY <1>19 DEF LastExchange, WorkerGoes, ReportDropped, Write
<1>20. CASE LastFlush
  BY <1>20 DEF LastFlush, WorkerGoes, Flush
<1>21. CASE StoreArrives(HeadArrives)
  BY <1>21 DEF StoreArrives, HeadArrives
<1>22. CASE StoreArrives(TailArrives)
  BY <1>22 DEF StoreArrives, TailArrives
<1>23. CASE StopArrives
  BY <1>23 DEF StopArrives
<1>24. CASE SecondPasses
  BY <1>24 DEF SecondPasses
<1> QED
  BY <1>1, <1>2, <1>3, <1>4, <1>5, <1>6, <1>7, <1>8, <1>9, <1>10, <1>11,
     <1>12, <1>13, <1>14, <1>15, <1>16, <1>17, <1>18, <1>19, <1>20, <1>21,
     <1>22, <1>23, <1>24 DEF Next, Main, Worker

LEMMA StopKept ==
  ASSUME LoggerInv, Next
  PROVE  StopInOrder'
<1> USE DEF LoggerInv, StopInOrder, ThreadsInStep, ring_vars, producer_vars,
            consumer_vars, signals, file, history
<1>1. ASSUME NEW level \in Levels, LogFiltered(level)
      PROVE  StopInOrder'
  BY <1>1 DEF LogFiltered, Call, MainGoes
<1>2. ASSUME NEW level \in Levels, LogStarts(level)
      PROVE  StopInOrder'
  BY <1>2 DEF LogStarts, Call, MainGoes, PushBegins
<1>3. ASSUME NEW level \in Levels, LogRefused(level)
      PROVE  StopInOrder'
  BY <1>3 DEF LogRefused, Call, MainGoes, PushRefused
<1>4. CASE CopyRecord
  BY <1>4 DEF CopyRecord, MainGoes, PushCopies
<1>5. CASE PublishRecord
  BY <1>5 DEF PublishRecord, MainGoes, PushPublishes
<1>6. CASE CountDropped
  BY <1>6 DEF CountDropped, MainGoes
<1>7. CASE Join
  BY <1>7 DEF Join, MainGoes, Flush
<1>8. CASE RequestStop
  BY <1>8 DEF RequestStop, MainGoes
<1>9. CASE Terminate
  BY <1>9 DEF Terminate, MainGoes
<1>10. CASE TestStop
  BY <1>10 DEF TestStop, WorkerGoes
<1>11. CASE TestEmpty
  <2>1. CASE Empty
    BY <1>11, <2>1 DEF TestEmpty, WorkerGoes, Empty
  <2>2. CASE ~Empty
    BY <1>11, <2>2 DEF TestEmpty, WorkerGoes
  <2> QED
    BY <2>1, <2>2
<1>12. CASE StartPop
  BY <1>12 DEF StartPop, WorkerGoes, PopBegins
<1>13. CASE CopyOut
  BY <1>13 DEF CopyOut, WorkerGoes, PopCopies
<1>14. CASE WriteRecord
  BY <1>14 DEF WriteRecord, WorkerGoes, PopReleases, Write
<1>15. CASE FindNothing
  BY <1>15 DEF FindNothing, WorkerGoes, PopFindsNothing
<1>16. CASE BatchEnds
  BY <1>16 DEF BatchEnds, WorkerGoes
<1>17. CASE Exchange
  BY <1>17 DEF Exchange, WorkerGoes, ReportDropped, Write
<1>18. CASE FlushIfDue
  BY <1>18 DEF FlushIfDue, WorkerGoes, Flush
<1>19. CASE LastExchange
  BY <1>19 DEF LastExchange, WorkerGoes, ReportDropped, Write
<1>20. CASE LastFlush
  BY <1>20 DEF LastFlush, WorkerGoes, Flush
<1>21. CASE StoreArrives(HeadArrives)
  BY <1>21 DEF StoreArrives, HeadArrives
<1>22. CASE StoreArrives(TailArrives)
  BY <1>22 DEF StoreArrives, TailArrives
<1>23. CASE StopArrives
  BY <1>23 DEF StopArrives
<1>24. CASE SecondPasses
  BY <1>24 DEF SecondPasses
<1> QED
  BY <1>1, <1>2, <1>3, <1>4, <1>5, <1>6, <1>7, <1>8, <1>9, <1>10, <1>11,
     <1>12, <1>13, <1>14, <1>15, <1>16, <1>17, <1>18, <1>19, <1>20, <1>21,
     <1>22, <1>23, <1>24 DEF Next, Main, Worker

LEMMA DropsKept ==
  ASSUME LoggerInv, Next
  PROVE  DropsCountedOnce' /\ refused' <= calls'
<1> USE DEF LoggerInv, DropsCountedOnce, LoggerTypeOK, ring_vars,
            producer_vars, consumer_vars, signals, file, history
<1>1. ASSUME NEW level \in Levels, LogFiltered(level)
      PROVE  DropsCountedOnce' /\ refused' <= calls'
  BY <1>1 DEF LogFiltered, Call, MainGoes
<1>2. ASSUME NEW level \in Levels, LogStarts(level)
      PROVE  DropsCountedOnce' /\ refused' <= calls'
  BY <1>2 DEF LogStarts, Call, MainGoes, PushBegins
<1>3. ASSUME NEW level \in Levels, LogRefused(level)
      PROVE  DropsCountedOnce' /\ refused' <= calls'
  BY <1>3 DEF LogRefused, Call, MainGoes, PushRefused
<1>4. CASE CopyRecord
  BY <1>4 DEF CopyRecord, MainGoes, PushCopies
<1>5. CASE PublishRecord
  BY <1>5 DEF PublishRecord, MainGoes, PushPublishes
<1>6. CASE CountDropped
  BY <1>6 DEF CountDropped, MainGoes
<1>7. CASE Join
  BY <1>7 DEF Join, MainGoes, Flush
<1>8. CASE RequestStop
  BY <1>8 DEF RequestStop, MainGoes
<1>9. CASE Terminate
  BY <1>9 DEF Terminate, MainGoes
<1>10. CASE TestStop
  BY <1>10 DEF TestStop, WorkerGoes
<1>11. CASE TestEmpty
  BY <1>11 DEF TestEmpty, WorkerGoes
<1>12. CASE StartPop
  BY <1>12 DEF StartPop, WorkerGoes, PopBegins
<1>13. CASE CopyOut
  BY <1>13 DEF CopyOut, WorkerGoes, PopCopies
<1>14. CASE WriteRecord
  BY <1>14 DEF WriteRecord, WorkerGoes, PopReleases, Write
<1>15. CASE FindNothing
  BY <1>15 DEF FindNothing, WorkerGoes, PopFindsNothing
<1>16. CASE BatchEnds
  BY <1>16 DEF BatchEnds, WorkerGoes
<1>17. CASE Exchange
  BY <1>17 DEF Exchange, WorkerGoes, ReportDropped, Write
<1>18. CASE FlushIfDue
  BY <1>18 DEF FlushIfDue, WorkerGoes, Flush
<1>19. CASE LastExchange
  BY <1>19 DEF LastExchange, WorkerGoes, ReportDropped, Write
<1>20. CASE LastFlush
  BY <1>20 DEF LastFlush, WorkerGoes, Flush
<1>21. CASE StoreArrives(HeadArrives)
  BY <1>21 DEF StoreArrives, HeadArrives
<1>22. CASE StoreArrives(TailArrives)
  BY <1>22 DEF StoreArrives, TailArrives
<1>23. CASE StopArrives
  BY <1>23 DEF StopArrives
<1>24. CASE SecondPasses
  BY <1>24 DEF SecondPasses
<1> QED
  BY <1>1, <1>2, <1>3, <1>4, <1>5, <1>6, <1>7, <1>8, <1>9, <1>10, <1>11,
     <1>12, <1>13, <1>14, <1>15, <1>16, <1>17, <1>18, <1>19, <1>20, <1>21,
     <1>22, <1>23, <1>24 DEF Next, Main, Worker

-----------------------------------------------------------------------------
(* The records *)

LEMMA SequenceTypes ==
  ASSUME LoggerInv
  PROVE  /\ written \in Seq(Records \cup {Blank})
         /\ TakenOut \in Seq(Records \cup {Blank})
         /\ InFlight \in Seq(Records \cup {Blank})
<1>1. written \in Seq(Records)
  BY DEF LoggerInv, LoggerTypeOK
<1>2. written \in Seq(Records \cup {Blank})
  BY <1>1, SeqMonotonic
<1>3. record \in Records \cup {Blank}
  BY DEF LoggerInv, RingInv, RingTypeOK
<1>4. <<record>> \in Seq(Records \cup {Blank}) /\ <<>> \in Seq(Records \cup {Blank})
  BY <1>3
<1>5. InFlight \in Seq(Records \cup {Blank})
  BY InFlightIsSeq DEF LoggerInv
<1> QED
  BY <1>2, <1>4, <1>5 DEF TakenOut

LEMMA SameRecords ==
  ASSUME storage' = storage, head' = head, tail' = tail, record' = record,
         pop_pc' = "release" <=> pop_pc = "release"
  PROVE  InFlight' = InFlight /\ TakenOut' = TakenOut
<1>1. First' = First
  BY DEF First, Successor
<1> QED
  BY <1>1, SameInFlight DEF TakenOut

LEMMA PublishKeepsRecords ==
  ASSUME LoggerInv, RingInv', PublishRecord
  PROVE  RecordsInOrder'
<1>1. pushing \in Records /\ InFlight' = Append(InFlight, pushing)
  BY PutStep DEF PublishRecord, LoggerInv, Fifo!Put
<1>2. TakenOut' = TakenOut /\ written' = written
  BY DEF PublishRecord, PushPublishes, consumer_vars, TakenOut, file
<1>3. accepted' = Append(accepted, pushing)
  BY DEF PublishRecord
<1>4. accepted = (written \o TakenOut) \o InFlight
  BY DEF LoggerInv, RecordsInOrder
<1> DEFINE S == Records \cup {Blank}
           before == written \o TakenOut
<1>5. before \in Seq(S) /\ InFlight \in Seq(S) /\ pushing \in S
  BY SequenceTypes, <1>1, ConcatProperties
<1>6. before \o InFlight \in Seq(S) /\ <<pushing>> \in Seq(S)
  BY <1>5, ConcatProperties
<1> HIDE DEF S, before
<1>7. Append(before \o InFlight, pushing) = (before \o InFlight) \o <<pushing>>
  BY <1>5, <1>6, AppendIsConcat
<1>8. (before \o InFlight) \o <<pushing>> = before \o (InFlight \o <<pushing>>)
  BY <1>5, <1>6, ConcatAssociative
<1>9. InFlight \o <<pushing>> = Append(InFlight, pushing)
  BY <1>5, AppendIsConcat
<1>10. Append(accepted, pushing) = before \o Append(InFlight, pushing)
  BY <1>4, <1>7, <1>8, <1>9, Zenon DEF before
<1> QED
  BY <1>1, <1>2, <1>3, <1>10, Zenon DEF RecordsInOrder, before

LEMMA HeadTailConcat ==
  ASSUME NEW S, NEW s \in Seq(S), s # <<>>
  PROVE  <<Head(s)>> \o Tail(s) = s
<1> DEFINE first == <<Head(s)>>
           rest == Tail(s)
<1>1. first \in Seq(S) /\ rest \in Seq(S)
  BY HeadTailProperties
<1>2. /\ Len(first) = 1 /\ first[1] = s[1]
      /\ Len(s) \in Nat /\ Len(rest) = Len(s) - 1
      /\ \A i \in 1 .. Len(rest) : rest[i] = s[i + 1]
  BY HeadTailProperties, LenProperties
<1> HIDE DEF first, rest
<1>3. /\ first \o rest \in Seq(S)
      /\ Len(first \o rest) = Len(first) + Len(rest)
      /\ \A i \in 1 .. Len(first) + Len(rest) :
           (first \o rest)[i] =
             IF i <= Len(first) THEN first[i] ELSE rest[i - Len(first)]
  BY <1>1, ConcatProperties
<1>4. ASSUME NEW i \in 1 .. Len(s)
      PROVE  (first \o rest)[i] = s[i]
  <2>1. CASE i = 1
    BY <1>2, <1>3, <2>1
  <2>2. CASE i # 1
    <3>1. i - 1 \in 1 .. Len(rest) /\ i - 1 + 1 = i
      BY <1>2, <2>2
    <3>2. rest[i - 1] = s[i]
      BY <1>2, <3>1
    <3> QED
      BY <1>2, <1>3, <2>2, <3>2
  <2> QED
    BY <2>1, <2>2
<1>5. Len(first \o rest) = Len(s)
  BY <1>2, <1>3
<1>6. first \o rest = s
  BY <1>3, <1>4, <1>5, SeqEqual
<1> QED
  BY <1>6 DEF first, rest

LEMMA CopyOutKeepsRecords ==
  ASSUME LoggerInv, RingInv', CopyOut
  PROVE  RecordsInOrder'
<1>1. Fifo!Take
  BY TakeStep DEF CopyOut, LoggerInv
<1>2. /\ pop_pc # "release" /\ pop_pc' = "release"
      /\ written' = written /\ accepted' = accepted
  BY DEF CopyOut, PopCopies, file, history
<1>3. TakenOut = <<>> /\ TakenOut' = <<Head(InFlight)>> /\ InFlight' = Tail(InFlight)
  BY <1>1, <1>2 DEF TakenOut, Fifo!Take
<1>4. InFlight # <<>>
  BY <1>1, InFlightIsSeq, MappedDistances DEF Fifo!Take, LoggerInv
<1> DEFINE S == Records \cup {Blank}
           first == <<Head(InFlight)>>
<1>5. InFlight \in Seq(S) /\ written \in Seq(S)
  BY SequenceTypes
<1>6. first \in Seq(S) /\ Tail(InFlight) \in Seq(S)
  BY <1>4, <1>5, HeadTailProperties
<1>7. first \o Tail(InFlight) = InFlight
  BY <1>4, <1>5, HeadTailConcat
<1> HIDE DEF S, first
<1>8. written \o <<>> = written
  BY <1>5, ConcatEmptySeq
<1>9. (written \o first) \o Tail(InFlight) = written \o (first \o Tail(InFlight))
  BY <1>5, <1>6, ConcatAssociative
<1>10. accepted = (written \o <<>>) \o InFlight
  BY <1>3 DEF LoggerInv, RecordsInOrder
<1>11. accepted = (written \o first) \o Tail(InFlight)
  BY <1>7, <1>8, <1>9, <1>10, Zenon
<1> QED
  BY <1>2, <1>3, <1>11, Zenon DEF RecordsInOrder, first

LEMMA WriteKeepsRecords ==
  ASSUME LoggerInv, WriteRecord
  PROVE  RecordsInOrder' /\ written' \in Seq(Records)
<1>1. /\ pop_pc = "release" /\ pop_pc' = "idle"
      /\ tail' = Successor(tail)
      /\ storage' = storage /\ head' = head
      /\ written' = Append(written, record) /\ accepted' = accepted
  BY DEF WriteRecord, PopReleases, Write, history, producer_vars
<1>2. TakenOut = <<record>> /\ TakenOut' = <<>>
  BY <1>1 DEF TakenOut
<1>3. InFlight' = InFlight
  <2>1. First' = First
    BY <1>1 DEF First
  <2> QED
    BY <1>1, <2>1, SameInFlight
<1> DEFINE S == Records \cup {Blank}
<1>4. written \in Seq(S) /\ InFlight \in Seq(S) /\ record \in S
  BY SequenceTypes DEF LoggerInv, RingInv, RingTypeOK
<1> HIDE DEF S
<1>5. Append(written, record) = written \o <<record>>
  BY <1>4, AppendIsConcat
<1>6. Append(written, record) \in Seq(S)
  BY <1>4, AppendProperties
<1>7. Append(written, record) \o <<>> = Append(written, record)
  BY <1>6, ConcatEmptySeq
<1>8. accepted = (written \o <<record>>) \o InFlight
  BY <1>2 DEF LoggerInv, RecordsInOrder
<1>9. accepted = (Append(written, record) \o <<>>) \o InFlight
  BY <1>5, <1>7, <1>8, Zenon
<1>10. RecordsInOrder'
  BY <1>1, <1>2, <1>3, <1>9, Zenon DEF RecordsInOrder
<1>11. record \in Records
  <2>1. accepted \in Seq(Records) /\ written \in Seq(Records)
    BY DEF LoggerInv, LoggerTypeOK
  <2>2. accepted = Append(written, record) \o InFlight
    BY <1>5, <1>8, Zenon
  <2>3. /\ Len(accepted) = Len(Append(written, record)) + Len(InFlight)
        /\ \A i \in 1 .. Len(Append(written, record)) + Len(InFlight) :
             accepted[i] = IF i <= Len(Append(written, record))
                           THEN Append(written, record)[i]
                           ELSE InFlight[i - Len(Append(written, record))]
    BY <1>4, <1>6, <2>2, ConcatProperties
  <2>4. /\ Len(Append(written, record)) = Len(written) + 1
        /\ Append(written, record)[Len(written) + 1] = record
        /\ Len(written) \in Nat /\ Len(InFlight) \in Nat
    BY <1>4, AppendProperties, LenProperties
  <2>5. /\ Len(written) + 1 \in 1 .. Len(accepted)
        /\ accepted[Len(written) + 1] = record
    BY <2>3, <2>4
  <2> QED
    BY <2>1, <2>5, ElementOfSeq
<1> QED
  BY <1>1, <1>10, <1>11, AppendProperties DEF LoggerInv, LoggerTypeOK

LEMMA RecordsKept ==
  ASSUME LoggerInv, Next
  PROVE  RecordsInOrder'
<1>1. ASSUME NEW level \in Levels, LogFiltered(level)
      PROVE  RecordsInOrder'
  <2>1. InFlight' = InFlight /\ TakenOut' = TakenOut
    BY <1>1, SameRecords
       DEF LogFiltered, Call, MainGoes, ring_vars, producer_vars,
           consumer_vars
  <2> QED
    BY <1>1, <2>1
       DEF LogFiltered, Call, MainGoes, RecordsInOrder, LoggerInv, file,
           history
<1>2. ASSUME NEW level \in Levels, LogStarts(level)
      PROVE  RecordsInOrder'
  <2>1. InFlight' = InFlight /\ TakenOut' = TakenOut
    BY <1>2, SameRecords
       DEF LogStarts, Call, MainGoes, PushBegins, ring_vars, producer_vars,
           consumer_vars
  <2> QED
    BY <1>2, <2>1
       DEF LogStarts, Call, MainGoes, PushBegins, RecordsInOrder, LoggerInv,
           file, history
<1>3. ASSUME NEW level \in Levels, LogRefused(level)
      PROVE  RecordsInOrder'
  <2>1. InFlight' = InFlight /\ TakenOut' = TakenOut
    BY <1>3, SameRecords
       DEF LogRefused, Call, MainGoes, PushRefused, ring_vars,
           producer_vars, consumer_vars
  <2> QED
    BY <1>3, <2>1
       DEF LogRefused, Call, MainGoes, PushRefused, RecordsInOrder,
           LoggerInv, file, history
<1>4. CASE CopyRecord
  <2>1. UNCHANGED Fifo!vars
    BY <1>4, RingKept, CopyStutters DEF CopyRecord, LoggerInv
  <2>2. InFlight' = InFlight /\ TakenOut' = TakenOut
    BY <1>4, <2>1 DEF Fifo!vars, TakenOut, CopyRecord, PushCopies, consumer_vars
  <2> QED
    BY <1>4, <2>2 DEF CopyRecord, RecordsInOrder, LoggerInv, file, history
<1>5. CASE PublishRecord
  BY <1>5, RingKept, PublishKeepsRecords
<1>6. CASE CountDropped
  <2>1. InFlight' = InFlight /\ TakenOut' = TakenOut
    BY <1>6, SameRecords
       DEF CountDropped, MainGoes, ring_vars, producer_vars, consumer_vars
  <2> QED
    BY <1>6, <2>1
       DEF CountDropped, MainGoes, RecordsInOrder, LoggerInv, file, history
<1>7. CASE Join
  <2>1. InFlight' = InFlight /\ TakenOut' = TakenOut
    BY <1>7, SameRecords
       DEF Join, MainGoes, Flush, ring_vars, producer_vars, consumer_vars
  <2> QED
    BY <1>7, <2>1
       DEF Join, MainGoes, Flush, RecordsInOrder, LoggerInv, file, history
<1>8. CASE RequestStop
  <2>1. InFlight' = InFlight /\ TakenOut' = TakenOut
    BY <1>8, SameRecords
       DEF RequestStop, MainGoes, ring_vars, producer_vars, consumer_vars
  <2> QED
    BY <1>8, <2>1
       DEF RequestStop, MainGoes, RecordsInOrder, LoggerInv, file, history
<1>9. CASE Terminate
  <2>1. InFlight' = InFlight /\ TakenOut' = TakenOut
    BY <1>9, SameRecords
       DEF Terminate, MainGoes, ring_vars, producer_vars, consumer_vars
  <2> QED
    BY <1>9, <2>1
       DEF Terminate, MainGoes, RecordsInOrder, LoggerInv, file, history
<1>10. CASE TestStop
  <2>1. InFlight' = InFlight /\ TakenOut' = TakenOut
    BY <1>10, SameRecords
       DEF TestStop, WorkerGoes, ring_vars, producer_vars, consumer_vars
  <2> QED
    BY <1>10, <2>1
       DEF TestStop, WorkerGoes, RecordsInOrder, LoggerInv, file, history
<1>11. CASE TestEmpty
  <2>1. InFlight' = InFlight /\ TakenOut' = TakenOut
    BY <1>11, SameRecords
       DEF TestEmpty, WorkerGoes, ring_vars, producer_vars, consumer_vars
  <2> QED
    BY <1>11, <2>1
       DEF TestEmpty, WorkerGoes, RecordsInOrder, LoggerInv, file, history
<1>12. CASE StartPop
  <2>1. InFlight' = InFlight /\ TakenOut' = TakenOut
    BY <1>12, SameRecords
       DEF StartPop, WorkerGoes, PopBegins, ring_vars, producer_vars,
           consumer_vars
  <2> QED
    BY <1>12, <2>1
       DEF StartPop, WorkerGoes, PopBegins, RecordsInOrder, LoggerInv, file,
           history
<1>13. CASE CopyOut
  BY <1>13, RingKept, CopyOutKeepsRecords
<1>14. CASE WriteRecord
  BY <1>14, WriteKeepsRecords
<1>15. CASE FindNothing
  <2>1. InFlight' = InFlight /\ TakenOut' = TakenOut
    BY <1>15, SameRecords
       DEF FindNothing, WorkerGoes, PopFindsNothing, ring_vars,
           producer_vars, consumer_vars
  <2> QED
    BY <1>15, <2>1
       DEF FindNothing, WorkerGoes, PopFindsNothing, RecordsInOrder,
           LoggerInv, file, history
<1>16. CASE BatchEnds
  <2>1. InFlight' = InFlight /\ TakenOut' = TakenOut
    BY <1>16, SameRecords
       DEF BatchEnds, WorkerGoes, ring_vars, producer_vars, consumer_vars
  <2> QED
    BY <1>16, <2>1
       DEF BatchEnds, WorkerGoes, RecordsInOrder, LoggerInv, file, history
<1>17. CASE Exchange
  <2>1. InFlight' = InFlight /\ TakenOut' = TakenOut
    BY <1>17, SameRecords
       DEF Exchange, WorkerGoes, ReportDropped, Write, ring_vars,
           producer_vars, consumer_vars
  <2> QED
    BY <1>17, <2>1
       DEF Exchange, WorkerGoes, ReportDropped, Write, RecordsInOrder,
           LoggerInv, file, history
<1>18. CASE FlushIfDue
  <2>1. InFlight' = InFlight /\ TakenOut' = TakenOut
    BY <1>18, SameRecords
       DEF FlushIfDue, WorkerGoes, Flush, ring_vars, producer_vars,
           consumer_vars
  <2> QED
    BY <1>18, <2>1
       DEF FlushIfDue, WorkerGoes, Flush, RecordsInOrder, LoggerInv, file,
           history
<1>19. CASE LastExchange
  <2>1. InFlight' = InFlight /\ TakenOut' = TakenOut
    BY <1>19, SameRecords
       DEF LastExchange, WorkerGoes, ReportDropped, Write, ring_vars,
           producer_vars, consumer_vars
  <2> QED
    BY <1>19, <2>1
       DEF LastExchange, WorkerGoes, ReportDropped, Write, RecordsInOrder,
           LoggerInv, file, history
<1>20. CASE LastFlush
  <2>1. InFlight' = InFlight /\ TakenOut' = TakenOut
    BY <1>20, SameRecords
       DEF LastFlush, WorkerGoes, Flush, ring_vars, producer_vars,
           consumer_vars
  <2> QED
    BY <1>20, <2>1
       DEF LastFlush, WorkerGoes, Flush, RecordsInOrder, LoggerInv, file,
           history
<1>21. CASE StoreArrives(HeadArrives)
  <2>1. InFlight' = InFlight /\ TakenOut' = TakenOut
    BY <1>21, SameRecords
       DEF StoreArrives, HeadArrives, ring_vars, producer_vars,
           consumer_vars
  <2> QED
    BY <1>21, <2>1
       DEF StoreArrives, HeadArrives, RecordsInOrder, LoggerInv, file,
           history
<1>22. CASE StoreArrives(TailArrives)
  <2>1. InFlight' = InFlight /\ TakenOut' = TakenOut
    BY <1>22, SameRecords
       DEF StoreArrives, TailArrives, ring_vars, producer_vars,
           consumer_vars
  <2> QED
    BY <1>22, <2>1
       DEF StoreArrives, TailArrives, RecordsInOrder, LoggerInv, file,
           history
<1>23. CASE StopArrives
  <2>1. InFlight' = InFlight /\ TakenOut' = TakenOut
    BY <1>23, SameRecords DEF StopArrives, ring_vars, producer_vars, consumer_vars
  <2> QED
    BY <1>23, <2>1 DEF StopArrives, RecordsInOrder, LoggerInv, file, history
<1>24. CASE SecondPasses
  <2>1. InFlight' = InFlight /\ TakenOut' = TakenOut
    BY <1>24, SameRecords
       DEF SecondPasses, ring_vars, producer_vars, consumer_vars
  <2> QED
    BY <1>24, <2>1 DEF SecondPasses, RecordsInOrder, LoggerInv, file, history
<1> QED
  BY <1>1, <1>2, <1>3, <1>4, <1>5, <1>6, <1>7, <1>8, <1>9, <1>10, <1>11,
     <1>12, <1>13, <1>14, <1>15, <1>16, <1>17, <1>18, <1>19, <1>20, <1>21,
     <1>22, <1>23, <1>24 DEF Next, Main, Worker

-----------------------------------------------------------------------------
(* Types *)

LEMMA DropsBounded ==
  ASSUME LoggerTypeOK, DropsCountedOnce
  PROVE  /\ reported \in 0 .. MaxCalls
         /\ reported + dropped_records \in 0 .. MaxCalls
         /\ main_pc = "dropping" => dropped_records + 1 \in 0 .. MaxCalls
<1>1. /\ dropped_records \in Nat /\ reported \in Nat /\ refused \in Nat
      /\ MaxCalls \in Nat /\ refused <= MaxCalls /\ reported <= MaxCalls
  BY LoggerAssumption DEF LoggerTypeOK
<1>2. reported + dropped_records <= refused
  BY <1>1 DEF DropsCountedOnce
<1>3. main_pc = "dropping" => reported + dropped_records + 1 = refused
  BY <1>1 DEF DropsCountedOnce
<1> QED
  BY <1>1, <1>2, <1>3

LEMMA TypesKept ==
  ASSUME LoggerInv, Next
  PROVE  LoggerTypeOK'
<1> USE DEF LoggerInv, LoggerTypeOK, ring_vars, producer_vars,
            consumer_vars, signals, file, history
<1>ring. RingTypeOK'
  BY RingKept DEF RingInv
<1>sizes. /\ Len(written) \in Nat /\ MaxCalls \in Nat
      /\ OnDisk(written, reported) \in [records : 0 .. Len(written), drops : 0 .. reported]
  BY LenProperties, LoggerAssumption DEF OnDisk
<1>drops. /\ reported \in 0 .. MaxCalls /\ reported + dropped_records \in 0 .. MaxCalls
          /\ main_pc = "dropping" => dropped_records + 1 \in 0 .. MaxCalls
  BY DropsBounded
<1>1. ASSUME NEW level \in Levels, LogFiltered(level)
      PROVE  LoggerTypeOK'
  BY <1>1, <1>ring, <1>sizes DEF LogFiltered, Call, MainGoes
<1>2. ASSUME NEW level \in Levels, LogStarts(level)
      PROVE  LoggerTypeOK'
  BY <1>2, <1>ring, <1>sizes DEF LogStarts, Call, MainGoes, PushBegins
<1>3. ASSUME NEW level \in Levels, LogRefused(level)
      PROVE  LoggerTypeOK'
  BY <1>3, <1>ring, <1>sizes DEF LogRefused, Call, MainGoes, PushRefused
<1>4. CASE CopyRecord
  BY <1>4, <1>ring, <1>sizes DEF CopyRecord, MainGoes, PushCopies
<1>5. CASE PublishRecord
  <2>1. pushing \in Records
    BY <1>5 DEF PublishRecord, PushPublishes, RingInv, CopyDone
  <2>2. accepted' \in Seq(Records)
    BY <1>5, <2>1, AppendProperties DEF PublishRecord
  <2> QED
    BY <1>5, <1>ring, <2>2 DEF PublishRecord, MainGoes, PushPublishes
<1>6. CASE CountDropped
  <2>1. main_pc = "dropping" /\ dropped_records' = dropped_records + 1
    BY <1>6 DEF CountDropped, MainGoes
  <2> QED
    BY <1>6, <1>ring, <1>sizes, <1>drops, <2>1 DEF CountDropped, MainGoes
<1>7. CASE Join
  BY <1>7, <1>ring, <1>sizes DEF Join, MainGoes, Flush
<1>8. CASE RequestStop
  BY <1>8, <1>ring, <1>sizes DEF RequestStop, MainGoes
<1>9. CASE Terminate
  BY <1>9, <1>ring, <1>sizes DEF Terminate, MainGoes
<1>10. CASE TestStop
  <2>1. worker_pc' \in {"test_empty", "batch"} /\ processed' \in 0 .. BatchLimit
    BY <1>10, LoggerAssumption DEF TestStop, WorkerGoes
  <2> QED
    BY <1>10, <1>ring, <1>sizes, <2>1 DEF TestStop
<1>11. CASE TestEmpty
  BY <1>11, <1>ring, <1>sizes DEF TestEmpty, WorkerGoes
<1>12. CASE StartPop
  BY <1>12, <1>ring, <1>sizes DEF StartPop, WorkerGoes, PopBegins
<1>13. CASE CopyOut
  BY <1>13, <1>ring, <1>sizes DEF CopyOut, WorkerGoes, PopCopies
<1>14. CASE WriteRecord
  <2>1. written' \in Seq(Records)
    BY <1>14, WriteKeepsRecords
  <2>2. Len(written') \in Nat /\ Len(written') >= Len(written) /\ Len(written) \in Nat
    BY <1>14, AppendProperties, LenProperties DEF WriteRecord, Write
  <2>3. flushed' \in [records : 0 .. Len(written'), drops : 0 .. reported']
    <3>1. CASE flushed' = flushed
      BY <1>14, <2>2, <3>1 DEF WriteRecord, Write
    <3>2. CASE flushed' = OnDisk(written', reported')
      BY <1>14, <1>sizes, <2>2, <3>2 DEF WriteRecord, Write, OnDisk
    <3> QED
      BY <1>14, <3>1, <3>2 DEF WriteRecord, Write
  <2>4. processed' \in 0 .. BatchLimit
    BY <1>14, LoggerAssumption DEF WriteRecord, WorkerGoes, ThreadsInStep
  <2> QED
    BY <1>14, <1>ring, <2>1, <2>3, <2>4 DEF WriteRecord, WorkerGoes, PopReleases, Write
<1>15. CASE FindNothing
  BY <1>15, <1>ring, <1>sizes DEF FindNothing, WorkerGoes, PopFindsNothing
<1>16. CASE BatchEnds
  BY <1>16, <1>ring, <1>sizes DEF BatchEnds, WorkerGoes
<1>17. CASE Exchange
  <2>0. dropped_records' = 0 /\ reported' \in {reported, reported + dropped_records}
    BY <1>17 DEF Exchange, ReportDropped, Write
  <2>1. dropped_records' = 0 /\ reported' \in 0 .. MaxCalls
    BY <2>0, <1>drops
  <2>2. flushed' \in [records : 0 .. Len(written'), drops : 0 .. reported']
    <3>1. CASE dropped_records = 0
      BY <1>17, <3>1 DEF Exchange, ReportDropped
    <3>2. CASE dropped_records # 0
      BY <1>17, <1>sizes, <2>1, <3>2 DEF Exchange, ReportDropped, Write, OnDisk
    <3> QED
      BY <3>1, <3>2
  <2>3. written' = written
    BY <1>17 DEF Exchange, ReportDropped, Write
  <2> QED
    BY <1>17, <1>ring, <1>sizes, <2>1, <2>2, <2>3 DEF Exchange, WorkerGoes, ReportDropped
<1>18. CASE FlushIfDue
  BY <1>18, <1>ring, <1>sizes DEF FlushIfDue, WorkerGoes, Flush
<1>19. CASE LastExchange
  <2>0. dropped_records' = 0 /\ reported' \in {reported, reported + dropped_records}
    BY <1>19 DEF LastExchange, ReportDropped, Write
  <2>1. dropped_records' = 0 /\ reported' \in 0 .. MaxCalls
    BY <2>0, <1>drops
  <2>2. flushed' \in [records : 0 .. Len(written'), drops : 0 .. reported']
    <3>1. CASE dropped_records = 0
      BY <1>19, <3>1 DEF LastExchange, ReportDropped
    <3>2. CASE dropped_records # 0
      BY <1>19, <1>sizes, <2>1, <3>2 DEF LastExchange, ReportDropped, Write, OnDisk
    <3> QED
      BY <3>1, <3>2
  <2>3. written' = written
    BY <1>19 DEF LastExchange, ReportDropped, Write
  <2> QED
    BY <1>19, <1>ring, <1>sizes, <2>1, <2>2, <2>3 DEF LastExchange, WorkerGoes, ReportDropped
<1>20. CASE LastFlush
  BY <1>20, <1>ring, <1>sizes DEF LastFlush, WorkerGoes, Flush
<1>21. CASE StoreArrives(HeadArrives)
  BY <1>21, <1>ring, <1>sizes DEF StoreArrives, HeadArrives
<1>22. CASE StoreArrives(TailArrives)
  BY <1>22, <1>ring, <1>sizes DEF StoreArrives, TailArrives
<1>23. CASE StopArrives
  BY <1>23, <1>ring, <1>sizes DEF StopArrives
<1>24. CASE SecondPasses
  BY <1>24, <1>ring, <1>sizes DEF SecondPasses
<1> QED
  BY <1>1, <1>2, <1>3, <1>4, <1>5, <1>6, <1>7, <1>8, <1>9, <1>10, <1>11,
     <1>12, <1>13, <1>14, <1>15, <1>16, <1>17, <1>18, <1>19, <1>20, <1>21,
     <1>22, <1>23, <1>24 DEF Next, Main, Worker

-----------------------------------------------------------------------------
(* The invariant and what follows from it *)

LEMMA EmptyRing ==
  ASSUME RingInv, head = tail, pop_pc = "idle"
  PROVE  InFlight = <<>> /\ TakenOut = <<>>
<1>1. First = tail /\ Minus(head, tail) = 0
  BY Distances, IndexFacts DEF RingInv, First
<1>2. Len(InFlight) = 0 /\ InFlight \in Seq(Records \cup {Blank})
  BY <1>1, InFlightIsSeq
<1> QED
  BY <1>2, EmptySeq DEF TakenOut

LEMMA LoggerInit == Init => LoggerInv
<1> SUFFICES ASSUME Init
             PROVE  LoggerInv
  OBVIOUS
<1>1. RingInv
  BY InvInit DEF Init
<1>2. LoggerTypeOK
  <2>1. <<>> \in Seq(Records) /\ Len(<<>>) = 0
    OBVIOUS
  <2>2. flushed \in [records : 0 .. Len(written), drops : 0 .. reported]
    BY <2>1 DEF Init, OnDisk
  <2>3. 0 \in 0 .. MaxCalls /\ 0 \in 0 .. BatchLimit
    BY LoggerAssumption
  <2> QED
    BY <1>1, <2>1, <2>2, <2>3 DEF Init, LoggerTypeOK, RingInv
<1>3. ThreadsInStep /\ StopInOrder /\ refused <= calls /\ DropsCountedOnce
  BY DEF Init, RingInit, ThreadsInStep, StopInOrder, DropsCountedOnce
<1>4. RecordsInOrder
  <2>1. InFlight = <<>> /\ TakenOut = <<>>
    BY <1>1, EmptyRing DEF Init, RingInit
  <2> QED
    BY <2>1 DEF Init, RecordsInOrder
<1> QED
  BY <1>1, <1>2, <1>3, <1>4 DEF LoggerInv

LEMMA LoggerStep == LoggerInv /\ [Next]_vars => LoggerInv'
<1>1. ASSUME LoggerInv, Next
      PROVE  LoggerInv'
  BY <1>1, RingKept, TypesKept, ThreadsKept, StopKept, DropsKept, RecordsKept
     DEF LoggerInv
<1>2. ASSUME LoggerInv, UNCHANGED vars
      PROVE  LoggerInv'
  <2>1. RingInv'
    BY <1>2, InvStep DEF LoggerInv, vars
  <2>2. InFlight' = InFlight /\ TakenOut' = TakenOut
    BY <1>2, SameRecords DEF vars, ring_vars, producer_vars, consumer_vars
  <2>3. RecordsInOrder'
    BY <1>2, <2>2 DEF vars, file, history, LoggerInv, RecordsInOrder
  <2>4. LoggerTypeOK'
    BY <1>2, <2>1 DEF vars, signals, file, history, LoggerInv, RingInv,
                      LoggerTypeOK
  <2>5. ThreadsInStep' /\ StopInOrder' /\ DropsCountedOnce' /\ refused' <= calls'
    BY <1>2 DEF vars, ring_vars, producer_vars, consumer_vars, signals, file,
                history, LoggerInv, ThreadsInStep, StopInOrder, DropsCountedOnce
  <2> QED
    BY <2>1, <2>3, <2>4, <2>5 DEF LoggerInv
<1> QED
  BY <1>1, <1>2

(* The inductive invariant holds of the logger of AsyncFileLogger.cpp.     *)
THEOREM LoggerInvariance == Spec => []LoggerInv
BY LoggerInit, LoggerStep, PTL DEF Spec

(* Every variable of the two threads and of the ring keeps its type; in    *)
(* particular no turn of the worker exceeds its batch (run, lines 90-93).  *)
THEOREM LoggerTypesCorrect == Spec => []LoggerTypeOK
<1>1. LoggerInv => LoggerTypeOK
  BY DEF LoggerInv
<1> QED
  BY <1>1, LoggerInvariance, PTL

(* The file, the record in the worker's hands and the ring always make up  *)
(* the log as it was accepted (enqueue_record, run).                       *)
THEOREM LogStaysInOrder == Spec => []RecordsInOrder
<1>1. LoggerInv => RecordsInOrder
  BY DEF LoggerInv
<1> QED
  BY <1>1, LoggerInvariance, PTL

(* The counter of refused records, added to by one thread and exchanged by *)
(* the other, loses none and reports none twice (enqueue_record, run).     *)
THEOREM DropsAddUp == Spec => []DropsCountedOnce
<1>1. LoggerInv => DropsCountedOnce
  BY DEF LoggerInv
<1> QED
  BY <1>1, LoggerInvariance, PTL

(* A destroyed logger has written and flushed all it accepted (the         *)
(* destructor and the end of run).                                         *)
THEOREM DestructorLosesNothing == Spec => []NothingLeftBehind
<1>1. ASSUME LoggerInv
      PROVE  NothingLeftBehind
  <2> SUFFICES ASSUME main_pc = "destroyed"
               PROVE  /\ written = accepted
                      /\ reported = refused
                      /\ flushed = OnDisk(accepted, refused)
    BY DEF NothingLeftBehind
  <2>1. /\ worker_pc = "exited" /\ head = tail /\ dropped_records = 0
        /\ flushed = OnDisk(written, reported) /\ pop_pc = "idle"
    BY <1>1 DEF LoggerInv, StopInOrder, ThreadsInStep
  <2>2. InFlight = <<>> /\ TakenOut = <<>>
    BY <1>1, <2>1, EmptyRing DEF LoggerInv
  <2>3. written \in Seq(Records)
    BY <1>1 DEF LoggerInv, LoggerTypeOK
  <2>4. (written \o <<>>) \o <<>> = written
    BY <2>3, ConcatEmptySeq
  <2>5. written = accepted
    BY <1>1, <2>2, <2>4 DEF LoggerInv, RecordsInOrder
  <2>6. reported = refused
    BY <1>1, <2>1 DEF LoggerInv, LoggerTypeOK, DropsCountedOnce
  <2> QED
    BY <2>1, <2>5, <2>6
<1> QED
  BY <1>1, LoggerInvariance, PTL

(* The two threads never touch one cell at the same time, whatever the     *)
(* logger does with the ring (SpscRing.h:25-53).                           *)
THEOREM LoggerSharesNoCell == Spec => []NoSharedCell
<1>1. LoggerInv => NoSharedCell
  BY InvSeparates DEF LoggerInv
<1> QED
  BY <1>1, LoggerInvariance, PTL

=============================================================================
