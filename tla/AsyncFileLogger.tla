-------------------------- MODULE AsyncFileLogger --------------------------
(***************************************************************************)
(* The asynchronous logger (src/logging/AsyncFileLogger.cpp, Logger.h):    *)
(* the main thread pushes records into the ring of module SpscRing and     *)
(* counts those the ring refuses; the worker thread moves the records into *)
(* the file and reports the count.  A step is one access to what the       *)
(* threads share, with the local work that follows it.  Time passes, the   *)
(* stream writes through when it likes, and the stop request, like the     *)
(* indices of the ring, may be seen late.                                  *)
(***************************************************************************)
EXTENDS SpscRing

CONSTANTS
  Levels, MinimumLevel,  \* the levels of a record, natural numbers
  BatchLimit,            \* the records of one turn of the worker, 1024
  MaxCalls,              \* bound: the log statements executed
  Distinct               \* bound: the records in a row told apart by a number

Record(level, n) == [level |-> level, number |-> n % Distinct]
AllRecords == {Record(level, n) : level \in Levels, n \in 1 .. MaxCalls}

ASSUME LoggerAssumption ==
  /\ Levels \subseteq Nat /\ MinimumLevel \in Nat
  /\ BatchLimit \in Nat \ {0} /\ MaxCalls \in Nat /\ Distinct \in Nat \ {0}
  /\ AllRecords \subseteq Records

VARIABLES
  main_pc, worker_pc,    \* where the threads are
  processed,             \* the records the worker wrote in this turn
  dropped_records,       \* the counter of refused records
  stop_requested,        \* the stop state of the worker ...
  stop_visible,          \* ... and what the worker can see of it
  flush_due,             \* a second has passed since last_flush
  written, reported,     \* the records written, the drops reported so far ...
  flushed,               \* ... and how many of each are on the disk
  calls,                 \* history: the log statements executed,
  accepted, refused      \* the records accepted, in order, and the number refused

history == <<calls, accepted, refused>>
file == <<written, reported, flushed>>
signals == <<dropped_records, stop_requested, stop_visible, flush_due>>
vars == <<ring_vars, main_pc, worker_pc, processed, signals, file, history>>

-----------------------------------------------------------------------------

(* The stream writes what it holds to the disk: when it is flushed, and    *)
(* at any time it is written to.                                           *)
OnDisk(records, drops) == [records |-> Len(records), drops |-> drops]

Init ==
  /\ RingInit
  /\ main_pc = "running" /\ worker_pc = "loop" /\ processed = 0
  /\ dropped_records = 0
  /\ stop_requested = FALSE /\ stop_visible = FALSE
  /\ flush_due = FALSE
  /\ written = <<>> /\ reported = 0 /\ flushed = OnDisk(<<>>, 0)
  /\ calls = 0 /\ accepted = <<>> /\ refused = 0

(* A thread runs until it ends or the whole process does.                  *)
MainGoes(from, to) == main_pc = from /\ main_pc' = to
WorkerGoes(from, to) ==
  main_pc # "terminated" /\ worker_pc = from /\ worker_pc' = to

Flush == flushed' = OnDisk(written, reported)

Write(records, drops) ==
  /\ written' = records
  /\ reported' = drops
  /\ flushed' \in {flushed, OnDisk(records, drops)}

-----------------------------------------------------------------------------
(* The main thread: Logger::enqueue and enqueue_record, then, after the    *)
(* last statement, the destructor.                                         *)

Call(level) ==
  /\ calls < MaxCalls
  /\ calls' = calls + 1
  /\ UNCHANGED <<worker_pc, processed, signals, file, accepted>>

LogFiltered(level) ==
  /\ Call(level)
  /\ level < MinimumLevel
  /\ MainGoes("running", "running")
  /\ UNCHANGED <<ring_vars, refused>>

LogStarts(level) ==
  /\ Call(level)
  /\ level >= MinimumLevel
  /\ MainGoes("running", "pushing")
  /\ PushBegins(Record(level, calls + 1))
  /\ UNCHANGED refused

LogRefused(level) ==
  /\ Call(level)
  /\ level >= MinimumLevel
  /\ MainGoes("running", "dropping")
  /\ PushRefused
  /\ refused' = refused + 1

CopyRecord ==
  /\ MainGoes("pushing", "pushing")
  /\ PushCopies
  /\ UNCHANGED <<worker_pc, processed, signals, file, history>>

PublishRecord ==
  /\ MainGoes("pushing", "running")
  /\ PushPublishes
  /\ accepted' = Append(accepted, pushing)
  /\ UNCHANGED <<worker_pc, processed, signals, file, calls, refused>>

CountDropped ==
  /\ MainGoes("dropping", "running")
  /\ dropped_records' = dropped_records + 1
  /\ UNCHANGED <<ring_vars, worker_pc, processed, stop_requested,
                 stop_visible, flush_due, file, history>>

RequestStop ==
  /\ MainGoes("running", "joining")
  /\ stop_requested' = TRUE
  /\ UNCHANGED <<ring_vars, worker_pc, processed, dropped_records,
                 stop_visible, flush_due, file, history>>

Join ==
  /\ MainGoes("joining", "destroyed")
  /\ worker_pc = "exited"
  /\ Flush
  /\ UNCHANGED <<ring_vars, worker_pc, processed, signals, written, reported,
                 history>>

(* std::terminate between two statements ends the process with the worker  *)
(* wherever it is; no destructor runs.  The gateway has the one such call, *)
(* behind a check (OrderGateway.cpp:165-171) of which module Exchange      *)
(* shows that it never fails; the logger does not rely on that.            *)
Terminate ==
  /\ MainGoes("running", "terminated")
  /\ UNCHANGED <<ring_vars, worker_pc, processed, signals, file, history>>

-----------------------------------------------------------------------------
(* The worker thread: run(). *)

(* Mutant: the ring is tested before the stop state.                       *)
TestEmptyThenStop ==
  /\ WorkerGoes("loop", IF Empty /\ stop_visible THEN "end" ELSE "batch")
  /\ processed' = 0
  /\ UNCHANGED <<ring_vars, main_pc, signals, file, history>>

(* The loop condition: first the stop state, then, once it is set, the     *)
(* ring.  To have seen the request is to see all that was done before it.  *)
TestStop ==
  /\ IF stop_visible
     THEN WorkerGoes("loop", "test_empty") /\ seen_head' = head
     ELSE WorkerGoes("loop", "batch") /\ UNCHANGED seen_head
  /\ processed' = 0
  /\ UNCHANGED <<storage, tail, pop_pc, record, popped, producer_vars,
                 main_pc, signals, file, history>>

(* Mutant: the worker goes on for as long as it lives.                     *)
TestNothing ==
  /\ WorkerGoes("test_empty", "batch")
  /\ UNCHANGED <<ring_vars, main_pc, processed, signals, file, history>>

TestEmpty ==
  /\ WorkerGoes("test_empty", IF Empty THEN "end" ELSE "batch")
  /\ UNCHANGED <<ring_vars, main_pc, processed, signals, file, history>>

(* Mutant: one record too many in a turn.                                  *)
StartPopBeyond ==
  /\ processed <= BatchLimit
  /\ WorkerGoes("batch", "popping")
  /\ PopBegins
  /\ UNCHANGED <<main_pc, processed, signals, file, history>>

StartPop ==
  /\ processed < BatchLimit
  /\ WorkerGoes("batch", "popping")
  /\ PopBegins
  /\ UNCHANGED <<main_pc, processed, signals, file, history>>

CopyOut ==
  /\ WorkerGoes("popping", "popping")
  /\ PopCopies
  /\ UNCHANGED <<main_pc, processed, signals, file, history>>

(* Mutant: the records of the turn are not counted.                        *)
WriteRecordUncounted ==
  /\ WorkerGoes("popping", "batch")
  /\ PopReleases
  /\ Write(Append(written, record), reported)
  /\ UNCHANGED <<main_pc, processed, signals, history>>

WriteRecord ==
  /\ WorkerGoes("popping", "batch")
  /\ PopReleases
  /\ Write(Append(written, record), reported)
  /\ processed' = processed + 1
  /\ UNCHANGED <<main_pc, signals, history>>

FindNothing ==
  /\ processed < BatchLimit
  /\ WorkerGoes("batch", "exchange")
  /\ PopFindsNothing
  /\ UNCHANGED <<main_pc, processed, signals, file, history>>

BatchEnds ==
  /\ processed >= BatchLimit
  /\ WorkerGoes("batch", "exchange")
  /\ UNCHANGED <<ring_vars, main_pc, processed, signals, file, history>>

(* Mutant: the counter is read and not reset.                              *)
ReportDroppedAgain ==
  /\ IF dropped_records # 0
     THEN Write(written, reported + dropped_records)
     ELSE UNCHANGED file
  /\ UNCHANGED <<ring_vars, main_pc, processed, signals, history>>

(* exchange(0) on the counter, and write_dropped_records if there is       *)
(* something to report.                                                    *)
ReportDropped ==
  /\ dropped_records' = 0
  /\ IF dropped_records # 0
     THEN Write(written, reported + dropped_records)
     ELSE UNCHANGED file
  /\ UNCHANGED <<ring_vars, main_pc, processed, stop_requested, stop_visible,
                 flush_due, history>>

Exchange == WorkerGoes("exchange", "flush") /\ ReportDropped

(* The flush once a second; the nap after an idle turn changes nothing.    *)
FlushIfDue ==
  /\ WorkerGoes("flush", "loop")
  /\ IF flush_due THEN Flush ELSE UNCHANGED flushed
  /\ flush_due' = FALSE
  /\ UNCHANGED <<ring_vars, main_pc, processed, dropped_records,
                 stop_requested, stop_visible, written, reported, history>>

LastExchange == WorkerGoes("end", "last_flush") /\ ReportDropped

LastFlush ==
  /\ WorkerGoes("last_flush", "exited")
  /\ Flush
  /\ UNCHANGED <<ring_vars, main_pc, processed, signals, written, reported,
                 history>>

-----------------------------------------------------------------------------
(* The machine: stores become visible, and time passes. *)

StoreArrives(store) ==
  /\ main_pc # "terminated"
  /\ store
  /\ UNCHANGED <<main_pc, worker_pc, processed, signals, file, history>>

StopArrives ==
  /\ stop_requested /\ ~stop_visible
  /\ stop_visible' = TRUE
  /\ UNCHANGED <<ring_vars, main_pc, worker_pc, processed, dropped_records,
                 stop_requested, flush_due, file, history>>

SecondPasses ==
  /\ main_pc # "terminated" /\ worker_pc # "exited" /\ ~flush_due
  /\ flush_due' = TRUE
  /\ UNCHANGED <<ring_vars, main_pc, worker_pc, processed, dropped_records,
                 stop_requested, stop_visible, file, history>>

Main == CopyRecord \/ PublishRecord \/ CountDropped \/ Join

Worker ==
  \/ TestStop \/ TestEmpty \/ StartPop \/ CopyOut \/ WriteRecord
  \/ FindNothing \/ BatchEnds \/ Exchange \/ FlushIfDue
  \/ LastExchange \/ LastFlush

Next ==
  \/ \E level \in Levels :
       LogFiltered(level) \/ LogStarts(level) \/ LogRefused(level)
  \/ Main \/ RequestStop \/ Terminate
  \/ Worker
  \/ StoreArrives(HeadArrives) \/ StoreArrives(TailArrives)
  \/ StopArrives \/ SecondPasses

(* Both threads are scheduled, a store becomes visible in finite time and  *)
(* the clock goes on; nothing makes the program log, stop or fail.  Module *)
(* EndlessLogger checks what follows.                                      *)
Fairness ==
  /\ WF_vars(Main) /\ WF_vars(Worker)
  /\ WF_vars(StoreArrives(HeadArrives)) /\ WF_vars(StoreArrives(TailArrives))
  /\ WF_vars(StopArrives) /\ WF_vars(SecondPasses)

Spec == Init /\ [][Next]_vars

-----------------------------------------------------------------------------

LoggerTypeOK ==
  /\ RingTypeOK
  /\ main_pc \in {"running", "pushing", "dropping", "joining", "destroyed",
                  "terminated"}
  /\ worker_pc \in {"loop", "test_empty", "batch", "popping", "exchange",
                    "flush", "end", "last_flush", "exited"}
  /\ processed \in 0 .. BatchLimit
  /\ {dropped_records, reported, refused, calls} \subseteq 0 .. MaxCalls
  /\ {stop_requested, stop_visible, flush_due} \subseteq BOOLEAN
  /\ {accepted, written} \subseteq Seq(Records)
  /\ flushed \in [records : 0 .. Len(written), drops : 0 .. reported]

TakenOut == IF pop_pc = "release" THEN <<record>> ELSE <<>>

(* At any moment the records of the file, the one the worker is about to   *)
(* write and those in the ring are, one after the other, exactly the       *)
(* records enqueue has accepted: whenever the process dies, the file holds *)
(* an initial part of the log and nothing twice (AsyncFileLogger.cpp:70-93). *)
RecordsInOrder ==
  accepted = written \o TakenOut \o InFlight

(* Every refused record is counted once: it is about to be counted, in the *)
(* counter, or in exactly one report (AsyncFileLogger.cpp:75, :95-99,      *)
(* :113-117).                                                              *)
DropsCountedOnce ==
  refused = reported + dropped_records + (IF main_pc = "dropping" THEN 1 ELSE 0)

(* Once the logger is destroyed nothing is left behind: the ring is empty, *)
(* all accepted records and all drops are in the file, and the file is on  *)
(* the disk (AsyncFileLogger.cpp:52-60, :87, :113-119).                    *)
NothingLeftBehind ==
  main_pc = "destroyed" =>
    /\ written = accepted
    /\ reported = refused
    /\ flushed = OnDisk(accepted, refused)

=============================================================================
