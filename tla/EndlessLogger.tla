---------------------------- MODULE EndlessLogger ----------------------------
(***************************************************************************)
(* The logger of a program that need not ever stop logging.  MaxCalls is   *)
(* here no bound on the log statements, only on the history that is kept:  *)
(* when it is full, Forget leaves out of it whatever the threads have done *)
(* with, and the main thread goes on.  The two threads are those of module *)
(* AsyncFileLogger, which look at nothing Forget changes but the counter   *)
(* of drops, and at that only to see whether it is zero.                   *)
(*                                                                         *)
(* To say of any one record that it reaches the disk, one accepted record  *)
(* after the other may be watched; Forget does not forget that one.        *)
(***************************************************************************)
EXTENDS AsyncFileLogger

VARIABLE watched  \* the watched record's place among the accepted ones, or 0

endless_vars == <<vars, watched>>

-----------------------------------------------------------------------------

WatchedWritten == watched \in 1 .. Len(written)
WatchedOnDisk == watched \in 1 .. flushed.records

Forget ==
  LET kept == IF WatchedWritten /\ ~WatchedOnDisk THEN <<written[watched]>> ELSE <<>>
  IN  /\ main_pc = "running" /\ calls = MaxCalls
      /\ written' = kept
      /\ accepted' = kept \o SubSeq(accepted, Len(written) + 1, Len(accepted))
      /\ watched' = IF WatchedWritten THEN Len(kept)
                    ELSE IF watched = 0 THEN 0
                    ELSE watched - Len(written)
      /\ reported' = 0
      /\ flushed' = OnDisk(<<>>, 0)
      /\ dropped_records' = IF dropped_records = 0 THEN 0 ELSE 1
      /\ refused' = dropped_records'
      /\ calls' = Len(accepted') + refused'
      /\ UNCHANGED <<ring_vars, main_pc, worker_pc, processed, stop_requested,
                     stop_visible, flush_due>>

(* A record may be watched from when it is accepted.                       *)
Watch ==
  \/ UNCHANGED watched
  \/ watched = 0 /\ PublishRecord /\ watched' = Len(accepted')

EndlessInit == Init /\ watched = 0
EndlessNext == (Next /\ Watch) \/ Forget
EndlessSpec == EndlessInit /\ [][EndlessNext]_endless_vars /\ Fairness

-----------------------------------------------------------------------------

(* The destructor returns whatever the worker still has to write, however  *)
(* much was logged before (AsyncFileLogger.cpp:52-60, :87).                *)
DestructorReturns == main_pc = "joining" ~> main_pc = "destroyed"

(* While the process lives, each accepted record reaches the disk, whether *)
(* or not the logger is ever destroyed, and even if the program never      *)
(* stops logging and never lets the ring run empty                         *)
(* (AsyncFileLogger.cpp:90-106).                                           *)
RecordsReachTheDisk ==
  watched # 0 ~> main_pc = "terminated" \/ flushed.records >= watched

=============================================================================
