--------------------------- MODULE NetLogSvrSession ---------------------------
(***************************************************************************)
(* AsioNetLogServer::Session (boost_tools_asio/asio_net_log_svr.hpp): what *)
(* one client sends goes to a log file, which the timer renames when it    *)
(* has grown too large.  Reads are the numbers 1, 2, ... in their order, a *)
(* file is the sequence of the reads written to it.                        *)
(***************************************************************************)
EXTENDS Asio, SequencesExt

CONSTANTS
  MaxMsg,     \* bound: reads
  MaxFile,    \* max_file_size, in reads
  SubSecond   \* timer_dt is less than the second that a file's new name ends with

VARIABLES
  run,        \* run_flag_
  open,       \* the socket is open
  due,        \* a stop handler waits on session_strand_
  co,         \* "recv", "timer"
  hasData,    \* tick_has_data_
  ofs,        \* what ofs_ writes to: "none", "log" (log_file_), "old" (the last renamed)
  log,        \* the contents of log_file_
  old,        \* the contents of the renamed files
  same        \* the last renaming may have been in the present second

vars == <<run, open, due, co, hasData, ofs, log, old, same>>
files == <<ofs, log, old, same>>

Init ==
  /\ run = TRUE /\ open = TRUE /\ due = FALSE
  /\ co = [c \in {"recv", "timer"} |-> New]
  /\ hasData = FALSE
  /\ ofs = "none" /\ log = <<>> /\ old = <<>> /\ same = FALSE

Start ==
  /\ co["recv"] = New
  /\ co' = [c \in DOMAIN co |-> Spawned]
  /\ UNCHANGED <<run, open, due, hasData, files>>

StopCall ==
  /\ co["recv"] # New /\ run
  /\ run' = FALSE /\ due' = TRUE
  /\ UNCHANGED <<open, co, hasData, files>>

StopHandler ==
  /\ due /\ due' = FALSE /\ open' = FALSE /\ ofs' = "none"
  /\ co' = Cancelled(co, DOMAIN co)
  /\ UNCHANGED <<run, hasData, log, old, same>>

\* Coroutine c ends with Stop(), whose handler runs at once on the strand;
\* file is what ofs_ has been writing to.
Leaves(c, file) ==
  LET ended == [co EXCEPT ![c] = Ended]
  IN /\ run' = FALSE
     /\ co' = IF run THEN Cancelled(ended, DOMAIN co) ELSE ended
     /\ open' = (open /\ ~run)
     /\ ofs' = IF run THEN "none" ELSE file
     /\ UNCHANGED due

-----------------------------------------------------------------------------
Written == Len(log) + Len(FlattenSeq(old))
File == IF ofs = "none" THEN "log" ELSE ofs

\* A read is written also after the stop, to the file opened once more.
Write ==
  /\ hasData' = TRUE
  /\ IF File = "log"
     THEN log' = Append(log, Written + 1) /\ UNCHANGED old
     ELSE old' = [old EXCEPT ![Len(old)] = Append(@, Written + 1)] /\ UNCHANGED log
  /\ UNCHANGED same

RecvGoesOn ==
  /\ Resumes(co, "recv") /\ co["recv"].op = "ok" /\ run
  /\ co' = Goes(co, "recv", "read")
  /\ IF co["recv"].at = "read" THEN Write /\ ofs' = File ELSE UNCHANGED <<hasData, files>>
  /\ UNCHANGED <<run, open, due>>

RecvLeaves ==
  /\ Resumes(co, "recv")
  /\ \/ co["recv"] = Coro("read", "ok") /\ ~run /\ Write /\ Leaves("recv", File)
     \/ co["recv"] = Spawned /\ ~run /\ Leaves("recv", ofs) /\ UNCHANGED <<hasData, log, old, same>>
     \/ co["recv"].op = "error" /\ Leaves("recv", ofs) /\ UNCHANGED <<hasData, log, old, same>>

Closed == "none"

\* A name ends with the second of the renaming: a second renaming within it
\* replaces the file of the first.
Rename ==
  /\ log' = <<>> /\ same' = TRUE
  /\ \/ old' = Append(old, log)
     \/ same /\ old' = [old EXCEPT ![Len(old)] = log]

Quiet == co["timer"].at = "wait" /\ ~hasData

\* The size of a file that is not there is an exception.
Missing == co["timer"].at = "wait" /\ hasData /\ log = <<>>
TooLarge == co["timer"].at = "wait" /\ hasData /\ Len(log) > MaxFile

TimerGoesOn ==
  /\ Resumes(co, "timer") /\ co["timer"].op = "ok" /\ run /\ ~Quiet /\ ~Missing
  /\ co' = Goes(co, "timer", "wait")
  /\ hasData' = (hasData /\ co["timer"].at = "start")
  /\ IF TooLarge THEN Rename /\ ofs' = Closed ELSE UNCHANGED files
  /\ UNCHANGED <<run, open, due>>

TimerLeaves ==
  /\ Resumes(co, "timer")
  /\ co["timer"].op = "ok" => ~run \/ Quiet \/ Missing
  /\ hasData' = (hasData /\ co["timer"] # Coro("wait", "ok"))
  /\ IF TooLarge /\ co["timer"].op = "ok" THEN Rename /\ Leaves("timer", Closed)
     ELSE Leaves("timer", ofs) /\ UNCHANGED <<log, old, same>>

Receives == RecvGoesOn \/ RecvLeaves
Ticks == TimerGoesOn \/ TimerLeaves

-----------------------------------------------------------------------------
ReadDone ==
  /\ Awaits(co, "recv", "read")
  /\ \/ open /\ Written < MaxMsg /\ co' = [co EXCEPT !["recv"].op = "ok"]
     \/ co' = [co EXCEPT !["recv"].op = "error"]
  /\ UNCHANGED <<run, open, due, hasData, files>>

TimerFires ==
  /\ Awaits(co, "timer", "wait")
  /\ co' = [co EXCEPT !["timer"].op = "ok"]
  /\ same' = (same /\ SubSecond)
  /\ UNCHANGED <<run, open, due, hasData, ofs, log, old>>

Next ==
  \/ Start
  \/ StopCall
  \/ StopHandler
  \/ Receives
  \/ Ticks
  \/ ReadDone
  \/ TimerFires

Spec == Init /\ [][Next]_vars

ClosedDone == ~open /\ ReadDone
\* The io_context runs, timers fire, and a read of a closed socket ends.
FairSpec ==
  /\ Spec /\ WF_vars(StopHandler) /\ WF_vars(Receives) /\ WF_vars(Ticks)
  /\ WF_vars(ClosedDone) /\ WF_vars(TimerFires)

-----------------------------------------------------------------------------
\* Every read is in the files, once and in order, whatever a renaming or a
\* stop has interrupted, and the timer finds the file it measures.  (Not when
\* timer_dt is below a second.)
NothingOverwritten ==
  /\ FlattenSeq(old) \o log = [i \in 1..Written |-> i]
  /\ hasData => log # <<>>
=============================================================================
