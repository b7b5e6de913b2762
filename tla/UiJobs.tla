-------------------------------- MODULE UiJobs --------------------------------
(***************************************************************************)
(* The jobs of the web UI: request handlers that start an engine run on a  *)
(* thread of its own under the single-scan lock, the buffer of events each *)
(* run fills, the server-sent-event streams that replay it, the status     *)
(* handler that reads the fields of a job without its lock, and the        *)
(* registry that forgets old jobs.                                         *)
(*                                                                         *)
(* An event is its number in the buffer; a report, an error message and an *)
(* error code are their presence, and which code.                          *)
(***************************************************************************)
EXTENDS Naturals, Sequences, SequencesExt

CONSTANTS
  Jobs,       \* one POST request each, with the _Job it creates
  FixJobs,    \* those posted to /api/fix
  Streams,    \* connections to /api/scan/{id}/events
  Pollers,    \* requests for /api/scan/{id}
  JobHistory, \* _JOB_HISTORY
  MaxEvents,  \* bound: events of a run
  None

ASSUME JobsAssumption ==
  /\ FixJobs \subseteq Jobs
  /\ None \notin Jobs
  /\ Streams \cap Pollers = {}
  /\ JobHistory \in Nat \ {0}
  /\ MaxEvents \in Nat

VARIABLES
  handler,   \* where the POST handler of a job is
  runner,    \* where its background thread is
  busy,      \* the job that holds _ServerState.busy, or None
  jobs,      \* _ServerState.jobs, oldest first
  events, report, error, code, finished,  \* the fields of the _Job
  ending,    \* arguments of the finish call to come
  stream,    \* where a stream is
  target,    \* the job a stream or a poller found
  index, pending, done,  \* locals of _Job.stream
  sent,      \* the event frames a stream has yielded
  last,      \* the terminal frame it has yielded
  poller,    \* where a status request is
  answer     \* what it has read so far

jobVars == <<handler, runner, busy, jobs, events, report, error, code, finished, ending>>
streamVars == <<stream, index, pending, done, sent, last>>
pollVars == <<poller, answer>>
vars == <<jobVars, streamVars, pollVars, target>>

-----------------------------------------------------------------------------
(* "refused" stands for the three codes of a git refusal inside the job.   *)
Codes == {"refused", "engine_error"}

(* How work() can end: a report, or an error with its code.                *)
Endings(j) ==
  {[report |-> TRUE, code |-> None]} \cup
  [report : {FALSE}, code : IF j \in FixJobs THEN Codes ELSE {"engine_error"}]

(* The assignments of _Job.finish, made one after the other under _cv.     *)
Finishing == {"set_report", "set_error", "set_code", "set_finished"}

(* A stream takes _cv only when finish does not hold it.                   *)
Unlocked(j) == runner[j] \notin Finishing

(* notify_all.                                                             *)
Wake(j) ==
  stream' = [s \in Streams |-> IF stream[s] = "waiting" /\ target[s] = j
                               THEN "woken" ELSE stream[s]]

NoAnswer == [state |-> None, error |-> None, report |-> None]

Init ==
  /\ handler = [j \in Jobs |-> "new"] /\ runner = [j \in Jobs |-> "none"]
  /\ busy = None /\ jobs = <<>>
  /\ events = [j \in Jobs |-> <<>>]
  /\ report = [j \in Jobs |-> FALSE] /\ error = [j \in Jobs |-> FALSE]
  /\ code = [j \in Jobs |-> None] /\ finished = [j \in Jobs |-> FALSE]
  /\ ending = [j \in Jobs |-> None]
  /\ stream = [s \in Streams |-> "closed"]
  /\ target = [c \in Streams \cup Pollers |-> None]
  /\ index = [s \in Streams |-> 0] /\ pending = [s \in Streams |-> <<>>]
  /\ done = [s \in Streams |-> FALSE]
  /\ sent = [s \in Streams |-> <<>>] /\ last = [s \in Streams |-> None]
  /\ poller = [q \in Pollers |-> "idle"] /\ answer = [q \in Pollers |-> NoAnswer]

Handle(j, from, to) == handler[j] = from /\ handler' = [handler EXCEPT ![j] = to]
Run(j, from, to) == runner[j] = from /\ runner' = [runner EXCEPT ![j] = to]

-----------------------------------------------------------------------------
(* /api/fix runs its own preflight first and answers 412 when it refuses.  *)
RefusePreflight(j) ==
  /\ j \in FixJobs /\ Handle(j, "new", "412")
  /\ UNCHANGED <<runner, busy, jobs, events, report, error, code, finished, ending,
                 streamVars, pollVars, target>>

(* Mutant of Acquire: the result of the acquisition is ignored.             *)
AcquireAnyway(j) ==
  /\ busy' = j
  /\ Handle(j, "new", "acquired")
  /\ UNCHANGED <<runner, jobs, events, report, error, code, finished, ending,
                 streamVars, pollVars, target>>

(* _start takes the lock without blocking, or answers 409.                 *)
Acquire(j) ==
  /\ busy = None /\ busy' = j
  /\ Handle(j, "new", "acquired")
  /\ UNCHANGED <<runner, jobs, events, report, error, code, finished, ending,
                 streamVars, pollVars, target>>

(* Mutant of RefuseBusy: the job is remembered before the lock is tried.    *)
RememberRefused(j) ==
  /\ busy # None
  /\ Handle(j, "new", "409")
  /\ jobs' = SubSeq(Append(jobs, j), Len(jobs) + 2 - JobHistory, Len(jobs) + 1)
  /\ UNCHANGED <<runner, busy, events, report, error, code, finished, ending,
                 streamVars, pollVars, target>>

RefuseBusy(j) ==
  /\ busy # None
  /\ Handle(j, "new", "409")
  /\ UNCHANGED <<runner, busy, jobs, events, report, error, code, finished, ending,
                 streamVars, pollVars, target>>

(* _ServerState.remember: the oldest jobs beyond the limit are dropped.    *)
Newest(s) == SubSeq(s, IF Len(s) > JobHistory THEN Len(s) - JobHistory + 1 ELSE 1, Len(s))

Remember(j) ==
  /\ Handle(j, "acquired", "remembered")
  /\ jobs' = Newest(Append(jobs, j))
  /\ UNCHANGED <<runner, busy, events, report, error, code, finished, ending,
                 streamVars, pollVars, target>>

StartThread(j) ==
  /\ Handle(j, "remembered", "202")
  /\ Run(j, "none", "work")
  /\ UNCHANGED <<busy, jobs, events, report, error, code, finished, ending,
                 streamVars, pollVars, target>>

-----------------------------------------------------------------------------
(* Mutant of Emit: report.written goes out after finish.                    *)
EmitLate(j) ==
  /\ runner[j] \in {"work", "release"} /\ Len(events[j]) < MaxEvents
  /\ events' = [events EXCEPT ![j] = Append(@, Len(@) + 1)]
  /\ Wake(j)
  /\ UNCHANGED <<handler, runner, busy, jobs, report, error, code, finished, ending,
                 index, pending, done, sent, last, pollVars, target>>

(* _Job.emit, as a subscriber of the engine's bus and from _persist.       *)
Emit(j) ==
  /\ runner[j] = "work" /\ Len(events[j]) < MaxEvents
  /\ events' = [events EXCEPT ![j] = Append(@, Len(@) + 1)]
  /\ Wake(j)
  /\ UNCHANGED <<handler, runner, busy, jobs, report, error, code, finished, ending,
                 index, pending, done, sent, last, pollVars, target>>

(* work() is over: by its own finish call or by the except clause.         *)
EndWork(j) ==
  /\ Run(j, "work", "set_report")
  /\ \E e \in Endings(j) : ending' = [ending EXCEPT ![j] = e]
  /\ UNCHANGED <<handler, busy, jobs, events, report, error, code, finished,
                 streamVars, pollVars, target>>

(* Mutant of SetReport: finished is assigned before the error.              *)
SetReportAndFinished(j) ==
  /\ Run(j, "set_report", "set_error")
  /\ report' = [report EXCEPT ![j] = ending[j].report]
  /\ finished' = [finished EXCEPT ![j] = TRUE]
  /\ UNCHANGED <<handler, busy, jobs, events, error, code, ending,
                 streamVars, pollVars, target>>

SetReport(j) ==
  /\ Run(j, "set_report", "set_error")
  /\ report' = [report EXCEPT ![j] = ending[j].report]
  /\ UNCHANGED <<handler, busy, jobs, events, error, code, finished, ending,
                 streamVars, pollVars, target>>

SetError(j) ==
  /\ Run(j, "set_error", "set_code")
  /\ error' = [error EXCEPT ![j] = ~ending[j].report]
  /\ UNCHANGED <<handler, busy, jobs, events, report, code, finished, ending,
                 streamVars, pollVars, target>>

SetCode(j) ==
  /\ Run(j, "set_code", "set_finished")
  /\ code' = [code EXCEPT ![j] = ending[j].code]
  /\ UNCHANGED <<handler, busy, jobs, events, report, error, finished, ending,
                 streamVars, pollVars, target>>

(* Mutant of SetFinished: only a report finishes the job.                   *)
SetFinishedOnReport(j) ==
  /\ Run(j, "set_finished", "release")
  /\ finished' = [finished EXCEPT ![j] = ending[j].report]
  /\ Wake(j)
  /\ UNCHANGED <<handler, busy, jobs, events, report, error, code, ending,
                 index, pending, done, sent, last, pollVars, target>>

SetFinished(j) ==
  /\ Run(j, "set_finished", "release")
  /\ finished' = [finished EXCEPT ![j] = TRUE]
  /\ Wake(j)
  /\ UNCHANGED <<handler, busy, jobs, events, report, error, code, ending,
                 index, pending, done, sent, last, pollVars, target>>

(* Mutant of Release: an engine failure skips it.                           *)
ReleaseOnReport(j) ==
  /\ Run(j, "release", "over")
  /\ busy' = IF ending[j].report THEN None ELSE busy
  /\ UNCHANGED <<handler, jobs, events, report, error, code, finished, ending,
                 streamVars, pollVars, target>>

(* The finally clause.                                                     *)
Release(j) ==
  /\ Run(j, "release", "over")
  /\ busy' = None
  /\ UNCHANGED <<handler, jobs, events, report, error, code, finished, ending,
                 streamVars, pollVars, target>>

-----------------------------------------------------------------------------
(* _ServerState.get for a client c that looks for job j.                   *)
Found(c, j) ==
  /\ Contains(jobs, j)
  /\ target' = [target EXCEPT ![c] = j]

(* Only the id of a 202 answer is known to a client; the job may be gone.  *)
Known(j) == handler[j] = "202"

Open(s) == \E j \in Jobs :
  /\ stream[s] = "closed" /\ Known(j)
  /\ Found(s, j)
  /\ stream' = [stream EXCEPT ![s] = "poll"]
  /\ UNCHANGED <<jobVars, index, pending, done, sent, last, pollVars>>

NotFound(s) == \E j \in Jobs :
  /\ stream[s] = "closed" /\ Known(j) /\ ~Contains(jobs, j)
  /\ stream' = [stream EXCEPT ![s] = "404"]
  /\ UNCHANGED <<jobVars, index, pending, done, sent, last, pollVars, target>>

(* With _cv taken: wait when there is nothing to send and more may come.   *)
Wait(s) ==
  /\ stream[s] = "poll" /\ Unlocked(target[s])
  /\ index[s] >= Len(events[target[s]]) /\ ~finished[target[s]]
  /\ stream' = [stream EXCEPT ![s] = "waiting"]
  /\ UNCHANGED <<jobVars, index, pending, done, sent, last, pollVars, target>>

(* Fifteen seconds without a notification.                                 *)
WaitTimesOut(s) ==
  /\ stream[s] = "waiting"
  /\ stream' = [stream EXCEPT ![s] = "woken"]
  /\ UNCHANGED <<jobVars, index, pending, done, sent, last, pollVars, target>>

(* With _cv taken: what is new, and whether that was all.                  *)
Take(s) ==
  LET j == target[s]
      n == Len(events[j])
  IN /\ \/ stream[s] = "woken"
        \/ stream[s] = "poll" /\ ~(index[s] >= n /\ ~finished[j])
     /\ Unlocked(j)
     /\ pending' = [pending EXCEPT ![s] = SubSeq(events[j], index[s] + 1, n)]
     /\ index' = [index EXCEPT ![s] = n]
     /\ done' = [done EXCEPT ![s] = finished[j]]
     /\ stream' = [stream EXCEPT ![s] = "yield"]
     /\ UNCHANGED <<jobVars, sent, last, pollVars, target>>

(* One frame goes out; the generator is suspended in between.              *)
Yield(s) ==
  /\ stream[s] = "yield" /\ pending[s] # <<>>
  /\ sent' = [sent EXCEPT ![s] = Append(@, Head(pending[s]))]
  /\ pending' = [pending EXCEPT ![s] = Tail(@)]
  /\ UNCHANGED <<jobVars, stream, index, done, last, pollVars, target>>

(* Mutant of Loop: the cursor jumps to the end of the buffer.               *)
LoopFromEnd(s) ==
  /\ stream[s] = "yield" /\ pending[s] = <<>>
  /\ stream' = [stream EXCEPT ![s] = IF done[s] THEN "tail" ELSE "poll"]
  /\ index' = [index EXCEPT ![s] = Len(events[target[s]])]
  /\ UNCHANGED <<jobVars, pending, done, sent, last, pollVars, target>>

(* All frames are out, or there were none (a keep-alive comment).          *)
Loop(s) ==
  /\ stream[s] = "yield" /\ pending[s] = <<>>
  /\ stream' = [stream EXCEPT ![s] = IF done[s] THEN "tail" ELSE "poll"]
  /\ UNCHANGED <<jobVars, index, pending, done, sent, last, pollVars, target>>

(* After the loop the fields are read without _cv.                         *)
SendLast(s) ==
  /\ stream[s] = "tail"
  /\ last' = [last EXCEPT ![s] =
       IF error[target[s]] THEN <<"error", code[target[s]]>>
                           ELSE <<"result", report[target[s]]>>]
  /\ stream' = [stream EXCEPT ![s] = "ended"]
  /\ UNCHANGED <<jobVars, index, pending, done, sent, pollVars, target>>

Live == {"poll", "waiting", "woken", "yield", "tail"}

(* The browser tab is closed.                                              *)
Disconnect(s) ==
  /\ stream[s] \in Live
  /\ stream' = [stream EXCEPT ![s] = "gone"]
  /\ index' = [index EXCEPT ![s] = 0] /\ pending' = [pending EXCEPT ![s] = <<>>]
  /\ done' = [done EXCEPT ![s] = FALSE] /\ sent' = [sent EXCEPT ![s] = <<>>]
  /\ target' = [target EXCEPT ![s] = None]
  /\ UNCHANGED <<jobVars, last, pollVars>>

-----------------------------------------------------------------------------
(* scan_status: the fields are read one by one in the order of the code;   *)
(* the error code, which no property needs, is left out.                   *)
Poll(q, from, to) ==
  poller[q] = from /\ poller' = [poller EXCEPT ![q] = to]

Answer(q, field, value) == answer' = [answer EXCEPT ![q][field] = value]

FindJob(q) == \E j \in Jobs :
  /\ Known(j) /\ Poll(q, "idle", "error?")
  /\ Found(q, j)
  /\ UNCHANGED <<jobVars, streamVars, answer>>

ReadState(q) ==
  /\ Poll(q, "error?", IF error[target[q]] THEN "error" ELSE "finished?")
  /\ IF error[target[q]] THEN Answer(q, "state", "error") ELSE UNCHANGED answer
  /\ UNCHANGED <<jobVars, streamVars, target>>

ReadFinished(q) ==
  /\ Poll(q, "finished?", "error")
  /\ Answer(q, "state", IF finished[target[q]] THEN "done" ELSE "running")
  /\ UNCHANGED <<jobVars, streamVars, target>>

ReadError(q) ==
  /\ Poll(q, "error", "report")
  /\ Answer(q, "error", error[target[q]])
  /\ UNCHANGED <<jobVars, streamVars, target>>

ReadReport(q) ==
  /\ Poll(q, "report", "answered")
  /\ Answer(q, "report", report[target[q]])
  /\ UNCHANGED <<jobVars, streamVars, target>>

(* The response is sent.                                                   *)
Respond(q) ==
  /\ Poll(q, "answered", "idle")
  /\ answer' = [answer EXCEPT ![q] = NoAnswer]
  /\ target' = [target EXCEPT ![q] = None]
  /\ UNCHANGED <<jobVars, streamVars>>

-----------------------------------------------------------------------------
Request(j) ==
  RefusePreflight(j) \/ Acquire(j) \/ RefuseBusy(j) \/ Remember(j) \/ StartThread(j)

Finish(j) == SetReport(j) \/ SetError(j) \/ SetCode(j) \/ SetFinished(j)

Thread(j) == EndWork(j) \/ Finish(j) \/ Release(j)

Generator(s) == Wait(s) \/ WaitTimesOut(s) \/ Take(s) \/ Yield(s) \/ Loop(s) \/ SendLast(s)

Status(q) ==
  ReadState(q) \/ ReadFinished(q) \/ ReadError(q) \/ ReadReport(q)
    \/ Respond(q)

(* Every request has been answered and every stream is over.               *)
Quiet ==
  /\ \A j \in Jobs : handler[j] \in {"409", "412"} \/ runner[j] = "over"
  /\ \A s \in Streams : stream[s] \in {"ended", "gone", "404", "closed"}
  /\ \A q \in Pollers : poller[q] = "idle"
  /\ UNCHANGED vars

Next ==
  \/ \E j \in Jobs : Request(j) \/ Emit(j) \/ Thread(j)
  \/ \E s \in Streams : Open(s) \/ NotFound(s) \/ Generator(s) \/ Disconnect(s)
  \/ \E q \in Pollers : FindJob(q) \/ Status(q)
  \/ Quiet

Spec == Init /\ [][Next]_vars

(* Some handler or thread that can go on does: the engine ends every run,  *)
(* since each tool it calls has a timeout.  A connected client reads its   *)
(* frames.                                                                 *)
FairSpec ==
  /\ Spec
  /\ WF_vars(\E j \in Jobs : Remember(j) \/ StartThread(j) \/ Thread(j))
  /\ \A s \in Streams : WF_vars(Generator(s))

-----------------------------------------------------------------------------
TypeOK ==
  /\ handler \in [Jobs -> {"new", "412", "409", "acquired", "remembered", "202"}]
  /\ runner \in [Jobs -> {"none", "work", "release", "over"} \cup Finishing]
  /\ busy \in Jobs \cup {None}
  /\ jobs \in Seq(Jobs)
  /\ events \in [Jobs -> Seq(Nat)]
  /\ report \in [Jobs -> BOOLEAN] /\ error \in [Jobs -> BOOLEAN]
  /\ code \in [Jobs -> Codes \cup {None}] /\ finished \in [Jobs -> BOOLEAN]
  /\ ending \in [Jobs -> {None} \cup UNION {Endings(j) : j \in Jobs}]
  /\ stream \in [Streams -> Live \cup {"closed", "404", "ended", "gone"}]
  /\ target \in [Streams \cup Pollers -> Jobs \cup {None}]
  /\ index \in [Streams -> Nat] /\ done \in [Streams -> BOOLEAN]
  /\ pending \in [Streams -> Seq(Nat)] /\ sent \in [Streams -> Seq(Nat)]
  /\ poller \in [Pollers -> {"idle", "error?", "finished?", "error", "report", "answered"}]
  /\ answer \in [Pollers -> [state : {None, "error", "running", "done"},
                             error : BOOLEAN \cup {None}, report : BOOLEAN \cup {None}]]

(* A stream that ends has yielded every event of the run, once and in the  *)
(* order of the run, however late it connected and whatever was appended   *)
(* while it was suspended, and then the outcome that finish was given      *)
(* (server.py 192-217, docstring 149-151).                                 *)
StreamReplaysRun ==
  \A s \in Streams :
    LET j == target[s]
    IN /\ stream[s] \in Live => IsPrefix(sent[s], events[j])
       /\ stream[s] = "ended" =>
            /\ sent[s] = events[j] /\ runner[j] \in {"release", "over"}
            /\ last[s] = IF ending[j].report THEN <<"result", TRUE>>
                                             ELSE <<"error", ending[j].code>>

(* While a run is not finished its id can be looked up, although the       *)
(* registry drops its oldest entry whenever another request gets the lock  *)
(* (server.py 285-296, 582-600).                                           *)
RunningJobAddressable ==
  \A j \in Jobs : Known(j) /\ ~finished[j] => Contains(jobs, j)

(* Two engine runs never overlap, from the first event to the last         *)
(* assignment of finish (server.py 582-600).                               *)
OneRunAtATime ==
  \A i, j \in Jobs :
    runner[i] \in {"work"} \cup Finishing /\ runner[j] \in {"work"} \cup Finishing => i = j

(* The status handler takes no lock, yet an answer "done" always carries   *)
(* the report or the error, and an answer "error" carries the error: no    *)
(* client is told that a run is over without its outcome (server.py        *)
(* 177-189, 219-229, 461-464).                                             *)
StatusHasOutcome ==
  \A q \in Pollers : poller[q] = "answered" =>
    /\ answer[q].state = "done" => answer[q].report \/ answer[q].error
    /\ answer[q].state = "error" => answer[q].error

(* Nothing is appended to a finished job, whose streams may have ended     *)
(* (server.py 609-638).                                                    *)
NoEventAfterFinish ==
  [][\A j \in Jobs : finished[j] => events'[j] = events[j]]_vars

(* A stream whose client stays ends (server.py 195-217).                   *)
StreamEnds ==
  \A s \in Streams : stream[s] \in Live ~> stream[s] \in {"ended", "gone"}

(* The server becomes free again after every run, however it failed        *)
(* (server.py 591-598).                                                    *)
ServerFree == (busy # None) ~> (busy = None)
=============================================================================
