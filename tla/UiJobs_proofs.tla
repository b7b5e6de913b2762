---------------------------- MODULE UiJobs_proofs ----------------------------
(***************************************************************************)
(* Theorems about the jobs of the web UI for any number of requests,       *)
(* streams, status requests and events, and any size of the registry.      *)
(***************************************************************************)
EXTENDS UiJobs, SequenceTheorems, TLAPS

Running == {"work"} \cup Finishing
Reported == {"set_error", "set_code", "set_finished", "release", "over"}
Errored == Reported \ {"set_error"}
Coded == Errored \ {"set_code"}
Over == {"release", "over"}

-----------------------------------------------------------------------------
(* The lock: whoever is between its acquisition and its release holds it,  *)
(* and it is the newest job of the registry until another one takes it.    *)
Held(j) == handler[j] \in {"acquired", "remembered"} \/ runner[j] \in Running \cup {"release"}
NewestIs(j) == jobs # <<>> /\ jobs[Len(jobs)] = j

LockTypes ==
  /\ handler \in [Jobs -> {"new", "412", "409", "acquired", "remembered", "202"}]
  /\ runner \in [Jobs -> {"none", "work", "release", "over"} \cup Finishing]
  /\ busy \in Jobs \cup {None}
  /\ jobs \in Seq(Jobs)
LockInv ==
  /\ LockTypes
  /\ \A j \in Jobs :
       /\ Held(j) => busy = j
       /\ handler[j] = "202" <=> runner[j] # "none"
       /\ Held(j) /\ handler[j] # "acquired" => NewestIs(j)

LEMMA InitLockInv == Init => LockInv
BY DEF Init, LockInv, LockTypes, Held, Running, Finishing

(* Streams and status requests leave the jobs alone.                       *)
LEMMA ClientsOnlyRead ==
  ASSUME [Next]_vars
  PROVE  UNCHANGED jobVars \/ \E j \in Jobs : Request(j) \/ Emit(j) \/ Thread(j)
<1>1. ASSUME NEW s \in Streams, Open(s) \/ NotFound(s) \/ Generator(s) \/ Disconnect(s)
      PROVE  UNCHANGED jobVars
  BY <1>1, Zenon DEF Open, NotFound, Generator, Wait, WaitTimesOut, Take, Yield, Loop, SendLast, Disconnect
<1>2. ASSUME NEW q \in Pollers, FindJob(q) \/ Status(q)
      PROVE  UNCHANGED jobVars
  BY <1>2, Zenon DEF FindJob, Status, ReadState, ReadFinished, ReadError, ReadReport, Respond
<1>3. Quiet \/ UNCHANGED vars => UNCHANGED jobVars
  BY DEF Quiet, vars
<1> QED BY <1>1, <1>2, <1>3, Zenon DEF Next

LEMMA NewestAppended ==
  ASSUME jobs \in Seq(Jobs), NEW j \in Jobs
  PROVE  /\ Newest(Append(jobs, j)) \in Seq(Jobs) /\ Newest(Append(jobs, j)) # <<>>
         /\ Newest(Append(jobs, j))[Len(Newest(Append(jobs, j)))] = j
<1> DEFINE s == Append(jobs, j)
           k == IF Len(s) > JobHistory THEN Len(s) - JobHistory + 1 ELSE 1
<1>1. s \in Seq(Jobs) /\ Len(s) \in Nat \ {0} /\ s[Len(s)] = j
  OBVIOUS
<1>2. k \in 1..Len(s)
  BY <1>1, JobsAssumption
<1> HIDE DEF s, k
<1>3. /\ SubSeq(s, k, Len(s)) \in Seq(Jobs)
      /\ Len(SubSeq(s, k, Len(s))) = Len(s) - k + 1
      /\ SubSeq(s, k, Len(s))[Len(s) - k + 1] = s[Len(s)]
  BY <1>1, <1>2
<1>4. SubSeq(s, k, Len(s)) # <<>>
  <2>1. Len(SubSeq(s, k, Len(s))) # 0
    BY <1>1, <1>2, <1>3
  <2>2. Len(<<>>) = 0
    OBVIOUS
  <2> QED BY <2>1, <2>2, Zenon
<1> QED BY <1>1, <1>3, <1>4 DEF Newest, s, k

LEMMA NextLockInv == LockInv /\ [Next]_vars => LockInv'
<1> SUFFICES ASSUME LockInv, [Next]_vars PROVE LockInv'
  OBVIOUS
<1> USE DEF LockInv, LockTypes, Held, NewestIs, Running, Finishing, Handle, Run
<1>1. CASE UNCHANGED jobVars
  BY <1>1 DEF jobVars
<1>2. ASSUME NEW j \in Jobs, RefusePreflight(j) \/ RefuseBusy(j) PROVE LockInv'
  BY <1>2 DEF RefusePreflight, RefuseBusy
<1>3. ASSUME NEW j \in Jobs, Acquire(j) PROVE LockInv'
  BY <1>3, JobsAssumption DEF Acquire
<1>4. ASSUME NEW j \in Jobs, Remember(j) PROVE LockInv'
  <2>1. jobs' \in Seq(Jobs) /\ NewestIs(j)'
    BY <1>4, NewestAppended DEF Remember
  <2>2. \A i \in Jobs \ {j} : ~Held(i)
    BY <1>4 DEF Remember
  <2> QED BY <1>4, <2>1, <2>2 DEF Remember
<1>5. ASSUME NEW j \in Jobs, StartThread(j) PROVE LockInv'
  BY <1>5 DEF StartThread
<1>6. ASSUME NEW j \in Jobs, Emit(j) PROVE LockInv'
  BY <1>6 DEF Emit
<1>7. ASSUME NEW j \in Jobs, EndWork(j) \/ Finish(j) PROVE LockInv'
  BY <1>7 DEF EndWork, Finish, SetReport, SetError, SetCode, SetFinished
<1>8. ASSUME NEW j \in Jobs, Release(j) PROVE LockInv'
  BY <1>8, JobsAssumption DEF Release
<1> QED BY <1>1, <1>2, <1>3, <1>4, <1>5, <1>6, <1>7, <1>8, ClientsOnlyRead DEF Request, Thread

LEMMA LockInvariant == Spec => []LockInv
BY InitLockInv, NextLockInv, PTL DEF Spec

(* Two engine runs never overlap, for any number of requests (server.py    *)
(* 582-600).                                                               *)
THEOREM RunsExclude == Spec => []OneRunAtATime
<1>1. LockInv => OneRunAtATime
  BY DEF LockInv, Held, Running, OneRunAtATime
<1> QED BY <1>1, LockInvariant, PTL

-----------------------------------------------------------------------------
(* The outcome: the fields of a job hold what its thread has assigned.     *)
OutcomeTypes ==
  /\ report \in [Jobs -> BOOLEAN] /\ error \in [Jobs -> BOOLEAN]
  /\ code \in [Jobs -> Codes \cup {None}] /\ finished \in [Jobs -> BOOLEAN]
  /\ ending \in [Jobs -> {None} \cup UNION {Endings(j) : j \in Jobs}]
OutcomeOf(j) ==
  /\ runner[j] \notin {"none", "work"} => ending[j] \in Endings(j)
  /\ runner[j] \in Reported => report[j] = ending[j].report
  /\ error[j] => runner[j] \in Errored
  /\ runner[j] \in Errored => error[j] = ~ending[j].report
  /\ runner[j] \in Coded => code[j] = ending[j].code
  /\ finished[j] <=> runner[j] \in Over
OutcomeInv == OutcomeTypes /\ \A j \in Jobs : OutcomeOf(j)

LEMMA EndingsType ==
  ASSUME NEW j \in Jobs, NEW e \in Endings(j)
  PROVE  e.report \in BOOLEAN /\ e.code \in Codes \cup {None}
<1> DEFINE C == IF j \in FixJobs THEN Codes ELSE {"engine_error"}
<1>1. C \subseteq Codes
  BY DEF Codes
<1> HIDE DEF C
<1>2. e \in {[report |-> TRUE, code |-> None]} \cup [report : {FALSE}, code : C]
  BY Zenon DEF Endings, C
<1>3. CASE e = [report |-> TRUE, code |-> None]
  BY <1>3
<1>4. CASE e \in [report : {FALSE}, code : C]
  BY <1>4, <1>1
<1> QED BY <1>2, <1>3, <1>4

LEMMA InitOutcomeInv == Init => OutcomeInv
BY DEF Init, OutcomeInv, OutcomeTypes, OutcomeOf, Reported, Errored, Coded, Over

LEMMA NextOutcomeInv == LockInv /\ OutcomeInv /\ [Next]_vars => OutcomeInv'
<1> SUFFICES ASSUME LockTypes, OutcomeInv, [Next]_vars PROVE OutcomeInv'
  BY DEF LockInv
<1> USE DEF OutcomeInv, OutcomeTypes, LockTypes
<1> DEFINE fields == <<report, error, code, finished, ending>>
<1>1. ASSUME UNCHANGED <<runner, fields>> PROVE OutcomeInv'
  BY <1>1 DEF OutcomeOf
<1>2. CASE UNCHANGED jobVars
  BY <1>1, <1>2 DEF jobVars
<1>3. ASSUME NEW j \in Jobs, RefusePreflight(j) \/ Acquire(j) \/ RefuseBusy(j) \/ Remember(j) \/ Emit(j)
      PROVE  OutcomeInv'
  BY <1>1, <1>3, Zenon DEF RefusePreflight, Acquire, RefuseBusy, Remember, Emit
<1>4. ASSUME NEW j \in Jobs, StartThread(j) PROVE OutcomeInv'
  BY <1>4 DEF StartThread, Run, OutcomeOf, Reported, Errored, Coded, Over
<1>5. ASSUME NEW j \in Jobs, EndWork(j) PROVE OutcomeInv'
  BY <1>5 DEF EndWork, Run, OutcomeOf, Reported, Errored, Coded, Over
<1>6. ASSUME NEW j \in Jobs, SetReport(j) PROVE OutcomeInv'
  BY <1>6, EndingsType DEF SetReport, Run, OutcomeOf, Reported, Errored, Coded, Over
<1>7. ASSUME NEW j \in Jobs, SetError(j) PROVE OutcomeInv'
  BY <1>7, EndingsType DEF SetError, Run, OutcomeOf, Reported, Errored, Coded, Over
<1>8. ASSUME NEW j \in Jobs, SetCode(j) PROVE OutcomeInv'
  BY <1>8, EndingsType DEF SetCode, Run, OutcomeOf, Reported, Errored, Coded, Over
<1>9. ASSUME NEW j \in Jobs, SetFinished(j) PROVE OutcomeInv'
  BY <1>9, EndingsType DEF SetFinished, Run, OutcomeOf, Reported, Errored, Coded, Over
<1>10. ASSUME NEW j \in Jobs, Release(j) PROVE OutcomeInv'
  BY <1>10, EndingsType DEF Release, Run, OutcomeOf, Reported, Errored, Coded, Over
<1> QED BY <1>2, <1>3, <1>4, <1>5, <1>6, <1>7, <1>8, <1>9, <1>10, ClientsOnlyRead, Zenon DEF Request, Thread, Finish

LEMMA OutcomeInvariant == Spec => []OutcomeInv
<1>1. OutcomeInv /\ LockInv /\ [Next]_vars => OutcomeInv'
  BY NextOutcomeInv
<1> QED BY InitOutcomeInv, <1>1, LockInvariant, PTL DEF Spec

(* Whatever the engine, the bus or the persisting of the report emit, it   *)
(* is before finish: nothing is appended to a finished job (server.py      *)
(* 609-638).                                                               *)
THEOREM NothingAfterFinish == Spec => NoEventAfterFinish
<1>1. OutcomeInv /\ [Next]_vars => [\A j \in Jobs : finished[j] => events'[j] = events[j]]_vars
  <2> SUFFICES ASSUME OutcomeInv, [Next]_vars, NEW j \in Jobs, finished[j] PROVE events'[j] = events[j]
    OBVIOUS
  <2>1. CASE UNCHANGED events
    BY <2>1
  <2>2. ASSUME NEW i \in Jobs, Emit(i) PROVE events'[j] = events[j]
    <3>1. runner[i] = "work" /\ runner[j] \in Over
      BY <2>2 DEF Emit, OutcomeInv, OutcomeOf
    <3> QED BY <2>2, <3>1 DEF Emit, Over
  <2>3. ASSUME NEW i \in Jobs, Request(i) \/ Thread(i) PROVE UNCHANGED events
    BY <2>3, Zenon DEF Request, Thread, Finish, RefusePreflight, Acquire, RefuseBusy, Remember, StartThread,
                EndWork, SetReport, SetError, SetCode, SetFinished, Release
  <2> QED BY <2>1, <2>2, <2>3, ClientsOnlyRead DEF jobVars
<1> QED BY <1>1, OutcomeInvariant, PTL DEF Spec, NoEventAfterFinish

(* While its run is not finished a job is in the registry, whatever the    *)
(* other requests make it drop, if the registry holds at least one job     *)
(* (server.py 285-296, 582-600).                                           *)
THEOREM RunningIsAddressable == Spec => []RunningJobAddressable
<1>1. LockInv /\ OutcomeInv => RunningJobAddressable
  <2> SUFFICES ASSUME LockInv, OutcomeInv, NEW j \in Jobs, Known(j), ~finished[j] PROVE Contains(jobs, j)
    BY DEF RunningJobAddressable
  <2>1. Held(j) /\ handler[j] # "acquired"
    BY DEF LockInv, LockTypes, OutcomeInv, OutcomeOf, Known, Held, Over, Running
  <2>2. NewestIs(j) /\ jobs \in Seq(Jobs)
    BY <2>1 DEF LockInv, LockTypes
  <2>3. Len(jobs) \in 1..Len(jobs)
    <3>1. Len(jobs) \in Nat /\ Len(jobs) # 0
      BY <2>2 DEF NewestIs
    <3> QED BY <3>1
  <2> QED BY <2>2, <2>3 DEF NewestIs, Contains
<1> QED BY <1>1, LockInvariant, OutcomeInvariant, PTL

-----------------------------------------------------------------------------
(* The status request: what it has read so far was true when it was read   *)
(* and has not changed since.                                              *)
AnswerOf(q) ==
  LET j == target[q]
      a == answer[q]
  IN /\ poller[q] # "idle" => j \in Jobs
     /\ poller[q] \in {"error", "report", "answered"} =>
          /\ a.state \in {"error", "running", "done"}
          /\ a.state = "done" => finished[j]
          /\ a.state = "error" => error[j]
     /\ poller[q] \in {"report", "answered"} =>
          /\ a.state = "error" => a.error = TRUE
          /\ a.state = "done" => a.error = error[j]
     /\ poller[q] = "answered" /\ a.state = "done" => a.report = report[j]
AnswerTypes ==
  /\ target \in [Streams \cup Pollers -> Jobs \cup {None}]
  /\ poller \in [Pollers -> {"idle", "error?", "finished?", "error", "report", "answered"}]
  /\ answer \in [Pollers -> [state : {None, "error", "running", "done"},
                             error : BOOLEAN \cup {None}, report : BOOLEAN \cup {None}]]
AnswerInv == AnswerTypes /\ \A q \in Pollers : AnswerOf(q)

LEMMA InitAnswerInv == Init => AnswerInv
BY DEF Init, AnswerInv, AnswerTypes, AnswerOf, NoAnswer

(* Once true, the fields of a job stay.                                    *)
LEMMA OutcomeStays ==
  ASSUME OutcomeInv, LockTypes, [Next]_vars, NEW j \in Jobs
  PROVE  /\ finished[j] => finished'[j] /\ error'[j] = error[j] /\ report'[j] = report[j]
         /\ error[j] => error'[j]
<1> USE DEF OutcomeInv, OutcomeTypes, LockTypes
<1>1. CASE UNCHANGED jobVars
  BY <1>1 DEF jobVars
<1>2. ASSUME NEW i \in Jobs, Request(i) \/ Emit(i) \/ EndWork(i) \/ SetCode(i) \/ Release(i)
      PROVE  UNCHANGED <<finished, error, report>>
  BY <1>2, Zenon DEF Request, RefusePreflight, Acquire, RefuseBusy, Remember, StartThread, Emit, EndWork, SetCode, Release
<1>3. ASSUME NEW i \in Jobs, SetReport(i) \/ SetError(i)
      PROVE  /\ finished' = finished /\ runner[i] \in {"set_report", "set_error"}
             /\ \A k \in Jobs \ {i} : error'[k] = error[k] /\ report'[k] = report[k]
  BY <1>3 DEF SetReport, SetError, Run
<1>4. ASSUME NEW i \in Jobs, SetFinished(i)
      PROVE  UNCHANGED <<error, report>> /\ (finished[j] => finished'[j])
  BY <1>4 DEF SetFinished, Run
<1>5. finished[j] => runner[j] \in Over
  BY DEF OutcomeOf
<1>6. error[j] => runner[j] \in Errored
  BY DEF OutcomeOf
<1>7. ASSUME NEW i \in Jobs, SetReport(i) \/ SetError(i), finished[j] \/ error[j] PROVE i # j
  BY <1>3, <1>5, <1>6, <1>7 DEF Over, Errored, Reported
<1> QED BY <1>1, <1>2, <1>3, <1>4, <1>7, ClientsOnlyRead DEF Thread, Finish

LEMMA NextAnswerInv == LockInv /\ OutcomeInv /\ AnswerInv /\ [Next]_vars => AnswerInv'
<1> SUFFICES ASSUME LockTypes, OutcomeInv, AnswerInv, [Next]_vars PROVE AnswerInv'
  BY DEF LockInv
<1> USE DEF AnswerInv, AnswerTypes
<1>1. ASSUME UNCHANGED pollVars, \A q \in Pollers : target'[q] = target[q],
             target' \in [Streams \cup Pollers -> Jobs \cup {None}]
      PROVE  AnswerInv'
  <2> SUFFICES ASSUME NEW q \in Pollers PROVE AnswerOf(q)'
    BY <1>1 DEF pollVars
  <2>1. CASE poller[q] = "idle"
    BY <1>1, <2>1 DEF AnswerOf, pollVars
  <2>2. CASE target[q] \in Jobs
    BY <1>1, <2>2, OutcomeStays DEF AnswerOf, pollVars
  <2> QED BY <2>1, <2>2 DEF AnswerOf
<1>2. ASSUME UNCHANGED <<pollVars, target>> PROVE AnswerInv'
  BY <1>1, <1>2
<1>3. ASSUME NEW j \in Jobs, Request(j) \/ Emit(j) \/ Thread(j) PROVE UNCHANGED <<pollVars, target>>
  BY <1>3, Zenon DEF Request, Thread, Finish, RefusePreflight, Acquire, RefuseBusy, Remember, StartThread,
              Emit, EndWork, SetReport, SetError, SetCode, SetFinished, Release
<1>4. ASSUME NEW s \in Streams, NotFound(s) \/ Generator(s) PROVE UNCHANGED <<pollVars, target>>
  BY <1>4, Zenon DEF NotFound, Generator, Wait, WaitTimesOut, Take, Yield, Loop, SendLast
<1>5. ASSUME NEW s \in Streams, Open(s) \/ Disconnect(s) PROVE AnswerInv'
  <2>1. UNCHANGED pollVars
    BY <1>5, Zenon DEF Open, Disconnect
  <2>2. \E t \in Jobs \cup {None} : target' = [target EXCEPT ![s] = t]
    BY <1>5 DEF Open, Disconnect, Found
  <2> QED BY <1>1, <2>1, <2>2, JobsAssumption
<1> USE DEF Poll, Answer, AnswerOf
<1>6. ASSUME NEW q \in Pollers, FindJob(q) PROVE AnswerInv'
  BY <1>6 DEF FindJob, Found, streamVars, jobVars
<1>7. ASSUME NEW q \in Pollers, ReadState(q) PROVE AnswerInv'
  BY <1>7 DEF ReadState, jobVars
<1>8. ASSUME NEW q \in Pollers, ReadFinished(q) PROVE AnswerInv'
  BY <1>8 DEF ReadFinished, jobVars
<1>9. ASSUME NEW q \in Pollers, ReadError(q) PROVE AnswerInv'
  BY <1>9 DEF ReadError, jobVars, OutcomeInv, OutcomeTypes
<1>10. ASSUME NEW q \in Pollers, ReadReport(q) PROVE AnswerInv'
  BY <1>10 DEF ReadReport, jobVars, OutcomeInv, OutcomeTypes
<1>11. ASSUME NEW q \in Pollers, Respond(q) PROVE AnswerInv'
  BY <1>11, JobsAssumption DEF Respond, jobVars, NoAnswer
<1>12. Quiet \/ UNCHANGED vars => UNCHANGED <<pollVars, target>>
  BY DEF Quiet, vars
<1> QED BY <1>2, <1>3, <1>4, <1>5, <1>6, <1>7, <1>8, <1>9, <1>10, <1>11, <1>12, Zenon DEF Next, Status

LEMMA AnswerInvariant == Spec => []AnswerInv
<1>1. AnswerInv /\ OutcomeInv /\ LockInv /\ [Next]_vars => AnswerInv'
  BY NextAnswerInv
<1> QED BY InitAnswerInv, <1>1, OutcomeInvariant, LockInvariant, PTL DEF Spec

(* No status request is answered that a run is over without its outcome,   *)
(* although it reads the fields one by one without the lock under which    *)
(* finish assigns them (server.py 177-189, 219-229).                       *)
THEOREM AnswersAreWhole == Spec => []StatusHasOutcome
<1>1. OutcomeInv /\ AnswerInv => StatusHasOutcome
  <2> SUFFICES ASSUME OutcomeInv, AnswerInv, NEW q \in Pollers, poller[q] = "answered"
               PROVE  /\ answer[q].state = "done" => answer[q].report \/ answer[q].error
                      /\ answer[q].state = "error" => answer[q].error
    BY DEF StatusHasOutcome
  <2>1. answer[q].state = "error" => answer[q].error
    BY DEF AnswerInv, AnswerOf
  <2>2. ASSUME answer[q].state = "done" PROVE answer[q].report \/ answer[q].error
    <3> DEFINE j == target[q]
    <3>1. /\ j \in Jobs /\ finished[j]
          /\ answer[q].report = report[j] /\ answer[q].error = error[j]
      BY <2>2 DEF AnswerInv, AnswerOf
    <3>2. runner[j] \in Over
      BY <3>1 DEF OutcomeInv, OutcomeOf
    <3>3. report[j] = ending[j].report /\ error[j] = ~ending[j].report
      BY <3>1, <3>2 DEF OutcomeInv, OutcomeOf, Over, Reported, Errored
    <3> QED BY <3>1, <3>3, Zenon
  <2> QED BY <2>1, <2>2
<1> QED BY <1>1, OutcomeInvariant, AnswerInvariant, PTL

-----------------------------------------------------------------------------
(* The stream: what it has sent and what it holds back together are the    *)
(* events of its job up to its cursor.                                     *)
StreamTypes ==
  /\ target \in [Streams \cup Pollers -> Jobs \cup {None}]
  /\ events \in [Jobs -> Seq(Nat)]
  /\ stream \in [Streams -> Live \cup {"closed", "404", "ended", "gone"}]
  /\ index \in [Streams -> Nat] /\ done \in [Streams -> BOOLEAN]
  /\ pending \in [Streams -> Seq(Nat)] /\ sent \in [Streams -> Seq(Nat)]
  /\ DOMAIN last = Streams
Outcome(j) == IF ending[j].report THEN <<"result", TRUE>> ELSE <<"error", ending[j].code>>
Replayed(s, j) ==
  /\ index[s] = Len(sent[s]) + Len(pending[s]) /\ index[s] <= Len(events[j])
  /\ \A i \in 1..Len(sent[s]) : sent[s][i] = events[j][i]
  /\ \A i \in 1..Len(pending[s]) : pending[s][i] = events[j][Len(sent[s]) + i]
StreamOf(s) ==
  LET j == target[s]
  IN /\ stream[s] \in Live \cup {"ended"} => j \in Jobs /\ Replayed(s, j)
     /\ stream[s] # "yield" => pending[s] = <<>>
     /\ stream[s] = "closed" => index[s] = 0 /\ sent[s] = <<>>
     /\ (stream[s] = "yield" /\ done[s]) \/ stream[s] \in {"tail", "ended"} =>
          finished[j] /\ index[s] = Len(events[j])
     /\ stream[s] = "ended" => last[s] = Outcome(j)
StreamInv == StreamTypes /\ \A s \in Streams : StreamOf(s)

LEMMA InitStreamInv == Init => StreamInv
BY DEF Init, StreamInv, StreamTypes, StreamOf, Live

(* The buffer of a job only grows, and once it is finished nothing a       *)
(* stream sends of it changes any more.                                    *)
LEMMA BufferGrows ==
  ASSUME LockTypes, OutcomeInv, events \in [Jobs -> Seq(Nat)], [Next]_vars
  PROVE  /\ events' \in [Jobs -> Seq(Nat)]
         /\ \A j \in Jobs :
               /\ Len(events[j]) <= Len(events'[j])
               /\ \A i \in 1..Len(events[j]) : events'[j][i] = events[j][i]
               /\ finished[j] => finished'[j] /\ events'[j] = events[j] /\ ending'[j] = ending[j]
<1>1. CASE UNCHANGED <<events, ending, finished>>
  BY <1>1
<1>2. ASSUME NEW i \in Jobs, Emit(i)
      PROVE  /\ UNCHANGED <<ending, finished>> /\ ~finished[i]
             /\ events' = [events EXCEPT ![i] = Append(@, Len(@) + 1)]
  BY <1>2 DEF Emit, OutcomeInv, OutcomeOf, Over
<1>3. ASSUME NEW i \in Jobs, EndWork(i)
      PROVE  /\ UNCHANGED <<events, finished>> /\ ~finished[i]
             /\ \A j \in Jobs \ {i} : ending'[j] = ending[j]
  BY <1>3 DEF EndWork, Run, OutcomeInv, OutcomeOf, OutcomeTypes, Over
<1>4. ASSUME NEW i \in Jobs, SetFinished(i)
      PROVE  UNCHANGED <<events, ending>> /\ \A j \in Jobs : finished[j] => finished'[j]
  BY <1>4 DEF SetFinished, OutcomeInv, OutcomeTypes
<1>5. ASSUME NEW i \in Jobs, Request(i) \/ SetReport(i) \/ SetError(i) \/ SetCode(i) \/ Release(i)
      PROVE  UNCHANGED <<events, ending, finished>>
  BY <1>5, Zenon DEF Request, RefusePreflight, Acquire, RefuseBusy, Remember, StartThread,
              SetReport, SetError, SetCode, Release
<1>6. ASSUME NEW i \in Jobs, Emit(i)
      PROVE  /\ events' \in [Jobs -> Seq(Nat)]
             /\ \A j \in Jobs :
                   /\ Len(events[j]) <= Len(events'[j])
                   /\ \A k \in 1..Len(events[j]) : events'[j][k] = events[j][k]
                   /\ i # j => events'[j] = events[j]
  <2> DEFINE e == events[i]
             a == Append(e, Len(e) + 1)
  <2>1. e \in Seq(Nat)
    OBVIOUS
  <2>2. /\ a \in Seq(Nat) /\ Len(e) <= Len(a)
        /\ \A k \in 1..Len(e) : a[k] = e[k]
    BY <2>1
  <2>3. events' = [events EXCEPT ![i] = a]
    BY <1>2, <1>6
  <2>4. \A j \in Jobs : Len(events[j]) <= Len(events[j])
    OBVIOUS
  <2> QED BY <2>2, <2>3, <2>4
<1> QED BY <1>1, <1>2, <1>3, <1>4, <1>5, <1>6, ClientsOnlyRead DEF Thread, Finish, jobVars

LEMMA NextStreamInv == LockInv /\ OutcomeInv /\ StreamInv /\ [Next]_vars => StreamInv'
<1> SUFFICES ASSUME LockTypes, OutcomeInv, StreamInv, [Next]_vars PROVE StreamInv'
  BY DEF LockInv
<1>a. /\ events' \in [Jobs -> Seq(Nat)]
      /\ \A j \in Jobs :
            /\ Len(events[j]) <= Len(events'[j])
            /\ \A i \in 1..Len(events[j]) : events'[j][i] = events[j][i]
            /\ finished[j] => finished'[j] /\ events'[j] = events[j] /\ ending'[j] = ending[j]
  BY BufferGrows DEF StreamInv, StreamTypes
(* What other steps do to the buffers does not disturb a stream.           *)
<1>b. ASSUME NEW s \in Streams, target'[s] = target[s],
             stream'[s] = stream[s] \/ (stream[s] = "waiting" /\ stream'[s] = "woken"),
             index'[s] = index[s], pending'[s] = pending[s], done'[s] = done[s],
             sent'[s] = sent[s], last'[s] = last[s]
      PROVE  StreamOf(s)'
  <2>1. CASE stream[s] \in Live \cup {"ended"}
    <3>1. PICK j \in Jobs : j = target[s]
      BY <2>1 DEF StreamInv, StreamOf
    <3>2. /\ index[s] = Len(sent[s]) + Len(pending[s]) /\ index[s] <= Len(events[j])
          /\ \A i \in 1..Len(sent[s]) : sent[s][i] = events[j][i]
          /\ \A i \in 1..Len(pending[s]) : pending[s][i] = events[j][Len(sent[s]) + i]
      BY <2>1, <3>1 DEF StreamInv, StreamOf, Replayed
    <3>3. /\ Len(events[j]) <= Len(events'[j])
          /\ \A i \in 1..Len(events[j]) : events'[j][i] = events[j][i]
          /\ finished[j] => finished'[j] /\ events'[j] = events[j] /\ ending'[j] = ending[j]
      BY <1>a
    <3>4. /\ sent[s] \in Seq(Nat) /\ pending[s] \in Seq(Nat) /\ events[j] \in Seq(Nat) /\ events'[j] \in Seq(Nat)
      BY <1>a DEF StreamInv, StreamTypes
    <3>5. /\ index[s] <= Len(events'[j])
          /\ \A i \in 1..Len(sent[s]) : sent[s][i] = events'[j][i]
          /\ \A i \in 1..Len(pending[s]) : pending[s][i] = events'[j][Len(sent[s]) + i]
      <4> DEFINE f == sent[s]
                 p == pending[s]
                 e == events[j]
                 g == events'[j]
                 k == index[s]
      <4>1. /\ Len(f) \in Nat /\ Len(p) \in Nat /\ Len(e) \in Nat /\ Len(g) \in Nat
        BY <3>4
      <4> HIDE DEF f, p, e, g, k
      <4>2. k = Len(f) + Len(p) /\ k <= Len(e) /\ Len(e) <= Len(g)
        BY <3>2, <3>3 DEF f, p, e, g, k
      <4>3. /\ \A i \in 1..Len(f) : f[i] = e[i]
            /\ \A i \in 1..Len(p) : p[i] = e[Len(f) + i]
            /\ \A i \in 1..Len(e) : g[i] = e[i]
        BY <3>2, <3>3 DEF f, p, e, g
      <4>4. /\ k <= Len(g)
            /\ \A i \in 1..Len(f) : f[i] = g[i]
            /\ \A i \in 1..Len(p) : p[i] = g[Len(f) + i]
        <5>1. k <= Len(g) /\ Len(f) <= Len(e) /\ Len(f) + Len(p) <= Len(e)
          BY <4>1, <4>2
        <5>2. ASSUME NEW i \in 1..Len(f) PROVE f[i] = g[i]
          BY <4>1, <4>3, <5>1
        <5>3. ASSUME NEW i \in 1..Len(p) PROVE p[i] = g[Len(f) + i]
          <6>1. Len(f) + i \in 1..Len(e)
            BY <4>1, <5>1
          <6> QED BY <4>3, <6>1, Zenon
        <5> QED BY <5>1, <5>2, <5>3
      <4> QED BY <4>4 DEF f, p, g, k
    <3>6. Replayed(s, j)'
      BY <1>b, <3>2, <3>5 DEF Replayed
    <3>7. /\ stream[s] # "yield" => pending[s] = <<>>
          /\ (stream[s] = "yield" /\ done[s]) \/ stream[s] \in {"tail", "ended"} =>
               finished[j] /\ index[s] = Len(events[j])
          /\ stream[s] = "ended" => last[s] = Outcome(j)
      BY <3>1 DEF StreamInv, StreamOf
    <3>8. /\ stream'[s] # "yield" => pending'[s] = <<>>
          /\ (stream'[s] = "yield" /\ done'[s]) \/ stream'[s] \in {"tail", "ended"} =>
               finished'[j] /\ index'[s] = Len(events'[j])
      BY <1>b, <3>3, <3>7
    <3>9. stream'[s] = "ended" => last'[s] = Outcome(j)'
      BY <1>b, <3>3, <3>7 DEF Outcome
    <3>10. target'[s] = j /\ stream'[s] # "closed"
      BY <1>b, <2>1, <3>1 DEF Live
    <3> QED BY <3>6, <3>8, <3>9, <3>10 DEF StreamOf
  <2>2. CASE stream[s] \notin Live \cup {"ended"}
    BY <1>b, <2>2 DEF StreamInv, StreamOf, Live
  <2> QED BY <2>1, <2>2
<1>1. ASSUME UNCHANGED <<index, pending, done, sent, last>>,
             target' \in [Streams \cup Pollers -> Jobs \cup {None}],
             \A s \in Streams : target'[s] = target[s],
             UNCHANGED stream \/ \E j \in Jobs : Wake(j)
      PROVE  StreamInv'
  <2>1. StreamTypes'
    BY <1>1, <1>a DEF StreamInv, StreamTypes, Wake, Live
  <2>2. ASSUME NEW s \in Streams
        PROVE  stream'[s] = stream[s] \/ (stream[s] = "waiting" /\ stream'[s] = "woken")
    <3>1. CASE UNCHANGED stream
      BY <3>1
    <3>2. ASSUME NEW j \in Jobs, Wake(j)
          PROVE  stream'[s] = stream[s] \/ (stream[s] = "waiting" /\ stream'[s] = "woken")
      BY <3>2 DEF Wake
    <3> QED BY <1>1, <3>1, <3>2, Zenon
  <2>3. ASSUME NEW s \in Streams PROVE StreamOf(s)'
    BY <1>1, <1>b, <2>2
  <2> QED BY <2>1, <2>3 DEF StreamInv
<1>2. ASSUME NEW j \in Jobs, Request(j) \/ Emit(j) \/ Thread(j) PROVE StreamInv'
  <2>1. UNCHANGED <<index, pending, done, sent, last, target>>
    BY <1>2, Zenon DEF Request, Thread, Finish, RefusePreflight, Acquire, RefuseBusy, Remember, StartThread,
                Emit, EndWork, SetReport, SetError, SetCode, SetFinished, Release, streamVars
  <2>2. UNCHANGED stream \/ Wake(j)
    BY <1>2, Zenon DEF Request, Thread, Finish, RefusePreflight, Acquire, RefuseBusy, Remember, StartThread,
                Emit, EndWork, SetReport, SetError, SetCode, SetFinished, Release, streamVars
  <2> QED BY <1>1, <2>1, <2>2 DEF StreamInv, StreamTypes
<1>3. ASSUME NEW q \in Pollers, FindJob(q) \/ Status(q) PROVE StreamInv'
  <2>1. UNCHANGED streamVars
    BY <1>3, Zenon DEF FindJob, Status, ReadState, ReadFinished, ReadError, ReadReport, Respond
  <2>2. UNCHANGED target \/ \E t \in Jobs \cup {None} : target' = [target EXCEPT ![q] = t]
    BY <1>3 DEF FindJob, Found, Status, ReadState, ReadFinished, ReadError, ReadReport, Respond
  <2>3. /\ target' \in [Streams \cup Pollers -> Jobs \cup {None}]
        /\ \A s \in Streams : target'[s] = target[s]
    BY <2>2, JobsAssumption DEF StreamInv, StreamTypes
  <2> QED BY <1>1, <2>1, <2>3 DEF streamVars
<1>4. ASSUME Quiet \/ UNCHANGED vars PROVE StreamInv'
  BY <1>1, <1>4 DEF Quiet, vars, streamVars, StreamInv, StreamTypes
(* A step of one stream is a matter of that stream only.                   *)
<1>c. ASSUME NEW s \in Streams, StreamTypes', StreamOf(s)',
             \A t \in Streams \ {s} :
               /\ target'[t] = target[t] /\ stream'[t] = stream[t]
               /\ index'[t] = index[t] /\ pending'[t] = pending[t] /\ done'[t] = done[t]
               /\ sent'[t] = sent[t] /\ last'[t] = last[t]
      PROVE  StreamInv'
  <2>1. ASSUME NEW t \in Streams PROVE StreamOf(t)'
    <3>1. CASE t = s
      BY <1>c, <3>1
    <3>2. CASE t # s
      <4>1. /\ target'[t] = target[t] /\ stream'[t] = stream[t]
            /\ index'[t] = index[t] /\ pending'[t] = pending[t] /\ done'[t] = done[t]
            /\ sent'[t] = sent[t] /\ last'[t] = last[t]
        BY <1>c, <3>2
      <4> QED BY <1>b, <4>1
    <3> QED BY <3>1, <3>2
  <2> QED BY <1>c, <2>1 DEF StreamInv
<1>5. ASSUME NEW s \in Streams, Open(s) PROVE StreamInv'
  <2>1. PICK j \in Jobs : target' = [target EXCEPT ![s] = j]
    BY <1>5 DEF Open, Found
  <2>2. /\ stream[s] = "closed" /\ stream' = [stream EXCEPT ![s] = "poll"]
        /\ UNCHANGED <<events, index, pending, done, sent, last>>
    BY <1>5 DEF Open, jobVars
  <2>3. StreamTypes'
    BY <2>1, <2>2, <1>a DEF StreamInv, StreamTypes, Live
  <2>4. Replayed(s, j)'
    <3>1. index[s] = 0 /\ sent[s] = <<>> /\ pending[s] = <<>> /\ Len(events[j]) \in Nat
      BY <2>2 DEF StreamInv, StreamTypes, StreamOf
    <3> QED BY <2>2, <3>1 DEF Replayed
  <2>5. StreamOf(s)'
    BY <2>1, <2>2, <2>4 DEF StreamInv, StreamTypes, StreamOf, Live
  <2> QED BY <1>c, <2>1, <2>2, <2>3, <2>5 DEF StreamInv, StreamTypes
<1>6. ASSUME NEW s \in Streams, NotFound(s) \/ Disconnect(s) PROVE StreamInv'
  <2>1. StreamTypes'
    <3>1. CASE NotFound(s)
      BY <3>1 DEF NotFound, jobVars, StreamInv, StreamTypes
    <3>2. CASE Disconnect(s)
      BY <3>2, EmptySeq DEF Disconnect, jobVars, StreamInv, StreamTypes
    <3> QED BY <1>6, <3>1, <3>2
  <2>2. stream'[s] \in {"404", "gone"} /\ pending'[s] = <<>>
    BY <1>6 DEF NotFound, Disconnect, StreamInv, StreamTypes, StreamOf
  <2>3. StreamOf(s)'
    BY <2>2 DEF StreamOf, Live
  <2> QED BY <1>6, <1>c, <2>1, <2>3 DEF NotFound, Disconnect, StreamInv, StreamTypes
<1>7. ASSUME NEW s \in Streams, Wait(s) \/ WaitTimesOut(s) PROVE StreamInv'
  <2>1. /\ UNCHANGED <<events, index, pending, done, sent, last, target, finished, ending>>
        /\ stream[s] \in {"poll", "waiting"}
        /\ \E w \in {"waiting", "woken"} : stream' = [stream EXCEPT ![s] = w]
    BY <1>7 DEF Wait, WaitTimesOut, jobVars
  <2>2. StreamTypes'
    BY <2>1 DEF StreamInv, StreamTypes, Live
  <2>3. target[s] \in Jobs /\ Replayed(s, target[s])' /\ pending[s] = <<>>
    BY <2>1 DEF StreamInv, StreamOf, Replayed, Live
  <2>4. StreamOf(s)'
    BY <2>1, <2>3 DEF StreamInv, StreamTypes, StreamOf, Live
  <2> QED BY <1>c, <2>1, <2>2, <2>4 DEF StreamInv, StreamTypes
<1>8. ASSUME NEW s \in Streams, Loop(s) PROVE StreamInv'
  <2>1. /\ UNCHANGED <<events, index, pending, done, sent, last, target, finished, ending>>
        /\ stream[s] = "yield" /\ pending[s] = <<>>
        /\ stream' = [stream EXCEPT ![s] = IF done[s] THEN "tail" ELSE "poll"]
    BY <1>8 DEF Loop, jobVars
  <2>2. StreamTypes'
    BY <2>1 DEF StreamInv, StreamTypes, Live
  <2>3. target[s] \in Jobs /\ Replayed(s, target[s])'
    BY <2>1 DEF StreamInv, StreamOf, Replayed, Live
  <2>4. StreamOf(s)'
    BY <2>1, <2>3 DEF StreamInv, StreamTypes, StreamOf, Live
  <2> QED BY <1>c, <2>1, <2>2, <2>4 DEF StreamInv, StreamTypes
<1>9. ASSUME NEW s \in Streams, SendLast(s) PROVE StreamInv'
  <2> DEFINE j == target[s]
  <2>1. /\ UNCHANGED <<events, index, pending, done, sent, target, finished, ending>>
        /\ stream[s] = "tail" /\ stream' = [stream EXCEPT ![s] = "ended"]
        /\ last' = [last EXCEPT ![s] = IF error[j] THEN <<"error", code[j]>> ELSE <<"result", report[j]>>]
    BY <1>9 DEF SendLast, jobVars
  <2>2. StreamTypes'
    BY <2>1 DEF StreamInv, StreamTypes, Live
  <2>3. j \in Jobs /\ Replayed(s, j)' /\ finished[j] /\ pending[s] = <<>> /\ index[s] = Len(events[j])
    BY <2>1 DEF StreamInv, StreamOf, Replayed, Live
  <2>4. error[j] = ~ending[j].report /\ code[j] = ending[j].code /\ report[j] = ending[j].report
    BY <2>3 DEF OutcomeInv, OutcomeOf, Over, Reported, Errored, Coded
  <2>5. ending[j].report \in BOOLEAN
    BY <2>3, EndingsType DEF OutcomeInv, OutcomeOf, Over
  <2>6. last'[s] = Outcome(j)
    BY <2>1, <2>4, <2>5 DEF StreamInv, StreamTypes, Outcome
  <2>7. StreamOf(s)'
    BY <2>1, <2>3, <2>6 DEF StreamInv, StreamTypes, StreamOf, Live, Outcome
  <2> QED BY <1>c, <2>1, <2>2, <2>7 DEF StreamInv, StreamTypes
<1>10. ASSUME NEW s \in Streams, Take(s) PROVE StreamInv'
  <2> DEFINE j == target[s]
             n == Len(events[j])
             new == SubSeq(events[j], index[s] + 1, n)
  <2>1. /\ UNCHANGED <<events, sent, last, target, finished, ending>>
        /\ stream[s] \in {"woken", "poll"} /\ stream' = [stream EXCEPT ![s] = "yield"]
        /\ pending' = [pending EXCEPT ![s] = new] /\ index' = [index EXCEPT ![s] = n]
        /\ done' = [done EXCEPT ![s] = finished[j]]
    BY <1>10, Zenon DEF Take, jobVars
  <2>2. j \in Jobs /\ Replayed(s, j) /\ pending[s] = <<>>
    BY <2>1 DEF StreamInv, StreamOf, Live
  <2>3. events[j] \in Seq(Nat) /\ n \in Nat /\ Len(sent[s]) \in Nat /\ index[s] = Len(sent[s]) /\ index[s] <= n
    BY <2>2 DEF StreamInv, StreamTypes, Replayed
  <2>4. /\ new \in Seq(Nat) /\ Len(new) = n - index[s]
        /\ \A i \in 1..Len(new) : new[i] = events[j][index[s] + i]
    <3> DEFINE e == events[j]
               m == index[s]
    <3>1. e \in Seq(Nat) /\ m \in Nat /\ m <= Len(e)
      BY <2>3
    <3> HIDE DEF e, m
    <3>2. /\ SubSeq(e, m + 1, Len(e)) \in Seq(Nat) /\ Len(SubSeq(e, m + 1, Len(e))) = Len(e) - m
          /\ \A i \in 1..Len(SubSeq(e, m + 1, Len(e))) : SubSeq(e, m + 1, Len(e))[i] = e[m + i]
      BY <3>1
    <3> QED BY <3>2 DEF e, m
  <2> HIDE DEF new
  <2>5. finished[j] \in BOOLEAN
    BY <2>2 DEF OutcomeInv, OutcomeTypes
  <2>6. StreamTypes'
    BY <2>1, <2>3, <2>4, <2>5 DEF StreamInv, StreamTypes, Live
  <2>7. index'[s] = n /\ pending'[s] = new /\ done'[s] = finished[j] /\ stream'[s] = "yield"
    BY <2>1 DEF StreamInv, StreamTypes
  <2>8. Replayed(s, j)'
    <3>1. events' = events /\ sent' = sent /\ j' = j
      BY <2>1
    <3>2. \A i \in 1..Len(sent[s]) : sent[s][i] = events[j][i]
      BY <2>2 DEF Replayed
    <3>3. \A i \in 1..Len(new) : new[i] = events[j][Len(sent[s]) + i]
      BY <2>3, <2>4, Zenon
    <3>4. n = Len(sent[s]) + Len(new) /\ n <= Len(events[j])
      BY <2>3, <2>4
    <3> HIDE DEF j, n
    <3> QED BY <2>7, <3>1, <3>2, <3>3, <3>4, Zenon DEF Replayed
  <2>9. StreamOf(s)'
    BY <2>1, <2>2, <2>7, <2>8 DEF StreamOf, Live
  <2> QED BY <1>c, <2>1, <2>6, <2>9 DEF StreamInv, StreamTypes
<1>11. ASSUME NEW s \in Streams, Yield(s) PROVE StreamInv'
  <2> DEFINE j == target[s]
             f == sent[s]
             p == pending[s]
  <2>1. /\ UNCHANGED <<events, index, done, stream, last, target, finished, ending>>
        /\ stream[s] = "yield" /\ p # <<>>
        /\ sent' = [sent EXCEPT ![s] = Append(f, Head(p))]
        /\ pending' = [pending EXCEPT ![s] = Tail(p)]
    BY <1>11 DEF Yield, jobVars
  <2>2. j \in Jobs /\ Replayed(s, j) /\ f \in Seq(Nat) /\ p \in Seq(Nat)
    BY <2>1 DEF StreamInv, StreamTypes, StreamOf, Live
  <2>3. /\ Len(p) \in Nat \ {0} /\ Head(p) = p[1] /\ p[1] \in Nat
        /\ Tail(p) \in Seq(Nat) /\ Len(Tail(p)) = Len(p) - 1
        /\ \A i \in 1..Len(Tail(p)) : Tail(p)[i] = p[i + 1]
    <3>1. Len(p) \in Nat \ {0}
      BY <2>1, <2>2, EmptySeq
    <3> QED BY <2>1, <2>2, <3>1, HeadTailProperties
  <2>4. /\ Append(f, p[1]) \in Seq(Nat) /\ Len(Append(f, p[1])) = Len(f) + 1 /\ Len(f) \in Nat
        /\ \A i \in 1..Len(f) : Append(f, p[1])[i] = f[i]
        /\ Append(f, p[1])[Len(f) + 1] = p[1]
    BY <2>2, <2>3
  <2>5. StreamTypes'
    BY <2>1, <2>3, <2>4 DEF StreamInv, StreamTypes
  <2>6. sent'[s] = Append(f, p[1]) /\ pending'[s] = Tail(p)
    BY <2>1, <2>3 DEF StreamInv, StreamTypes
  <2>7. Replayed(s, j)'
    <3>1. /\ index[s] = Len(f) + Len(p) /\ index[s] <= Len(events[j])
          /\ \A i \in 1..Len(f) : f[i] = events[j][i]
          /\ \A i \in 1..Len(p) : p[i] = events[j][Len(f) + i]
      BY <2>2 DEF Replayed
    <3>2. index'[s] = index[s] /\ events' = events
      BY <2>1
    <3> DEFINE g == Append(f, p[1])
               r == Tail(p)
    <3> HIDE DEF f, p, g, r, j
    <3>3. \A i \in 1..Len(g) : g[i] = events[j][i]
      <4> SUFFICES ASSUME NEW i \in 1..Len(g) PROVE g[i] = events[j][i]
        OBVIOUS
      <4>1. CASE i \in 1..Len(f)
        BY <3>1, <2>4, <4>1 DEF g
      <4>2. CASE i = Len(f) + 1
        BY <3>1, <2>3, <2>4, <4>2 DEF g
      <4> QED BY <4>1, <4>2, <2>4 DEF g
    <3>4. \A i \in 1..Len(r) : r[i] = events[j][Len(g) + i]
      <4> SUFFICES ASSUME NEW i \in 1..Len(r) PROVE r[i] = events[j][Len(g) + i]
        OBVIOUS
      <4>1. r[i] = p[i + 1] /\ i + 1 \in 1..Len(p) /\ Len(g) + i = Len(f) + (i + 1)
        BY <2>3, <2>4 DEF r, g
      <4> QED BY <3>1, <4>1
    <3>5. Len(g) + Len(r) = Len(f) + Len(p)
      BY <2>3, <2>4 DEF g, r
    <3>6. /\ sent'[s] = g /\ pending'[s] = r /\ index'[s] = Len(g) + Len(r)
          /\ index'[s] <= Len(events[j]) /\ j' = j
      BY <2>1, <2>6, <3>1, <3>2, <3>5 DEF g, r, f, p, j
    <3> QED BY <3>2, <3>3, <3>4, <3>6, Zenon DEF Replayed
  <2>8. StreamOf(s)'
    BY <2>1, <2>2, <2>7 DEF StreamInv, StreamOf, Live
  <2> QED BY <1>c, <2>1, <2>5, <2>8 DEF StreamInv, StreamTypes
<1> QED BY <1>2, <1>3, <1>4, <1>5, <1>6, <1>7, <1>8, <1>9, <1>10, <1>11, Zenon DEF Next, Generator

LEMMA StreamInvariant == Spec => []StreamInv
<1>1. StreamInv /\ OutcomeInv /\ LockInv /\ [Next]_vars => StreamInv'
  BY NextStreamInv
<1> QED BY InitStreamInv, <1>1, OutcomeInvariant, LockInvariant, PTL DEF Spec

(* Every stream replays its run from the first event, however late it      *)
(* connected and whatever is appended while it waits or is suspended, and  *)
(* ends with the outcome of the run (server.py 192-217).                   *)
THEOREM StreamsReplay == Spec => []StreamReplaysRun
<1>1. OutcomeInv /\ StreamInv => StreamReplaysRun
  <2> SUFFICES ASSUME OutcomeInv, StreamInv, NEW s \in Streams
               PROVE  /\ stream[s] \in Live => IsPrefix(sent[s], events[target[s]])
                      /\ stream[s] = "ended" =>
                           /\ sent[s] = events[target[s]] /\ runner[target[s]] \in Over
                           /\ last[s] = Outcome(target[s])
    BY DEF StreamReplaysRun, Outcome, Over
  <2> SUFFICES ASSUME stream[s] \in Live \cup {"ended"}
               PROVE  /\ IsPrefix(sent[s], events[target[s]])
                      /\ stream[s] = "ended" =>
                           /\ sent[s] = events[target[s]] /\ runner[target[s]] \in Over
                           /\ last[s] = Outcome(target[s])
    BY DEF Live
  <2> DEFINE f == sent[s]
             e == events[target[s]]
  <2>1. target[s] \in Jobs /\ Replayed(s, target[s]) /\ f \in Seq(Nat) /\ e \in Seq(Nat)
    BY DEF StreamInv, StreamTypes, StreamOf
  <2>2. /\ Len(f) \in Nat /\ Len(e) \in Nat /\ Len(f) <= Len(e) /\ f \in Seq(Nat) /\ e \in Seq(Nat)
        /\ \A i \in 1..Len(f) : f[i] = e[i]
    <3>1. Len(f) \in Nat /\ Len(e) \in Nat /\ Len(pending[s]) \in Nat
      BY <2>1 DEF StreamInv, StreamTypes
    <3>2. /\ index[s] = Len(f) + Len(pending[s]) /\ index[s] <= Len(e)
          /\ \A i \in 1..Len(f) : f[i] = e[i]
      BY <2>1, Zenon DEF Replayed
    <3>3. index[s] \in Nat
      BY DEF StreamInv, StreamTypes
    <3> HIDE DEF f, e
    <3> QED BY <2>1, <3>1, <3>2, <3>3
  <2>3. IsPrefix(f, e)
    <3> HIDE DEF f, e
    <3> DEFINE a == SubSeq(f, 1, Len(f))
               b == SubSeq(e, 1, Len(f))
    <3>1. a \in Seq(Nat) /\ Len(a) = Len(f) /\ \A i \in 1..Len(a) : a[i] = f[i]
      BY <2>2
    <3>2. b \in Seq(Nat) /\ Len(b) = Len(f) /\ \A i \in 1..Len(b) : b[i] = e[i]
      BY <2>2
    <3> HIDE DEF a, b
    <3>3. Len(a) = Len(b) /\ \A i \in 1..Len(a) : a[i] = b[i]
      BY <2>2, <3>1, <3>2
    <3>4. a = b
      BY <3>1, <3>2, <3>3, SeqEqual
    <3> QED BY <2>2, <3>4 DEF IsPrefix, a, b
  <2>4. ASSUME stream[s] = "ended"
        PROVE  f = e /\ runner[target[s]] \in Over /\ last[s] = Outcome(target[s])
    <3>1. /\ finished[target[s]] /\ index[s] = Len(e) /\ pending[s] = <<>>
          /\ last[s] = Outcome(target[s])
      BY <2>4 DEF StreamInv, StreamOf
    <3>2. Len(f) = Len(e)
      BY <2>1, <2>2, <3>1 DEF Replayed
    <3>3. f = e
      BY <2>2, <3>2, SeqEqual
    <3> QED BY <2>1, <3>1, <3>3 DEF OutcomeInv, OutcomeOf
  <2> QED BY <2>3, <2>4
<1> QED BY <1>1, OutcomeInvariant, StreamInvariant, PTL

(* Every variable keeps its type (server.py 130-296).                      *)
THEOREM TypeCorrect == Spec => []TypeOK
<1>1. LockInv /\ OutcomeInv /\ AnswerInv /\ StreamInv => TypeOK
  BY DEF TypeOK, LockInv, LockTypes, OutcomeInv, OutcomeTypes, AnswerInv, AnswerTypes, StreamInv, StreamTypes
<1> QED BY <1>1, LockInvariant, OutcomeInvariant, AnswerInvariant, StreamInvariant, PTL
===============================================================================
