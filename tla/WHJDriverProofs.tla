--------------------------- MODULE WHJDriverProofs ---------------------------
(***************************************************************************)
(* Theorems about the driver, for every set of motors, threads, registers  *)
(* and calls and every retry count, in three parts: the engine without a   *)
(* condition on timing or sharing; the engine for callers that do not      *)
(* share motors; and the results of the reading calls.                     *)
(***************************************************************************)
EXTENDS DriverResults, TLAPS

\* The access a thread is at inside a call is a legal one.
LEMMA CurType ==
    ASSUME TypeOK, NEW t \in Threads, Busy(t)
    PROVE  /\ task[t] \in Calls[t]
           /\ task[t] \in Seq(Steps)
           /\ step[t] \in 1 .. Len(task[t])
           /\ Cur(t) \in Steps
           /\ Request(Cur(t)) \in Requests
<1>1. task[t] \in Calls[t] /\ step[t] \in DOMAIN task[t] /\ task[t] \in Seq(Steps)
  BY DEF TypeOK, Busy
<1>2. Cur(t) \in Steps /\ step[t] \in 1 .. Len(task[t])
  BY <1>1 DEF Cur
<1>3. \A i \in 1 .. Cur(t).count : Cur(t).reg + i - 1 \in Regs
  BY <1>1, DriverAssumption DEF Cur
<1> QED
  BY <1>1, <1>2, <1>3 DEF Request, Requests, Steps

\* A batch read inside the register file yields a sequence of values.
LEMMA SnapshotType ==
    ASSUME NEW rf \in RegFiles, NEW q \in Requests
    PROVE  /\ Snapshot(rf, q.reg, q.count) \in Seq(Vals)
           /\ Len(Snapshot(rf, q.reg, q.count)) = q.count
<1>1. q.count \in Nat /\ \A i \in 1 .. q.count : q.reg + i - 1 \in Regs
  BY DEF Requests
<1>2. \A i \in 1 .. q.count : rf[q.reg + i - 1] \in Vals
  BY <1>1 DEF RegFiles
<1> DEFINE f(i) == rf[q.reg + i - 1]
<1>3. \A i \in 1 .. q.count : f(i) \in Vals
  BY <1>2
<1> HIDE DEF f
<1>4. [i \in 1 .. q.count |-> f(i)] \in Seq(Vals) /\ Len([i \in 1 .. q.count |-> f(i)]) = q.count
  BY <1>1, <1>3
<1> QED
  BY <1>4 DEF Snapshot, f

LEMMA InitType == Init => TypeOK
<1> SUFFICES ASSUME Init PROVE TypeOK
  OBVIOUS
<1>1. regs \in [Motors -> RegFiles]
  BY DriverAssumption DEF Init, RegFiles
<1>2. past \in [Motors -> SUBSET RegFiles]
  BY <1>1 DEF Init
<1>3. /\ task \in [Threads -> Seq(Steps)]
      /\ got \in [Threads -> Seq(Seq(Vals) \cup {NoVals})]
      /\ \A t \in Threads : DOMAIN got[t] = DOMAIN task[t]
  BY DEF Init
<1>4. /\ requests \in [Motors -> Seq(Requests)]
      /\ replies \in [Motors -> Seq(Replies)]
      /\ responses \in [Motors -> Replies \cup {NoFrame}]
  BY DEF Init
<1>5. /\ retry \in [Threads -> 0 .. MaxRetries]
      /\ step \in [Threads -> Nat]
      /\ retry_count \in 0 .. MaxRetries
  BY DriverAssumption DEF Init
<1>6. /\ initialized \in BOOLEAN /\ open \in BOOLEAN
      /\ pc \in [Threads -> {"idle", "enter", "loop", "send", "wait"}]
      /\ outcome \in [Threads -> {"none", "busy", "ok", "failed"}]
      /\ done \in [Threads -> SUBSET Nat]
      /\ sample \in [Threads -> Seq(Vals) \cup {NoVals}]
      /\ \A t \in Threads : pc[t] = "idle"
  BY DEF Init
<1> QED
  BY <1>1, <1>2, <1>3, <1>4, <1>5, <1>6 DEF TypeOK

\* A thread leaves an access: for the next one, or out of the call.
LEMMA FinishType ==
    ASSUME TypeOK, NEW t \in Threads, NEW result \in {"ok", "failed"}, Finish(t, result)
    PROVE  /\ pc' \in [Threads -> {"idle", "enter", "loop", "send", "wait"}]
           /\ outcome' \in [Threads -> {"none", "busy", "ok", "failed"}]
           /\ task' = task /\ step' = step /\ retry' = retry
           /\ pc'[t] = "idle"
           /\ \A u \in Threads : u # t => pc'[u] = pc[u]
BY DEF Finish, TypeOK

LEMMA ProceedType ==
    ASSUME TypeOK, NEW t \in Threads, Busy(t), Proceed(t)
    PROVE  /\ pc' \in [Threads -> {"idle", "enter", "loop", "send", "wait"}]
           /\ outcome' \in [Threads -> {"none", "busy", "ok", "failed"}]
           /\ step' \in [Threads -> Nat]
           /\ task' = task /\ retry' = retry
           /\ pc'[t] \in {"idle", "enter"}
           /\ pc'[t] # "idle" => step'[t] \in DOMAIN task[t]
           /\ \A u \in Threads : u # t => pc'[u] = pc[u] /\ step'[u] = step[u]
<1>1. step[t] \in 1 .. Len(task[t]) /\ task[t] \in Seq(Steps)
  BY CurType
<1>2. CASE step[t] = Len(task[t])
  BY <1>2, FinishType DEF Proceed, TypeOK
<1>3. CASE step[t] # Len(task[t])
  <2>1. step[t] + 1 \in DOMAIN task[t]
    BY <1>1, <1>3
  <2>2. /\ pc' = [pc EXCEPT ![t] = "enter"]
        /\ step' = [step EXCEPT ![t] = step[t] + 1]
        /\ UNCHANGED <<task, retry, outcome>>
    BY <1>3 DEF Proceed
  <2>3. step' \in [Threads -> Nat] /\ step'[t] = step[t] + 1
    BY <2>2 DEF TypeOK
  <2> QED
    BY <2>1, <2>2, <2>3 DEF TypeOK
<1> QED
  BY <1>2, <1>3

LEMMA AccessFailsType ==
    ASSUME TypeOK, NEW t \in Threads, Busy(t), AccessFails(t),
           UNCHANGED <<driverVars, requests, replies, regs, past, done>>,
           responses' \in [Motors -> Replies \cup {NoFrame}]
    PROVE  TypeOK'
<1>1. \/ Finish(t, "failed") \/ Proceed(t)
  BY DEF AccessFails
<1>2. sample' \in [Threads -> Seq(Vals) \cup {NoVals}] /\ got' = got
  BY DEF AccessFails, TypeOK
<1>3. CASE Finish(t, "failed")
  BY <1>2, <1>3, FinishType DEF TypeOK, driverVars
<1>4. CASE Proceed(t)
  BY <1>2, <1>4, ProceedType, CurType DEF TypeOK, driverVars
<1> QED
  BY <1>1, <1>3, <1>4

LEMMA AccessSucceedsType ==
    ASSUME TypeOK, NEW t \in Threads, Busy(t),
           NEW vals \in Seq(Vals) \cup {NoVals}, AccessSucceeds(t, vals),
           UNCHANGED <<driverVars, requests, replies, regs, past, done>>,
           responses' \in [Motors -> Replies \cup {NoFrame}]
    PROVE  TypeOK'
<1>1. sample' \in [Threads -> Seq(Vals) \cup {NoVals}]
  BY DEF AccessSucceeds, TypeOK
<1>2. /\ got' \in [Threads -> Seq(Seq(Vals) \cup {NoVals})]
      /\ \A u \in Threads : DOMAIN got'[u] = DOMAIN got[u]
  <2>1. got[t] \in Seq(Seq(Vals) \cup {NoVals}) /\ step[t] \in DOMAIN got[t]
    BY CurType DEF TypeOK
  <2>2. [got[t] EXCEPT ![step[t]] = vals] \in Seq(Seq(Vals) \cup {NoVals})
    BY <2>1
  <2>3. got' = [got EXCEPT ![t] = [got[t] EXCEPT ![step[t]] = vals]]
    BY DEF AccessSucceeds
  <2> QED
    BY <2>1, <2>2, <2>3 DEF TypeOK
<1>3. Proceed(t)
  BY DEF AccessSucceeds
<1>4. /\ pc' \in [Threads -> {"idle", "enter", "loop", "send", "wait"}]
      /\ outcome' \in [Threads -> {"none", "busy", "ok", "failed"}]
      /\ step' \in [Threads -> Nat]
      /\ task' = task /\ retry' = retry
  BY <1>3, ProceedType
<1>5. ASSUME NEW u \in Threads
      PROVE  /\ pc'[u] # "idle" => task'[u] \in Calls[u] /\ step'[u] \in DOMAIN task'[u]
             /\ pc'[u] \in {"send", "wait"} => retry'[u] < MaxRetries
             /\ DOMAIN got'[u] = DOMAIN task'[u]
  <2>1. CASE u = t
    BY <1>2, <1>3, <2>1, ProceedType, CurType DEF TypeOK
  <2>2. CASE u # t
    BY <1>2, <1>3, <2>2, ProceedType DEF TypeOK
  <2> QED
    BY <2>1, <2>2
<1> QED
  BY <1>1, <1>2, <1>4, <1>5 DEF TypeOK, driverVars

LEMMA AgainType ==
    ASSUME TypeOK, NEW t \in Threads, pc[t] \in {"send", "wait"}, Again(t),
           UNCHANGED <<driverVars, requests, replies, regs, past, done>>,
           responses' \in [Motors -> Replies \cup {NoFrame}]
    PROVE  TypeOK'
<1>1. retry[t] + 1 \in 0 .. MaxRetries
  BY DriverAssumption DEF TypeOK
<1>2. retry' \in [Threads -> 0 .. MaxRetries]
  BY <1>1 DEF Again, TypeOK
<1>3. /\ pc' \in [Threads -> {"idle", "enter", "loop", "send", "wait"}]
      /\ pc'[t] = "loop"
      /\ \A u \in Threads : u # t => pc'[u] = pc[u] /\ retry'[u] = retry[u]
  BY DEF Again, TypeOK
<1> QED
  BY <1>2, <1>3 DEF Again, TypeOK, driverVars

LEMMA StartCallType ==
    ASSUME TypeOK, NEW t \in Threads, StartCall(t)
    PROVE  TypeOK'
<1>1. PICK c \in Calls[t] :
        /\ task' = [task EXCEPT ![t] = c]
        /\ got' = [got EXCEPT ![t] = [s \in DOMAIN c |-> NoVals]]
  BY DEF StartCall
<1>2. c \in Seq(Steps) /\ c # << >>
  BY DriverAssumption
<1>3. 1 \in DOMAIN c
  BY <1>2
<1>4. [s \in DOMAIN c |-> NoVals] \in Seq(Seq(Vals) \cup {NoVals})
  BY <1>2
<1>5. /\ task' \in [Threads -> Seq(Steps)]
      /\ got' \in [Threads -> Seq(Seq(Vals) \cup {NoVals})]
  BY <1>1, <1>2, <1>4 DEF TypeOK
<1>6. /\ pc' \in [Threads -> {"idle", "enter", "loop", "send", "wait"}]
      /\ step' \in [Threads -> Nat]
      /\ outcome' \in [Threads -> {"none", "busy", "ok", "failed"}]
      /\ done' \in [Threads -> SUBSET Nat]
      /\ sample' \in [Threads -> Seq(Vals) \cup {NoVals}]
  BY DEF StartCall, TypeOK
<1>7. ASSUME NEW u \in Threads
      PROVE  /\ pc'[u] # "idle" => task'[u] \in Calls[u] /\ step'[u] \in DOMAIN task'[u]
             /\ pc'[u] \in {"send", "wait"} => retry'[u] < MaxRetries
             /\ DOMAIN got'[u] = DOMAIN task'[u]
  BY <1>1, <1>3 DEF StartCall, TypeOK
<1>8. UNCHANGED <<driverVars, responses, retry, requests, replies, regs, past>>
  BY DEF StartCall
<1> QED
  BY <1>5, <1>6, <1>7, <1>8 DEF TypeOK, driverVars

LEMMA CallerType ==
    ASSUME TypeOK, NEW t \in Threads, CallerStep(t)
    PROVE  TypeOK'
<1>1. CASE Enter(t)
  <2>1. CASE initialized
    <3>1. /\ pc' = [pc EXCEPT ![t] = "loop"]
          /\ retry' = [retry EXCEPT ![t] = 0]
          /\ UNCHANGED <<initialized, open, retry_count, task, step, got, outcome,
                         sample, responses, requests, replies, regs, past, done>>
      BY <1>1, <2>1 DEF Enter, driverVars
    <3>2. /\ pc' \in [Threads -> {"idle", "enter", "loop", "send", "wait"}]
          /\ retry' \in [Threads -> 0 .. MaxRetries]
      BY <3>1, DriverAssumption DEF TypeOK
    <3>3. \A u \in Threads : IF u = t THEN pc'[u] = "loop" /\ pc[u] # "idle"
                                       ELSE pc'[u] = pc[u] /\ retry'[u] = retry[u]
      BY <1>1, <3>1 DEF Enter, TypeOK
    <3> QED
      BY <3>1, <3>2, <3>3 DEF TypeOK
  <2>2. CASE ~initialized
    BY <1>1, <2>2, AccessFailsType DEF Enter, Busy, TypeOK
  <2> QED
    BY <2>1, <2>2
<1>2. CASE BeginAttempt(t)
  <2>1. /\ pc' = [pc EXCEPT ![t] = "send"]
        /\ pc[t] = "loop" /\ ~(retry[t] >= retry_count)
        /\ responses' = [responses EXCEPT ![Cur(t).motor] = NoFrame]
        /\ UNCHANGED <<initialized, open, retry_count, task, step, retry, got, outcome,
                       sample, requests, replies, regs, past, done>>
    BY <1>2 DEF BeginAttempt, Exhausted, Erase, driverVars, historyVars
  <2>2. retry[t] < MaxRetries
    BY <2>1, DriverAssumption DEF TypeOK
  <2>3. responses' \in [Motors -> Replies \cup {NoFrame}]
    BY <2>1 DEF TypeOK
  <2>4. pc' \in [Threads -> {"idle", "enter", "loop", "send", "wait"}]
    BY <2>1 DEF TypeOK
  <2>5. \A u \in Threads : IF u = t THEN pc'[u] = "send" ELSE pc'[u] = pc[u]
    BY <2>1 DEF TypeOK
  <2> QED
    BY <2>1, <2>2, <2>3, <2>4, <2>5 DEF TypeOK
<1>3. CASE GiveUp(t)
  BY <1>3, AccessFailsType DEF GiveUp, Busy, TypeOK
<1>4. CASE Send(t)
  <2>1. requests' \in [Motors -> Seq(Requests)]
    <3>1. Request(Cur(t)) \in Requests /\ Cur(t).motor \in Motors
      BY <1>4, CurType DEF Send, Busy, Steps
    <3>2. requests[Cur(t).motor] \in Seq(Requests)
      BY <3>1 DEF TypeOK
    <3>3. Append(requests[Cur(t).motor], Request(Cur(t))) \in Seq(Requests)
      BY <3>1, <3>2
    <3> QED
      BY <1>4, <3>3 DEF Send, TypeOK
  <2>2. /\ pc' = [pc EXCEPT ![t] = "wait"]
        /\ pc[t] = "send"
        /\ UNCHANGED <<initialized, open, retry_count, task, step, retry, got, outcome,
                       sample, responses, replies, regs, past, done>>
    BY <1>4 DEF Send, driverVars, historyVars
  <2>3. pc' \in [Threads -> {"idle", "enter", "loop", "send", "wait"}]
    BY <2>2 DEF TypeOK
  <2>4. \A u \in Threads : IF u = t THEN pc'[u] = "wait" ELSE pc'[u] = pc[u]
    BY <2>2 DEF TypeOK
  <2> QED
    BY <2>1, <2>2, <2>3, <2>4 DEF TypeOK
<1>5. CASE SendFails(t)
  BY <1>5, AgainType DEF SendFails, TypeOK
<1>6. CASE Take(t)
  <2>1. /\ Busy(t)
        /\ Cur(t).motor \in Motors
        /\ responses[Cur(t).motor] \in Replies
    BY <1>6, CurType DEF Take, Busy, Steps, TypeOK
  <2>2. responses' \in [Motors -> Replies \cup {NoFrame}]
    BY <1>6 DEF Take, Erase, TypeOK
  <2>3. /\ responses[Cur(t).motor].vals \in Seq(Vals)
        /\ UNCHANGED <<driverVars, requests, replies, regs, past, done>>
    BY <1>6, <2>1 DEF Take, Replies
  <2>4. \/ Again(t)
        \/ AccessSucceeds(t, NoVals)
        \/ AccessSucceeds(t, responses[Cur(t).motor].vals)
        \/ AccessFails(t)
    BY <1>6 DEF Take
  <2> QED
    BY <1>6, <2>1, <2>2, <2>3, <2>4, AgainType, AccessSucceedsType, AccessFailsType
    DEF Take
<1>7. CASE Timeout(t)
  BY <1>7, AgainType DEF Timeout, TypeOK
<1> QED
  BY <1>1, <1>2, <1>3, <1>4, <1>5, <1>6, <1>7 DEF CallerStep

LEMMA ReplyType ==
    ASSUME TypeOK, NEW m \in Motors, NEW f \in Replies, Reply(m, f)
    PROVE  replies' \in [Motors -> Seq(Replies)]
<1>1. Append(replies[m], f) \in Seq(Replies) /\ replies[m] \in Seq(Replies)
  BY DEF TypeOK
<1> QED
  BY <1>1 DEF Reply, TypeOK

LEMMA MotorType ==
    ASSUME TypeOK, NEW m \in Motors, MotorStep(m)
    PROVE  TypeOK'
<1> DEFINE q == Head(requests[m])
<1>1. /\ requests[m] \in Seq(Requests) /\ requests[m] # << >>
      /\ requests' = [requests EXCEPT ![m] = Tail(requests[m])]
  BY DEF MotorStep, MotorReads, MotorWrites, MotorRefuses, LoseRequest, TypeOK
<1>2. q \in Requests /\ q.reg \in Regs /\ q.val \in Vals
      /\ requests' \in [Motors -> Seq(Requests)]
  <2>1. q \in Requests /\ Tail(requests[m]) \in Seq(Requests)
    BY <1>1
  <2>2. q.reg \in Regs /\ q.val \in Vals
    BY <2>1 DEF Requests
  <2> QED
    BY <1>1, <2>1, <2>2 DEF TypeOK
<1>3. regs[m] \in RegFiles
  BY DEF TypeOK
<1> HIDE DEF q
<1>4. CASE MotorReads(m)
  <2>1. ReadReply(regs[m], q) \in Replies
    BY <1>2, <1>3, SnapshotType DEF ReadReply, Replies
  <2>2. replies' \in [Motors -> Seq(Replies)]
    BY <1>4, <2>1, ReplyType DEF MotorReads, q
  <2>3. sample' \in [Threads -> Seq(Vals) \cup {NoVals}]
    <3>1. Snapshot(regs[m], q.reg, q.count) \in Seq(Vals)
      BY <1>2, <1>3, SnapshotType
    <3> QED
      BY <1>4, <3>1 DEF MotorReads, TypeOK, q
  <2>4. UNCHANGED <<initialized, open, retry_count, pc, task, step, retry, got, outcome,
                    responses, regs, past, done>>
    BY <1>4 DEF MotorReads, driverVars, threadVars
  <2> QED
    BY <1>2, <2>2, <2>3, <2>4 DEF TypeOK
<1>5. CASE MotorWrites(m)
  <2>1. WriteReply(q, TRUE) \in Replies
    BY <1>2 DEF WriteReply, Replies
  <2>2. replies' \in [Motors -> Seq(Replies)]
    BY <1>5, <2>1, ReplyType DEF MotorWrites, q
  <2>3. [regs[m] EXCEPT ![q.reg] = q.val] \in RegFiles
    BY <1>2, <1>3 DEF RegFiles
  <2>4. regs' \in [Motors -> RegFiles] /\ past' \in [Motors -> SUBSET RegFiles]
    BY <1>5, <2>3 DEF MotorWrites, TypeOK, q
  <2>5. done' \in [Threads -> SUBSET Nat]
    BY <1>5 DEF MotorWrites, TypeOK
  <2>6. UNCHANGED <<initialized, open, retry_count, pc, task, step, retry, got, outcome,
                    responses, sample>>
    BY <1>5 DEF MotorWrites, driverVars, threadVars
  <2> QED
    BY <1>2, <2>2, <2>4, <2>5, <2>6 DEF TypeOK
<1>6. CASE MotorRefuses(m)
  <2>1. ErrorReply(q) \in Replies /\ WriteReply(q, FALSE) \in Replies
    BY <1>2 DEF ErrorReply, WriteReply, Replies
  <2>2. Reply(m, ErrorReply(q)) \/ Reply(m, WriteReply(q, FALSE))
    BY <1>6 DEF MotorRefuses, q
  <2>3. replies' \in [Motors -> Seq(Replies)]
    BY <2>1, <2>2, ReplyType
  <2>4. UNCHANGED <<initialized, open, retry_count, pc, task, step, retry, got, outcome,
                    responses, regs, past, done, sample>>
    BY <1>6 DEF MotorRefuses, driverVars, threadVars, historyVars
  <2> QED
    BY <1>2, <2>3, <2>4 DEF TypeOK
<1>7. CASE LoseRequest(m)
  <2>1. UNCHANGED <<initialized, open, retry_count, pc, task, step, retry, got, outcome,
                    responses, replies, regs, past, done, sample>>
    BY <1>7 DEF LoseRequest, driverVars, threadVars, historyVars
  <2> QED
    BY <1>2, <2>1 DEF TypeOK
<1> QED
  BY <1>4, <1>5, <1>6, <1>7 DEF MotorStep

LEMMA ReceiveType ==
    ASSUME TypeOK, NEW m \in Motors, ReceiveStep(m)
    PROVE  TypeOK'
<1>1. /\ replies[m] \in Seq(Replies) /\ replies[m] # << >>
      /\ replies' = [replies EXCEPT ![m] = Tail(replies[m])]
  BY DEF ReceiveStep, HandleResponse, LoseReply, TypeOK
<1>2. Head(replies[m]) \in Replies /\ replies' \in [Motors -> Seq(Replies)]
  BY <1>1 DEF TypeOK
<1>3. responses' \in [Motors -> Replies \cup {NoFrame}]
  BY <1>2 DEF ReceiveStep, HandleResponse, LoseReply, TypeOK
<1>4. UNCHANGED <<initialized, open, retry_count, pc, task, step, retry, got, outcome,
                  requests, regs, past, done, sample>>
  BY DEF ReceiveStep, HandleResponse, LoseReply, driverVars, threadVars, historyVars
<1> QED
  BY <1>2, <1>3, <1>4 DEF TypeOK

LEMMA EvolveType ==
    ASSUME TypeOK, NEW m \in Motors, MotorEvolves(m)
    PROVE  TypeOK'
<1>1. PICK r \in Sensors, v \in Vals :
        /\ regs' = [regs EXCEPT ![m] = [regs[m] EXCEPT ![r] = v]]
        /\ past' = [past EXCEPT ![m] = past[m] \cup {[regs[m] EXCEPT ![r] = v]}]
  BY DEF MotorEvolves
<1>2. [regs[m] EXCEPT ![r] = v] \in RegFiles
  BY DriverAssumption DEF TypeOK, RegFiles
<1>3. regs' \in [Motors -> RegFiles] /\ past' \in [Motors -> SUBSET RegFiles]
  BY <1>1, <1>2 DEF TypeOK
<1>4. UNCHANGED <<initialized, open, retry_count, pc, task, step, retry, got, outcome,
                  responses, requests, replies, done, sample>>
  BY DEF MotorEvolves, driverVars, threadVars
<1> QED
  BY <1>3, <1>4 DEF TypeOK

LEMMA ControlType ==
    ASSUME TypeOK, InitDriver \/ Deinit \/ SetRetryCount
    PROVE  TypeOK'
<1>1. UNCHANGED <<pc, task, step, retry, got, outcome, responses, requests, regs,
                  past, done, sample>>
  BY DEF InitDriver, Deinit, SetRetryCount, threadVars, historyVars
<1>2. /\ initialized' \in BOOLEAN /\ open' \in BOOLEAN
      /\ retry_count' \in 0 .. MaxRetries
  <2>1. RetryCounts \subseteq 0 .. MaxRetries
    BY DriverAssumption
  <2> QED
    BY <2>1 DEF InitDriver, Deinit, SetRetryCount, TypeOK
<1>3. replies' \in [Motors -> Seq(Replies)]
  <2>1. << >> \in Seq(Replies)
    OBVIOUS
  <2>2. replies' = replies \/ replies' = [m \in Motors |-> << >>]
    BY DEF InitDriver, Deinit, SetRetryCount
  <2> QED
    BY <2>1, <2>2 DEF TypeOK
<1> QED
  BY <1>1, <1>2, <1>3 DEF TypeOK

(***************************************************************************)
(* Type correctness of the engine.                                         *)
(***************************************************************************)
THEOREM TypeCorrect == Spec => []TypeOK
<1>1. TypeOK /\ [Next]_vars => TypeOK'
  <2> SUFFICES ASSUME TypeOK, [Next]_vars PROVE TypeOK'
    OBVIOUS
  <2>1. CASE Next
    BY <2>1, StartCallType, CallerType, MotorType, ReceiveType, EvolveType, ControlType
    DEF Next
  <2>2. CASE UNCHANGED vars
    BY <2>2 DEF vars, driverVars, threadVars, historyVars, TypeOK
  <2> QED
    BY <2>1, <2>2
<1> QED
  BY InitType, <1>1, PTL DEF Spec

-----------------------------------------------------------------------------
(***************************************************************************)
(* ReadProvenance is not inductive by itself: it needs to be known that    *)
(* every read answer on its way to a caller, on the bus or stored in       *)
(* responses_, was true of the motor at some instant.                      *)
(***************************************************************************)
FrameHeld(m, f) == f.cmd = "read" => HeldIn(past[m], f.reg, f.vals)

ReadInv ==
    /\ \A m \in Motors : regs[m] \in past[m]
    /\ \A m \in Motors : responses[m] # NoFrame => FrameHeld(m, responses[m])
    /\ \A m \in Motors : \A i \in 1 .. Len(replies[m]) : FrameHeld(m, replies[m][i])
    /\ ReadProvenance

\* Nothing a register file has held is ever forgotten.
PastGrows == \A m \in Motors : past[m] \subseteq past'[m]

LEMMA HeldInMonotone ==
    ASSUME NEW P, NEW Q, P \subseteq Q, NEW reg, NEW vals, HeldIn(P, reg, vals)
    PROVE  HeldIn(Q, reg, vals)
BY DEF HeldIn

\* The part of ReadInv about frames and files survives a step that only moves
\* or drops frames.
LEMMA FramesKept ==
    ASSUME ReadInv, UNCHANGED <<regs, past>>,
           \A m \in Motors : responses'[m] \in {responses[m], NoFrame},
           \/ replies' = replies
           \/ \A m \in Motors : replies'[m] = << >>
    PROVE  /\ (\A m \in Motors : regs[m] \in past[m])'
           /\ (\A m \in Motors : responses[m] # NoFrame => FrameHeld(m, responses[m]))'
           /\ (\A m \in Motors : \A i \in 1 .. Len(replies[m]) : FrameHeld(m, replies[m][i]))'
BY DEF ReadInv, FrameHeld

\* The part about returned values survives a step that returns none.
LEMMA ProvenanceKept ==
    ASSUME TypeOK, ReadInv, PastGrows, UNCHANGED <<got, task>>
    PROVE  ReadProvenance'
<1> SUFFICES ASSUME NEW t \in Threads, NEW s \in DOMAIN got[t], got[t][s] # NoVals
             PROVE  HeldIn(past'[task[t][s].motor], task[t][s].reg, got[t][s])
  BY DEF ReadProvenance
<1>1. HeldIn(past[task[t][s].motor], task[t][s].reg, got[t][s])
  BY DEF ReadInv, ReadProvenance
<1>2. task[t][s].motor \in Motors
  <2>1. task[t] \in Seq(Steps) /\ s \in DOMAIN task[t]
    BY DEF TypeOK
  <2>2. task[t][s] \in Steps
    BY <2>1
  <2> QED
    BY <2>2 DEF Steps
<1> QED
  BY <1>1, <1>2, HeldInMonotone DEF PastGrows

\* A call that takes a read answer takes a true one.
LEMMA TakeProvenance ==
    ASSUME TypeOK, ReadInv, NEW t \in Threads, Take(t)
    PROVE  ReadProvenance'
<1> DEFINE s == Cur(t)
           f == responses[s.motor]
<1>1. /\ Busy(t) /\ s \in Steps /\ s.motor \in Motors
      /\ step[t] \in DOMAIN task[t] /\ DOMAIN got[t] = DOMAIN task[t]
      /\ f # NoFrame /\ past' = past
  BY CurType DEF Take, Busy, Steps, TypeOK
<1>2. CASE UNCHANGED <<got, task>>
  BY <1>1, <1>2, ProvenanceKept DEF PastGrows
<1>3. CASE ~UNCHANGED <<got, task>>
  <2>1. /\ task' = task
        /\ \/ Accepted(f, s) /\ s.cmd = "read"
              /\ got' = [got EXCEPT ![t] = [got[t] EXCEPT ![step[t]] = f.vals]]
           \/ got' = [got EXCEPT ![t] = [got[t] EXCEPT ![step[t]] = NoVals]]
    <3>1. \/ Again(t)
          \/ AccessSucceeds(t, NoVals)
          \/ Accepted(f, s) /\ s.cmd # "write" /\ AccessSucceeds(t, f.vals)
          \/ AccessFails(t)
      BY DEF Take
    <3>2. s.cmd # "write" => s.cmd = "read"
      BY <1>1 DEF Steps
    <3> HIDE DEF s, f
    <3>3. Proceed(t) => task' = task
      BY DEF Proceed, Finish
    <3>4. ~Again(t) /\ ~AccessFails(t)
      BY <1>3, <3>3 DEF Again, AccessFails, Finish
    <3> QED
      BY <3>1, <3>2, <3>3, <3>4 DEF AccessSucceeds
  <2>2. Accepted(f, s) /\ s.cmd = "read" => HeldIn(past[s.motor], s.reg, f.vals)
    BY <1>1 DEF Accepted, ReadInv, FrameHeld
  <2> SUFFICES ASSUME NEW u \in Threads, NEW r \in DOMAIN got'[u], got'[u][r] # NoVals
               PROVE  HeldIn(past[task[u][r].motor], task[u][r].reg, got'[u][r])
    BY <1>1, <2>1 DEF ReadProvenance
  <2>3. CASE u = t /\ r = step[t]
    <3>1. got'[u][r] = f.vals /\ Accepted(f, s) /\ s.cmd = "read"
      BY <1>1, <2>1, <2>3 DEF TypeOK
    <3> QED
      BY <2>2, <2>3, <3>1 DEF Cur
  <2>4. CASE ~(u = t /\ r = step[t])
    <3>1. r \in DOMAIN got[u] /\ got'[u][r] = got[u][r]
      BY <1>1, <2>1, <2>4 DEF TypeOK
    <3> QED
      BY <3>1 DEF ReadInv, ReadProvenance
  <2> QED
    BY <2>3, <2>4
<1> QED
  BY <1>2, <1>3

LEMMA CallerKeepsReadInv ==
    ASSUME TypeOK, ReadInv, NEW t \in Threads, CallerStep(t)
    PROVE  ReadInv'
<1>1. UNCHANGED <<regs, past, replies>>
  BY DEF CallerStep, Enter, BeginAttempt, GiveUp, Send, SendFails, Take, Timeout, historyVars
<1>2. \A m \in Motors : responses'[m] \in {responses[m], NoFrame}
  BY DEF CallerStep, Enter, BeginAttempt, GiveUp, Send, SendFails, Take, Timeout, Erase, TypeOK
<1>3. ReadProvenance'
  <2>1. CASE Take(t)
    BY <2>1, TakeProvenance
  <2>2. CASE ~Take(t)
    <3>1. Proceed(t) \/ Finish(t, "failed") => UNCHANGED task
      BY DEF Proceed, Finish
    <3>2. AccessFails(t) \/ Again(t) => UNCHANGED <<got, task>>
      BY <3>1 DEF AccessFails, Again
    <3>3. UNCHANGED <<got, task>>
      BY <2>2, <3>2
      DEF CallerStep, Enter, BeginAttempt, GiveUp, Send, SendFails, Timeout
    <3> QED
      BY <1>1, <3>3, ProvenanceKept DEF PastGrows
  <2> QED
    BY <2>1, <2>2
<1> QED
  BY <1>1, <1>2, <1>3, FramesKept DEF ReadInv

LEMMA StartKeepsReadInv ==
    ASSUME TypeOK, ReadInv, NEW t \in Threads, StartCall(t)
    PROVE  ReadInv'
<1>1. UNCHANGED <<regs, past, replies, responses>>
  BY DEF StartCall
<1>2. ReadProvenance'
  <2>1. PICK c \in Calls[t] :
          /\ task' = [task EXCEPT ![t] = c]
          /\ got' = [got EXCEPT ![t] = [s \in DOMAIN c |-> NoVals]]
    BY DEF StartCall
  <2> SUFFICES ASSUME NEW u \in Threads, NEW s \in DOMAIN got'[u], got'[u][s] # NoVals
               PROVE  HeldIn(past'[task'[u][s].motor], task'[u][s].reg, got'[u][s])
    BY DEF ReadProvenance
  <2>2. u # t
    BY <2>1 DEF TypeOK
  <2>3. got'[u] = got[u] /\ task'[u] = task[u]
    BY <2>1, <2>2 DEF TypeOK
  <2> QED
    BY <1>1, <2>3 DEF ReadInv, ReadProvenance
<1> QED
  BY <1>1, <1>2, FramesKept DEF ReadInv

\* The answers stay true when the motor's file changes, for past only grows.
LEMMA FileKeepsReadInv ==
    ASSUME TypeOK, ReadInv, NEW m \in Motors, NEW rf,
           regs' = [regs EXCEPT ![m] = rf],
           past' = [past EXCEPT ![m] = past[m] \cup {rf}],
           UNCHANGED <<responses, got, task>>,
           \A n \in Motors : \A i \in 1 .. Len(replies'[n]) :
               \/ i \in 1 .. Len(replies[n]) /\ replies'[n][i] = replies[n][i]
               \/ replies'[n][i].cmd # "read"
    PROVE  ReadInv'
<1>1. PastGrows
  BY DEF PastGrows, TypeOK
<1>2. \A n \in Motors : regs'[n] \in past'[n]
  BY DEF ReadInv, TypeOK
<1>3. \A n \in Motors : \A f : FrameHeld(n, f) => FrameHeld(n, f)'
  BY <1>1, HeldInMonotone DEF FrameHeld, PastGrows
<1>4. \A n \in Motors : responses'[n] # NoFrame => FrameHeld(n, responses[n])'
  BY <1>3 DEF ReadInv
<1>5. ASSUME NEW n \in Motors, NEW i \in 1 .. Len(replies'[n])
      PROVE  FrameHeld(n, replies[n][i])'
  <2>1. CASE i \in 1 .. Len(replies[n]) /\ replies'[n][i] = replies[n][i]
    <3>1. HeldIn(past[n], replies[n][i].reg, replies[n][i].vals) \/ replies[n][i].cmd # "read"
      BY <2>1 DEF ReadInv, FrameHeld
    <3> QED
      BY <1>1, <2>1, <3>1, HeldInMonotone DEF FrameHeld, PastGrows
  <2>2. CASE replies'[n][i].cmd # "read"
    BY <2>2 DEF FrameHeld
  <2> QED
    BY <2>1, <2>2
<1>6. ReadProvenance'
  BY <1>1, ProvenanceKept
<1> QED
  BY <1>2, <1>4, <1>5, <1>6 DEF ReadInv

LEMMA MotorKeepsReadInv ==
    ASSUME TypeOK, ReadInv, NEW m \in Motors, MotorStep(m)
    PROVE  ReadInv'
<1> DEFINE q == Head(requests[m])
<1>1. UNCHANGED <<responses, got, task>>
  BY DEF MotorStep, MotorReads, MotorWrites, MotorRefuses, LoseRequest, threadVars
<1>2. /\ q \in Requests
      /\ regs[m] \in RegFiles
      /\ replies \in [Motors -> Seq(Replies)]
  <2>1. requests[m] \in Seq(Requests) /\ requests[m] # << >>
    BY DEF MotorStep, MotorReads, MotorWrites, MotorRefuses, LoseRequest, TypeOK
  <2> QED
    BY <2>1 DEF TypeOK
\* What a Reply adds to the answers on the bus.
<1>3. ASSUME NEW f, Reply(m, f), NEW n \in Motors, NEW i \in 1 .. Len(replies'[n])
      PROVE  \/ i \in 1 .. Len(replies[n]) /\ replies'[n][i] = replies[n][i]
             \/ n = m /\ replies'[n][i] = f
  <2>1. CASE replies'[n] = replies[n]
    BY <2>1
  <2>2. CASE n = m /\ replies'[n] = Append(replies[n], f)
    <3>1. replies[n] \in Seq(Replies)
      BY <1>2
    <3>2. /\ Len(replies'[n]) = Len(replies[n]) + 1
          /\ \A j \in 1 .. Len(replies[n]) : replies'[n][j] = replies[n][j]
          /\ replies'[n][Len(replies[n]) + 1] = f
      BY <2>2, <3>1
    <3>3. i \in 1 .. Len(replies[n]) \/ i = Len(replies[n]) + 1
      BY <3>1, <3>2
    <3> QED
      BY <2>2, <3>2, <3>3
  <2>3. replies'[n] = replies[n] \/ (n = m /\ replies'[n] = Append(replies[n], f))
    BY <1>2, <1>3 DEF Reply
  <2> QED
    BY <2>1, <2>2, <2>3
<1> HIDE DEF q
<1>4. CASE MotorReads(m)
  <2>1. UNCHANGED <<regs, past>> /\ Reply(m, ReadReply(regs[m], q))
    BY <1>4 DEF MotorReads, q
  <2>2. HeldIn(past[m], q.reg, Snapshot(regs[m], q.reg, q.count))
    BY <1>2, SnapshotType DEF HeldIn, ReadInv
  <2>3. FrameHeld(m, ReadReply(regs[m], q))
    BY <2>2 DEF FrameHeld, ReadReply
  <2>4. \A n \in Motors : \A i \in 1 .. Len(replies'[n]) : FrameHeld(n, replies'[n][i])
    BY <1>3, <2>1, <2>3 DEF ReadInv
  <2>5. ReadProvenance'
    BY <1>1, <2>1, ProvenanceKept DEF PastGrows
  <2> QED
    BY <1>1, <2>1, <2>4, <2>5 DEF ReadInv, FrameHeld
<1>5. CASE MotorWrites(m)
  <2>1. /\ regs' = [regs EXCEPT ![m] = [regs[m] EXCEPT ![q.reg] = q.val]]
        /\ past' = [past EXCEPT ![m] = past[m] \cup {[regs[m] EXCEPT ![q.reg] = q.val]}]
        /\ Reply(m, WriteReply(q, TRUE))
    BY <1>5 DEF MotorWrites, q
  <2>2. WriteReply(q, TRUE).cmd # "read"
    BY DEF WriteReply
  <2>3. ASSUME NEW n \in Motors, NEW i \in 1 .. Len(replies'[n])
        PROVE  \/ i \in 1 .. Len(replies[n]) /\ replies'[n][i] = replies[n][i]
               \/ replies'[n][i].cmd # "read"
    BY <1>3, <2>1, <2>2
  <2> DEFINE rf == [regs[m] EXCEPT ![q.reg] = q.val]
  <2> HIDE DEF rf
  <2>4. regs' = [regs EXCEPT ![m] = rf] /\ past' = [past EXCEPT ![m] = past[m] \cup {rf}]
    BY <2>1 DEF rf
  <2> QED
    BY <1>1, <2>3, <2>4, FileKeepsReadInv
<1>6. CASE MotorRefuses(m)
  <2>1. UNCHANGED <<regs, past>>
    BY <1>6 DEF MotorRefuses, historyVars
  <2>2. PICK f \in {ErrorReply(q), WriteReply(q, FALSE)} : Reply(m, f)
    BY <1>6 DEF MotorRefuses, q
  <2>3. FrameHeld(m, f)
    BY DEF FrameHeld, ErrorReply, WriteReply
  <2>4. \A n \in Motors : \A i \in 1 .. Len(replies'[n]) : FrameHeld(n, replies'[n][i])
    BY <1>3, <2>2, <2>3 DEF ReadInv
  <2>5. ReadProvenance'
    BY <1>1, <2>1, ProvenanceKept DEF PastGrows
  <2> QED
    BY <1>1, <2>1, <2>4, <2>5 DEF ReadInv, FrameHeld
<1>7. CASE LoseRequest(m)
  <2>1. UNCHANGED <<regs, past, replies>>
    BY <1>7 DEF LoseRequest, historyVars
  <2>2. ReadProvenance'
    BY <1>1, <2>1, ProvenanceKept DEF PastGrows
  <2> QED
    BY <1>1, <2>1, <2>2, FramesKept DEF ReadInv
<1> QED
  BY <1>4, <1>5, <1>6, <1>7 DEF MotorStep

LEMMA ReceiveKeepsReadInv ==
    ASSUME TypeOK, ReadInv, NEW m \in Motors, ReceiveStep(m)
    PROVE  ReadInv'
<1>1. /\ replies[m] \in Seq(Replies) /\ replies[m] # << >>
      /\ replies' = [replies EXCEPT ![m] = Tail(replies[m])]
      /\ \/ responses' = responses
         \/ responses' = [responses EXCEPT ![m] = Head(replies[m])]
      /\ UNCHANGED <<got, task, regs, past>>
  BY DEF ReceiveStep, HandleResponse, LoseReply, TypeOK, threadVars, historyVars
<1>2. FrameHeld(m, Head(replies[m]))
  <2>1. 1 \in 1 .. Len(replies[m]) /\ Head(replies[m]) = replies[m][1]
    BY <1>1
  <2> QED
    BY <2>1 DEF ReadInv
<1>3. \A n \in Motors : responses'[n] # NoFrame => FrameHeld(n, responses'[n])
  BY <1>1, <1>2 DEF ReadInv, TypeOK
<1>4. ASSUME NEW n \in Motors, NEW i \in 1 .. Len(replies'[n])
      PROVE  FrameHeld(n, replies'[n][i])
  <2>1. CASE n = m
    <3>1. Len(Tail(replies[m])) = Len(replies[m]) - 1
      BY <1>1
    <3>2. i + 1 \in 1 .. Len(replies[m]) /\ replies'[n][i] = replies[m][i + 1]
      BY <1>1, <2>1, <3>1 DEF TypeOK
    <3> QED
      BY <2>1, <3>2 DEF ReadInv
  <2>2. CASE n # m
    BY <1>1, <2>2 DEF ReadInv, TypeOK
  <2> QED
    BY <2>1, <2>2
<1>5. ReadProvenance'
  BY <1>1, ProvenanceKept DEF PastGrows
<1> QED
  BY <1>1, <1>3, <1>4, <1>5 DEF ReadInv, FrameHeld

(***************************************************************************)
(* Whatever is lost or late, however often it is retried and whoever else  *)
(* uses the motor, a read returns values that the registers it asked for   *)
(* held together at one instant.                                           *)
(***************************************************************************)
THEOREM ReadsAreTrue == Spec => []ReadProvenance
<1>1. Init => ReadInv
  BY DEF Init, ReadInv, ReadProvenance
<1>2. TypeOK /\ ReadInv /\ [Next]_vars => ReadInv'
  <2> SUFFICES ASSUME TypeOK, ReadInv, [Next]_vars PROVE ReadInv'
    OBVIOUS
  <2>1. ASSUME NEW m \in Motors, MotorEvolves(m) PROVE ReadInv'
    <3>1. PICK r \in Sensors, v \in Vals :
            /\ regs' = [regs EXCEPT ![m] = [regs[m] EXCEPT ![r] = v]]
            /\ past' = [past EXCEPT ![m] = past[m] \cup {[regs[m] EXCEPT ![r] = v]}]
      BY <2>1 DEF MotorEvolves
    <3>2. UNCHANGED <<responses, got, task, replies>>
      BY <2>1 DEF MotorEvolves, threadVars
    <3> QED
      BY <3>1, <3>2, FileKeepsReadInv
  <2>2. CASE InitDriver \/ Deinit \/ SetRetryCount
    <3>1. UNCHANGED <<responses, got, task, regs, past>>
      BY <2>2 DEF InitDriver, Deinit, SetRetryCount, threadVars, historyVars
    <3>2. replies' = replies \/ \A m \in Motors : replies'[m] = << >>
      BY <2>2 DEF InitDriver, Deinit, SetRetryCount
    <3>3. ReadProvenance'
      BY <3>1, ProvenanceKept DEF PastGrows
    <3> QED
      BY <3>1, <3>2, <3>3, FramesKept DEF ReadInv
  <2>3. CASE UNCHANGED vars
    BY <2>3 DEF vars, driverVars, threadVars, historyVars, ReadInv, FrameHeld, ReadProvenance
  <2> QED
    BY <2>1, <2>2, <2>3, CallerKeepsReadInv, StartKeepsReadInv, MotorKeepsReadInv,
       ReceiveKeepsReadInv DEF Next
<1>3. ReadInv => ReadProvenance
  BY DEF ReadInv
<1> QED
  BY <1>1, <1>2, <1>3, TypeCorrect, PTL DEF Spec

-----------------------------------------------------------------------------
(***************************************************************************)
(* What the engine guarantees when no two threads call the same motor and  *)
(* every answer that is not lost arrives before the timeout.  Both         *)
(* conditions are needed: with late answers (LateAck.cfg), and likewise    *)
(* with two threads on one motor, who may take each other's response, the  *)
(* acknowledgement of a write can be false.                                *)
(***************************************************************************)

\* There is no frame from or to motor m anywhere.
Silent(m) == requests[m] = << >> /\ replies[m] = << >> /\ responses[m] = NoFrame

\* f answers the access thread t waits for, and truthfully.
Answers(t, f) ==
    /\ f.cmd \in {Cur(t).cmd, "err"}
    /\ f.cmd = "write" /\ f.ok => step[t] \in done[t]
    /\ f.cmd = "read" => f.vals = sample[t]

\* At most one frame of the exchange exists: the request, the answer on its
\* way, or the answer in responses_.
OneFrame(t, m) ==
    \/ Silent(m)
    \/ requests[m] = <<Request(Cur(t))>> /\ replies[m] = << >> /\ responses[m] = NoFrame
    \/ /\ requests[m] = << >> /\ responses[m] = NoFrame
       /\ \E f \in Replies : replies[m] = <<f>> /\ Answers(t, f)
    \/ requests[m] = << >> /\ replies[m] = << >> /\ Answers(t, responses[m])

Waits(t, m) == pc[t] = "wait" /\ Cur(t).motor = m

(***************************************************************************)
(* The inductive invariant: frames of a motor exist only while a thread    *)
(* waits for that motor, and then they belong to its current exchange.     *)
(***************************************************************************)
ExchangeInv ==
    /\ \A t \in Threads, m \in Motors : Waits(t, m) => OneFrame(t, m)
    /\ \A m \in Motors : Silent(m) \/ \E t \in Threads : Waits(t, m)

AckInv == ExchangeInv /\ AckMeansApplied /\ PrefixApplied

\* Threads inside a call are at accesses of different motors.
LEMMA DifferentMotors ==
    ASSUME Exclusive, TypeOK, NEW t \in Threads, NEW u \in Threads, t # u,
           Busy(t), Busy(u)
    PROVE  Cur(t).motor # Cur(u).motor
<1>1. /\ task[t] \in Calls[t] /\ step[t] \in DOMAIN task[t]
      /\ task[u] \in Calls[u] /\ step[u] \in DOMAIN task[u]
  BY DEF TypeOK, Busy
<1> QED
  BY <1>1 DEF Exclusive, Cur

\* The motor of a thread that is not waiting is silent.
LEMMA NotWaitingSilent ==
    ASSUME Exclusive, TypeOK, ExchangeInv, NEW t \in Threads, Busy(t), pc[t] # "wait"
    PROVE  Silent(Cur(t).motor)
<1>1. Cur(t).motor \in Motors
  BY CurType DEF Steps
<1>2. ASSUME NEW u \in Threads, Waits(u, Cur(t).motor) PROVE FALSE
  <2>1. Busy(u) /\ u # t
    BY <1>2 DEF Waits, Busy
  <2> QED
    BY <1>2, <2>1, DifferentMotors DEF Waits
<1> QED
  BY <1>1, <1>2 DEF ExchangeInv

\* The exchange of a thread is not touched by a step that leaves it, its
\* access, its history and the frames of its motor alone.
LEMMA OneFrameKept ==
    ASSUME NEW t, NEW m, OneFrame(t, m), Cur(t)' = Cur(t),
           step'[t] = step[t], done'[t] = done[t], sample'[t] = sample[t],
           requests'[m] = requests[m], replies'[m] = replies[m],
           responses'[m] = responses[m]
    PROVE  OneFrame(t, m)'
BY DEF OneFrame, Silent, Answers, Request

(***************************************************************************)
(* Thread t takes a step after which it waits for nothing: the motor it    *)
(* waited for is silent now, and no other thread notices the step.         *)
(***************************************************************************)
LEMMA LocalStepKeepsExchange ==
    ASSUME ExchangeInv, NEW t \in Threads,
           \A u \in Threads \ {t} :
               /\ pc'[u] = pc[u] /\ task'[u] = task[u] /\ step'[u] = step[u]
               /\ done'[u] = done[u] /\ sample'[u] = sample[u],
           pc'[t] # "wait",
           \A n \in Motors : Waits(t, n) => Silent(n)',
           \A n \in Motors :
               \/ /\ requests'[n] = requests[n] /\ replies'[n] = replies[n]
                  /\ responses'[n] = responses[n]
               \/ Silent(n)' /\ \A u \in Threads \ {t} : ~Waits(u, n)
    PROVE  ExchangeInv'
<1>1. ASSUME NEW u \in Threads, NEW n \in Motors, Waits(u, n)' PROVE OneFrame(u, n)'
  <2>1. u # t /\ Waits(u, n) /\ Cur(u)' = Cur(u)
    BY <1>1 DEF Waits, Cur
  <2>2. OneFrame(u, n)
    BY <2>1 DEF ExchangeInv
  <2> QED
    BY <2>1, <2>2, OneFrameKept
<1>2. ASSUME NEW n \in Motors PROVE Silent(n)' \/ \E u \in Threads : Waits(u, n)'
  <2>1. CASE Silent(n)
    BY <2>1 DEF Silent
  <2>2. CASE Waits(t, n)
    BY <2>2
  <2>3. ASSUME NEW u \in Threads \ {t}, Waits(u, n) PROVE Waits(u, n)'
    BY <2>3 DEF Waits, Cur
  <2>4. Silent(n) \/ \E u \in Threads : Waits(u, n)
    BY DEF ExchangeInv
  <2> QED
    BY <2>1, <2>2, <2>3, <2>4
<1> QED
  BY <1>1, <1>2 DEF ExchangeInv

LEMMA StartKeepsExchange ==
    ASSUME ExchangeInv, TypeOK, NEW t \in Threads, StartCall(t)
    PROVE  ExchangeInv'
<1>1. \A u \in Threads \ {t} :
        /\ pc'[u] = pc[u] /\ task'[u] = task[u] /\ step'[u] = step[u]
        /\ done'[u] = done[u] /\ sample'[u] = sample[u]
  BY DEF StartCall, TypeOK
<1>2. pc[t] = "idle" /\ pc'[t] = "enter" /\ UNCHANGED <<requests, replies, responses>>
  BY DEF StartCall, TypeOK, Busy
<1> QED
  BY <1>1, <1>2, LocalStepKeepsExchange DEF Waits

\* A step of a caller changes nothing of the other callers.
LEMMA CallerIsLocal ==
    ASSUME TypeOK, NEW t \in Threads, CallerStep(t)
    PROVE  /\ \A u \in Threads \ {t} :
                 /\ pc'[u] = pc[u] /\ task'[u] = task[u] /\ step'[u] = step[u]
                 /\ done'[u] = done[u] /\ sample'[u] = sample[u]
                 /\ outcome'[u] = outcome[u]
           /\ task' = task /\ done' = done
<1>1. Finish(t, "ok") \/ Finish(t, "failed") =>
        /\ task' = task /\ step' = step
        /\ \A u \in Threads \ {t} : pc'[u] = pc[u] /\ outcome'[u] = outcome[u]
  BY DEF Finish, TypeOK
<1>2. Proceed(t) =>
        /\ task' = task
        /\ \A u \in Threads \ {t} :
             pc'[u] = pc[u] /\ step'[u] = step[u] /\ outcome'[u] = outcome[u]
  BY <1>1 DEF Proceed, TypeOK
<1> DEFINE Local ==
      /\ \A u \in Threads \ {t} :
           /\ pc'[u] = pc[u] /\ step'[u] = step[u] /\ sample'[u] = sample[u]
           /\ outcome'[u] = outcome[u]
      /\ task' = task
<1>3. AccessFails(t) => Local
  BY <1>1, <1>2 DEF AccessFails, TypeOK
<1>4. \A vals : AccessSucceeds(t, vals) => Local
  BY <1>2 DEF AccessSucceeds, TypeOK
<1>5. Again(t) => Local
  BY DEF Again, TypeOK
<1>6. Take(t) => Local
  BY <1>3, <1>4, <1>5 DEF Take
<1>7. Enter(t) => Local
  BY <1>3 DEF Enter, TypeOK
<1>8. BeginAttempt(t) \/ Send(t) => Local
  BY DEF BeginAttempt, Send, TypeOK, historyVars
<1>9. GiveUp(t) \/ SendFails(t) \/ Timeout(t) => Local
  BY <1>3, <1>5 DEF GiveUp, SendFails, Timeout
<1>10. done' = done
  BY DEF CallerStep, Enter, BeginAttempt, GiveUp, Send, SendFails, Take, Timeout, historyVars
<1> QED
  BY <1>6, <1>7, <1>8, <1>9, <1>10 DEF CallerStep

LEMMA CallerKeepsExchange ==
    ASSUME Exclusive, Timely, TypeOK, ExchangeInv, NEW t \in Threads, CallerStep(t)
    PROVE  ExchangeInv'
<1>0. Busy(t)
  BY DEF CallerStep, Enter, BeginAttempt, GiveUp, Send, SendFails, Take, Timeout, Busy
<1>1. PICK m \in Motors : m = Cur(t).motor
  BY <1>0, CurType DEF Steps
<1>2. \A u \in Threads \ {t} : ~Waits(u, m)
  BY <1>0, <1>1, DifferentMotors DEF Waits, Busy
<1>3. \A u \in Threads \ {t} :
        /\ pc'[u] = pc[u] /\ task'[u] = task[u] /\ step'[u] = step[u]
        /\ done'[u] = done[u] /\ sample'[u] = sample[u]
  BY CallerIsLocal
<1>4. \A n \in Motors : Waits(t, n) => n = m
  BY <1>1 DEF Waits
<1>5. CASE Send(t)
  <2>1. Silent(m)
    BY <1>0, <1>1, <1>5, NotWaitingSilent DEF Send
  <2>2. /\ requests' = [requests EXCEPT ![m] = <<Request(Cur(t))>>]
        /\ pc' = [pc EXCEPT ![t] = "wait"]
        /\ UNCHANGED <<replies, responses, task, step>>
    BY <1>1, <1>5, <2>1 DEF Send, Silent
  <2>3. /\ Cur(t)' = Cur(t) /\ pc[t] # "wait" /\ pc'[t] = "wait"
        /\ requests'[m] = <<Request(Cur(t))>>
        /\ \A n \in Motors \ {m} : requests'[n] = requests[n]
    BY <1>1, <1>5, <2>2 DEF Cur, Send, TypeOK
  <2>4. OneFrame(t, m)'
    BY <2>1, <2>2, <2>3 DEF OneFrame, Silent, Request
  <2>5. Waits(t, m)' /\ \A n \in Motors : Waits(t, n)' => n = m
    BY <1>1, <2>3 DEF Waits
  <2>6. ASSUME NEW u \in Threads, NEW n \in Motors, u # t, Waits(u, n)' PROVE OneFrame(u, n)'
    <3>1. Waits(u, n) /\ Cur(u)' = Cur(u) /\ n # m
      BY <1>2, <1>3, <2>6 DEF Waits, Cur
    <3>2. OneFrame(u, n)
      BY <3>1 DEF ExchangeInv
    <3> QED
      BY <1>3, <2>2, <2>3, <2>6, <3>1, <3>2, OneFrameKept
  <2>7. ASSUME NEW n \in Motors PROVE Silent(n)' \/ \E u \in Threads : Waits(u, n)'
    <3>1. CASE n = m
      BY <2>5, <3>1
    <3>2. CASE n # m /\ Silent(n)
      BY <2>2, <2>3, <3>2 DEF Silent
    <3>3. ASSUME NEW u \in Threads, Waits(u, n) PROVE Waits(u, n)'
      BY <1>3, <2>3, <3>3 DEF Waits, Cur
    <3> QED
      BY <3>1, <3>2, <3>3 DEF ExchangeInv
  <2> QED
    BY <2>4, <2>5, <2>6, <2>7 DEF ExchangeInv
<1>6. CASE Enter(t) \/ BeginAttempt(t) \/ GiveUp(t) \/ SendFails(t)
  <2>1. pc[t] # "wait"
    BY <1>6 DEF Enter, BeginAttempt, GiveUp, SendFails
  <2>2. Silent(m)
    BY <1>0, <1>1, <2>1, NotWaitingSilent  <2>3. pc'[t] # "wait"
    <3>1. AccessFails(t) => pc'[t] # "wait"
      BY <1>0, FinishType, ProceedType DEF AccessFails
    <3> QED
      BY <1>6, <3>1 DEF Enter, BeginAttempt, GiveUp, SendFails, Again, TypeOK
  <2>4. /\ UNCHANGED <<requests, replies>>
        /\ responses' = responses \/ responses' = [responses EXCEPT ![m] = NoFrame]
    BY <1>1, <1>6 DEF Enter, BeginAttempt, Erase, GiveUp, SendFails
  <2>5. \A n \in Motors : responses'[n] = responses[n]
    BY <2>2, <2>4 DEF Silent, TypeOK
  <2>6. \A n \in Motors : ~Waits(t, n)
    BY <2>1 DEF Waits
  <2> QED
    BY <1>3, <2>3, <2>4, <2>5, <2>6, LocalStepKeepsExchange
<1>7. CASE Take(t) \/ Timeout(t)
  <2>1. pc[t] = "wait" /\ UNCHANGED <<requests, replies>>
    BY <1>7 DEF Take, Timeout
  <2>2. OneFrame(t, m)
    BY <1>1, <2>1 DEF ExchangeInv, Waits
  <2>3. Silent(m)' /\ \A n \in Motors \ {m} : responses'[n] = responses[n]
    <3>1. CASE Take(t)
      <4>1. responses[m] # NoFrame /\ responses' = [responses EXCEPT ![m] = NoFrame]
        BY <1>1, <3>1 DEF Take, Erase
      <4>2. requests[m] = << >> /\ replies[m] = << >>
        BY <2>2, <4>1 DEF OneFrame, Silent
      <4> QED
        BY <1>1, <2>1, <4>1, <4>2 DEF Silent, TypeOK
    <3>2. CASE Timeout(t)
      BY <1>1, <2>1, <3>2 DEF Timeout, InFlight, Silent
    <3> QED
      BY <1>7, <3>1, <3>2
  <2>4. pc'[t] # "wait"
    <3>1. AccessFails(t) => pc'[t] # "wait"
      BY <1>0, FinishType, ProceedType DEF AccessFails
    <3>2. \A vals : AccessSucceeds(t, vals) => pc'[t] # "wait"
      BY <1>0, ProceedType DEF AccessSucceeds
    <3>3. Again(t) => pc'[t] # "wait"
      BY DEF Again, TypeOK
    <3> QED
      BY <1>7, <3>1, <3>2, <3>3 DEF Take, Timeout
  <2> QED
    BY <1>1, <1>2, <1>3, <1>4, <2>1, <2>3, <2>4, LocalStepKeepsExchange
<1> QED
  BY <1>5, <1>6, <1>7 DEF CallerStep

(***************************************************************************)
(* A step of the motor or the bus at motor m: it acts on the exchange of   *)
(* the one thread that waits for m.                                        *)
(***************************************************************************)
LEMMA BusStepKeepsExchange ==
    ASSUME TypeOK, ExchangeInv, NEW t \in Threads, NEW m \in Motors, Waits(t, m),
           \A u \in Threads \ {t} : ~Waits(u, m),
           UNCHANGED <<pc, task, step>>,
           \A u \in Threads \ {t} : done'[u] = done[u] /\ sample'[u] = sample[u],
           \A n \in Motors \ {m} :
               /\ requests'[n] = requests[n] /\ replies'[n] = replies[n]
               /\ responses'[n] = responses[n],
           OneFrame(t, m)'
    PROVE  ExchangeInv'
<1>1. \A u \in Threads, n \in Motors : Waits(u, n)' <=> Waits(u, n)
  BY DEF Waits, Cur
<1>2. ASSUME NEW u \in Threads, NEW n \in Motors, Waits(u, n) PROVE OneFrame(u, n)'
  <2>1. CASE u = t
    <3>1. n = m
      BY <1>2, <2>1 DEF Waits
    <3> QED
      BY <2>1, <3>1
  <2>2. CASE u # t
    <3>1. n # m /\ OneFrame(u, n) /\ Cur(u)' = Cur(u)
      BY <1>2, <2>2 DEF ExchangeInv, Cur
    <3> QED
      BY <2>2, <3>1, OneFrameKept
  <2> QED
    BY <2>1, <2>2
<1>3. ASSUME NEW n \in Motors PROVE Silent(n)' \/ \E u \in Threads : Waits(u, n)'
  <2>1. CASE n = m
    BY <1>1, <2>1
  <2>2. CASE n # m /\ Silent(n)
    BY <2>2 DEF Silent
  <2> QED
    BY <1>1, <2>1, <2>2 DEF ExchangeInv
<1> QED
  BY <1>1, <1>2, <1>3 DEF ExchangeInv

\* The thread an exchange in progress belongs to.
LEMMA ExchangeOwner ==
    ASSUME Exclusive, TypeOK, ExchangeInv, NEW m \in Motors, ~Silent(m)
    PROVE  \E t \in Threads :
             /\ Waits(t, m) /\ Busy(t) /\ OneFrame(t, m)
             /\ Cur(t) \in Steps
             /\ \A u \in Threads \ {t} : ~(Busy(u) /\ Cur(u).motor = m) /\ ~Waits(u, m)
<1>1. PICK t \in Threads : Waits(t, m)
  BY DEF ExchangeInv
<1>2. Busy(t) /\ OneFrame(t, m) /\ Cur(t) \in Steps
  BY <1>1, CurType DEF Waits, Busy, ExchangeInv
<1>3. \A u \in Threads \ {t} : ~(Busy(u) /\ Cur(u).motor = m)
  BY <1>1, <1>2, DifferentMotors DEF Waits
<1> QED
  BY <1>1, <1>2, <1>3 DEF Waits, Busy

LEMMA MotorKeepsExchange ==
    ASSUME Exclusive, TypeOK, ExchangeInv, NEW m \in Motors, MotorStep(m)
    PROVE  ExchangeInv'
<1>1. /\ requests[m] # << >>
      /\ requests' = [requests EXCEPT ![m] = Tail(requests[m])]
      /\ UNCHANGED <<pc, task, step, responses>>
  BY DEF MotorStep, MotorReads, MotorWrites, MotorRefuses, LoseRequest, threadVars
<1>2. PICK t \in Threads :
        /\ Waits(t, m) /\ Busy(t) /\ OneFrame(t, m)
        /\ Cur(t) \in Steps
        /\ \A u \in Threads \ {t} : ~(Busy(u) /\ Cur(u).motor = m) /\ ~Waits(u, m)
  BY <1>1, ExchangeOwner DEF Silent
<1>3. PICK q \in Requests : q = Request(Cur(t))
  BY <1>2, CurType
<1>4. requests[m] = <<q>> /\ replies[m] = << >> /\ responses[m] = NoFrame
  BY <1>1, <1>2, <1>3 DEF OneFrame, Silent
<1>5. /\ requests'[m] = << >> /\ responses'[m] = NoFrame
      /\ \A n \in Motors \ {m} : requests'[n] = requests[n] /\ responses'[n] = responses[n]
  BY <1>1, <1>4 DEF TypeOK
<1>6. Head(requests[m]) = q /\ Serves(t, m, q) /\ \A u \in Threads \ {t} : ~Serves(u, m, q)
  BY <1>2, <1>3, <1>4 DEF Serves, Waits
<1>7. Cur(t)' = Cur(t) /\ q.cmd = Cur(t).cmd
  BY <1>1, <1>3 DEF Cur, Request
<1>8. regs[m] \in RegFiles /\ q.reg \in Regs
  BY DEF TypeOK, Requests
\* It is enough that the answer, if there is one, answers t's access.
<1>9. ASSUME NEW f \in Replies, Reply(m, f), Answers(t, f)',
             \A u \in Threads \ {t} : done'[u] = done[u] /\ sample'[u] = sample[u]
      PROVE  ExchangeInv'
  <2>1. replies'[m] \in {<< >>, <<f>>} /\ \A n \in Motors \ {m} : replies'[n] = replies[n]
    BY <1>4, <1>9 DEF Reply, TypeOK
  <2>2. OneFrame(t, m)'
    BY <1>5, <1>9, <2>1 DEF OneFrame, Silent
  <2> QED
    BY <1>1, <1>2, <1>5, <1>9, <2>1, <2>2, BusStepKeepsExchange
<1>10. CASE MotorReads(m)
  <2>1. q.cmd = "read" /\ Reply(m, ReadReply(regs[m], q)) /\ done' = done
    BY <1>6, <1>10 DEF MotorReads
  <2>2. /\ sample'[t] = Snapshot(regs[m], q.reg, q.count)
        /\ \A u \in Threads \ {t} : sample'[u] = sample[u]
    BY <1>6, <1>10 DEF MotorReads
  <2>3. ReadReply(regs[m], q) \in Replies
    BY <1>8, SnapshotType DEF ReadReply, Replies, Requests
  <2>4. PICK f \in Replies : f = ReadReply(regs[m], q)
    BY <2>3
  <2>5. Answers(t, f)'
    BY <1>7, <2>1, <2>2, <2>4 DEF Answers, ReadReply
  <2> QED
    BY <1>9, <2>1, <2>2, <2>4, <2>5
<1>11. CASE MotorWrites(m)
  <2>1. q.cmd = "write" /\ Reply(m, WriteReply(q, TRUE)) /\ sample' = sample
    BY <1>6, <1>11 DEF MotorWrites
  <2>2. step[t] \in done'[t] /\ \A u \in Threads \ {t} : done'[u] = done[u]
    BY <1>6, <1>11 DEF MotorWrites
  <2>0. WriteReply(q, TRUE) \in Replies
    BY <1>8 DEF WriteReply, Replies
  <2>3. PICK f \in Replies : f = WriteReply(q, TRUE)
    BY <2>0
  <2>4. Answers(t, f)'
    BY <1>1, <1>7, <2>1, <2>2, <2>3 DEF Answers, WriteReply
  <2> QED
    BY <1>9, <2>1, <2>2, <2>3, <2>4
<1>12. CASE MotorRefuses(m)
  <2>1. /\ done' = done /\ sample' = sample
        /\ Reply(m, ErrorReply(q)) \/ (q.cmd = "write" /\ Reply(m, WriteReply(q, FALSE)))
    BY <1>6, <1>12 DEF MotorRefuses, historyVars
  <2>2. CASE Reply(m, ErrorReply(q))
    <3>0. ErrorReply(q) \in Replies
      BY <1>8 DEF ErrorReply, Replies
    <3>1. PICK f \in Replies : f = ErrorReply(q)
      BY <3>0
    <3>2. Answers(t, f)'
      BY <3>1 DEF Answers, ErrorReply
    <3> QED
      BY <1>9, <2>1, <2>2, <3>1, <3>2
  <2>3. CASE q.cmd = "write" /\ Reply(m, WriteReply(q, FALSE))
    <3>0. WriteReply(q, FALSE) \in Replies
      BY <1>8 DEF WriteReply, Replies
    <3>1. PICK f \in Replies : f = WriteReply(q, FALSE)
      BY <3>0
    <3>2. Answers(t, f)'
      BY <1>7, <2>3, <3>1 DEF Answers, WriteReply
    <3> QED
      BY <1>9, <2>1, <2>3, <3>1, <3>2
  <2> QED
    BY <2>1, <2>2, <2>3
<1>13. CASE LoseRequest(m)
  <2>1. UNCHANGED <<replies, done, sample>>
    BY <1>13 DEF LoseRequest, historyVars
  <2>2. OneFrame(t, m)'
    BY <1>4, <1>5, <2>1 DEF OneFrame, Silent
  <2> QED
    BY <1>1, <1>2, <1>5, <2>1, <2>2, BusStepKeepsExchange
<1> QED
  BY <1>10, <1>11, <1>12, <1>13 DEF MotorStep

LEMMA ReceiveKeepsExchange ==
    ASSUME Exclusive, TypeOK, ExchangeInv, NEW m \in Motors, ReceiveStep(m)
    PROVE  ExchangeInv'
<1>1. /\ replies[m] # << >>
      /\ replies' = [replies EXCEPT ![m] = Tail(replies[m])]
      /\ \/ responses' = responses
         \/ responses' = [responses EXCEPT ![m] = Head(replies[m])]
      /\ UNCHANGED <<pc, task, step, requests, done, sample>>
  BY DEF ReceiveStep, HandleResponse, LoseReply, threadVars, historyVars
<1>2. PICK t \in Threads :
        /\ Waits(t, m) /\ Busy(t) /\ OneFrame(t, m)
        /\ Cur(t) \in Steps
        /\ \A u \in Threads \ {t} : ~(Busy(u) /\ Cur(u).motor = m) /\ ~Waits(u, m)
  BY <1>1, ExchangeOwner DEF Silent
<1>3. requests[m] = << >> /\ responses[m] = NoFrame
  BY <1>1, <1>2 DEF OneFrame, Silent
<1>4. PICK f \in Replies : replies[m] = <<f>> /\ Answers(t, f)
  BY <1>1, <1>2 DEF OneFrame, Silent
<1>5. /\ replies'[m] = << >> /\ responses'[m] \in {NoFrame, f}
      /\ \A n \in Motors \ {m} : replies'[n] = replies[n] /\ responses'[n] = responses[n]
  BY <1>1, <1>3, <1>4 DEF TypeOK
<1>6. Answers(t, f)'
  BY <1>1, <1>4 DEF Answers, Cur
<1>7. OneFrame(t, m)'
  BY <1>1, <1>3, <1>5, <1>6 DEF OneFrame, Silent
<1> QED
  BY <1>1, <1>2, <1>5, <1>7, BusStepKeepsExchange

LEMMA OthersKeepExchange ==
    ASSUME TypeOK, ExchangeInv,
           \/ \E m \in Motors : MotorEvolves(m)
           \/ InitDriver \/ Deinit \/ SetRetryCount
           \/ UNCHANGED vars
    PROVE  ExchangeInv'
<1>1. /\ UNCHANGED <<pc, task, step, done, sample, requests, responses>>
      /\ replies' = replies \/ \A m \in Motors : replies'[m] = << >>
  BY DEF MotorEvolves, InitDriver, Deinit, SetRetryCount, vars, driverVars, threadVars,
         historyVars
<1>2. \A t \in Threads, m \in Motors : Waits(t, m)' <=> Waits(t, m)
  BY <1>1 DEF Waits, Cur
<1>3. ASSUME NEW t \in Threads, NEW m \in Motors, OneFrame(t, m) PROVE OneFrame(t, m)'
  <2>1. \A f : Answers(t, f)' <=> Answers(t, f)
    BY <1>1 DEF Answers, Cur
  <2>2. Request(Cur(t))' = Request(Cur(t))
    BY <1>1 DEF Request, Cur
  <2> QED
    BY <1>1, <1>3, <2>1, <2>2 DEF OneFrame, Silent
<1>4. \A m \in Motors : Silent(m) => Silent(m)'
  BY <1>1 DEF Silent
<1> QED
  BY <1>2, <1>3, <1>4 DEF ExchangeInv
-----------------------------------------------------------------------------
(* Acknowledged writes *)

\* What AckMeansApplied and PrefixApplied say of one thread.
AckOf(t) ==
    \A s \in DOMAIN task[t] :
        MustWrite(t, s) /\ (outcome[t] = "ok" \/ (Busy(t) /\ s < step[t])) => s \in done[t]

PrefixOf(t) ==
    \A s \in done[t] : \A r \in DOMAIN task[t] : r < s /\ MustWrite(t, r) => r \in done[t]

LEMMA PerThread ==
    /\ AckMeansApplied <=> \A t \in Threads : AckOf(t)
    /\ PrefixApplied <=> \A t \in Threads : PrefixOf(t)
BY DEF AckMeansApplied, PrefixApplied, AckOf, PrefixOf

\* A thread keeps its part when its call and its history do not change.
LEMMA AckOfKept ==
    ASSUME NEW u, AckOf(u), PrefixOf(u), task'[u] = task[u], done'[u] = done[u],
           step'[u] = step[u], outcome'[u] = outcome[u], Busy(u)' => Busy(u)
    PROVE  AckOf(u)' /\ PrefixOf(u)'
BY DEF AckOf, PrefixOf, MustWrite

\* A call may go past an access if it is not a write it insists on, or if the
\* motor has applied it.
LEMMA ProceedKeepsAck ==
    ASSUME TypeOK, NEW t \in Threads, Busy(t), AckOf(t), Proceed(t), done' = done,
           MustWrite(t, step[t]) => step[t] \in done[t]
    PROVE  AckOf(t)'
<1>1. /\ step[t] \in 1 .. Len(task[t]) /\ task[t] \in Seq(Steps)
      /\ DOMAIN task[t] = 1 .. Len(task[t])
  BY CurType
<1>2. task' = task
  BY ProceedType
<1>3. ASSUME NEW s \in DOMAIN task[t], MustWrite(t, s), s <= step[t] PROVE s \in done[t]
  BY <1>1, <1>3 DEF AckOf
<1>4. CASE step[t] = Len(task[t])
  <2>1. \A s \in DOMAIN task[t] : s <= step[t]
    BY <1>1, <1>4
  <2> QED
    BY <1>2, <1>3, <2>1 DEF AckOf, MustWrite
<1>5. CASE step[t] # Len(task[t])
  <2>1. step'[t] = step[t] + 1 /\ outcome' = outcome
    BY <1>5 DEF Proceed, TypeOK
  <2>2. \A s \in DOMAIN task[t] : s < step'[t] => s <= step[t]
    BY <1>1, <2>1
  <2> QED
    BY <1>2, <1>3, <2>1, <2>2 DEF AckOf, MustWrite
<1> QED
  BY <1>4, <1>5

LEMMA CallerKeepsAck ==
    ASSUME Exclusive, Timely, TypeOK, AckInv, NEW t \in Threads, CallerStep(t)
    PROVE  AckMeansApplied' /\ PrefixApplied'
<1>0. Busy(t)
  BY DEF CallerStep, Enter, BeginAttempt, GiveUp, Send, SendFails, Take, Timeout, Busy
<1>1. \A u \in Threads : AckOf(u) /\ PrefixOf(u)
  BY PerThread DEF AckInv
<1>2. task' = task /\ done' = done
  BY CallerIsLocal
<1>3. ASSUME NEW u \in Threads \ {t} PROVE AckOf(u)' /\ PrefixOf(u)'
  BY <1>1, CallerIsLocal, AckOfKept DEF Busy
<1>4. PrefixOf(t)'
  BY <1>1, <1>2 DEF PrefixOf, MustWrite
<1>5. Finish(t, "failed") => AckOf(t)'
  BY DEF Finish, TypeOK, AckOf, Busy
<1>6. AccessFails(t) => AckOf(t)'
  BY <1>0, <1>1, <1>2, <1>5, ProceedKeepsAck DEF AccessFails, Aborts, MustWrite, Cur
<1>7. Again(t) => AckOf(t)'
  BY <1>0, <1>1, <1>2 DEF Again, AckOf, MustWrite
<1>8. ASSUME Take(t) PROVE AckOf(t)'
  <2>1. PICK m \in Motors : m = Cur(t).motor
    BY <1>0, CurType DEF Steps
  <2>2. Answers(t, responses[m])
    BY <1>8, <2>1 DEF AckInv, ExchangeInv, Waits, Take, OneFrame, Silent
  <2>3. ASSUME NEW vals, AccessSucceeds(t, vals), Accepted(responses[m], Cur(t)),
               Cur(t).cmd = "write" => WriteSucceeded(responses[m])
        PROVE  AckOf(t)'
    <3>1. MustWrite(t, step[t]) => step[t] \in done[t]
      BY <2>2, <2>3 DEF MustWrite, Cur, Answers, Accepted, WriteSucceeded
    <3> QED
      BY <1>0, <1>1, <1>2, <2>3, <3>1, ProceedKeepsAck DEF AccessSucceeds
  <2>4. Cur(t).cmd # "write" => (Cur(t).cmd = "write" => WriteSucceeded(responses[m]))
    OBVIOUS
  <2> QED
    BY <1>6, <1>7, <1>8, <2>1, <2>3, <2>4 DEF Take
<1>9. ASSUME Enter(t) PROVE AckOf(t)'
  <2>1. /\ initialized => UNCHANGED <<step, outcome>>
        /\ ~initialized => AccessFails(t)
    BY <1>9 DEF Enter
  <2> QED
    BY <1>0, <1>1, <1>2, <1>6, <2>1 DEF AckOf, MustWrite
<1>10. ASSUME BeginAttempt(t) \/ Send(t) PROVE AckOf(t)'
  BY <1>0, <1>1, <1>2, <1>10 DEF BeginAttempt, Send, AckOf, MustWrite
<1>11. ASSUME GiveUp(t) \/ SendFails(t) \/ Timeout(t) PROVE AckOf(t)'
  BY <1>6, <1>7, <1>11 DEF GiveUp, SendFails, Timeout
<1>12. AckOf(t)'
  BY <1>8, <1>9, <1>10, <1>11 DEF CallerStep
<1>13. \A u \in Threads : AckOf(u)' /\ PrefixOf(u)'
  BY <1>3, <1>4, <1>12
<1> QED
  BY <1>13 DEF AckOf, PrefixOf, AckMeansApplied, PrefixApplied

LEMMA StartKeepsAck ==
    ASSUME TypeOK, AckMeansApplied, PrefixApplied, NEW t \in Threads, StartCall(t)
    PROVE  AckMeansApplied' /\ PrefixApplied'
<1>1. \A u \in Threads : AckOf(u) /\ PrefixOf(u)
  BY PerThread
<1>2. PICK c \in Calls[t] : task' = [task EXCEPT ![t] = c]
  BY DEF StartCall
<1>3. /\ task'[t] = c /\ step'[t] = 1 /\ outcome'[t] = "busy" /\ done'[t] = {}
      /\ c \in Seq(Steps)
  BY <1>2, DriverAssumption DEF StartCall, TypeOK
<1>4. AckOf(t)' /\ PrefixOf(t)'
  <2>1. \A s \in DOMAIN c : ~(s < 1)
    BY <1>3
  <2> QED
    BY <1>3, <2>1 DEF AckOf, PrefixOf
<1>5. ASSUME NEW u \in Threads \ {t} PROVE AckOf(u)' /\ PrefixOf(u)'
  BY <1>1, AckOfKept DEF StartCall, TypeOK, Busy
<1>6. \A u \in Threads : AckOf(u)' /\ PrefixOf(u)'
  BY <1>4, <1>5
<1> QED
  BY <1>6 DEF AckOf, PrefixOf, AckMeansApplied, PrefixApplied

\* A step of the environment: the motor may apply the current write of a call.
LEMMA EnvironmentKeepsAck ==
    ASSUME TypeOK, AckMeansApplied, PrefixApplied,
           UNCHANGED <<pc, task, step, outcome>>,
           \A t \in Threads :
               \/ done'[t] = done[t]
               \/ Busy(t) /\ done'[t] = done[t] \cup {step[t]}
    PROVE  AckMeansApplied' /\ PrefixApplied'
<1>1. ASSUME NEW t \in Threads PROVE AckOf(t)' /\ PrefixOf(t)'
  <2>1. AckOf(t) /\ PrefixOf(t)
    BY PerThread
  <2>2. CASE done'[t] = done[t]
    BY <2>1, <2>2, AckOfKept DEF Busy
  <2>3. CASE Busy(t) /\ done'[t] = done[t] \cup {step[t]}
    BY <2>1, <2>3 DEF AckOf, PrefixOf, MustWrite, Busy
  <2> QED
    BY <2>2, <2>3
<1> QED
  BY <1>1 DEF AckOf, PrefixOf, AckMeansApplied, PrefixApplied

LEMMA OthersKeepAck ==
    ASSUME TypeOK, AckMeansApplied, PrefixApplied,
           \/ \E m \in Motors : MotorStep(m) \/ ReceiveStep(m) \/ MotorEvolves(m)
           \/ InitDriver \/ Deinit \/ SetRetryCount
           \/ UNCHANGED vars
    PROVE  AckMeansApplied' /\ PrefixApplied'
<1>1. UNCHANGED <<pc, task, step, outcome>>
  BY DEF MotorStep, ReceiveStep, MotorReads, MotorWrites, MotorRefuses, LoseRequest,
         HandleResponse, LoseReply, MotorEvolves, InitDriver, Deinit, SetRetryCount,
         vars, threadVars
<1>2. ASSUME NEW m \in Motors, MotorWrites(m), NEW t \in Threads
      PROVE  done'[t] = done[t] \/ (Busy(t) /\ done'[t] = done[t] \cup {step[t]})
  BY <1>2 DEF MotorWrites, Serves
<1>3. done' = done \/ \E m \in Motors : MotorWrites(m)
  BY DEF MotorStep, ReceiveStep, MotorReads, MotorRefuses, LoseRequest,
         HandleResponse, LoseReply, MotorEvolves, InitDriver, Deinit, SetRetryCount,
         vars, historyVars
<1> QED
  BY <1>1, <1>2, <1>3, EnvironmentKeepsAck

LEMMA InitAck == Init => AckInv
BY DEF Init, AckInv, ExchangeInv, Waits, Silent, AckMeansApplied, PrefixApplied, MustWrite

LEMMA NextKeepsAckInv ==
    ASSUME Exclusive, Timely, TypeOK, AckInv, [Next]_vars
    PROVE  AckInv'
<1>1. CASE \E t \in Threads : StartCall(t)
  BY <1>1, StartKeepsExchange, StartKeepsAck DEF AckInv
<1>2. CASE \E t \in Threads : CallerStep(t)
  BY <1>2, CallerKeepsExchange, CallerKeepsAck DEF AckInv
<1>3. CASE \E m \in Motors : MotorStep(m)
  BY <1>3, MotorKeepsExchange, OthersKeepAck DEF AckInv
<1>4. CASE \E m \in Motors : ReceiveStep(m)
  BY <1>4, ReceiveKeepsExchange, OthersKeepAck DEF AckInv
<1>5. CASE \E m \in Motors : MotorEvolves(m)
  BY <1>5, OthersKeepExchange, OthersKeepAck DEF AckInv
<1>6. CASE InitDriver \/ Deinit \/ SetRetryCount \/ UNCHANGED vars
  BY <1>6, OthersKeepExchange, OthersKeepAck DEF AckInv
<1> QED
  BY <1>1, <1>2, <1>3, <1>4, <1>5, <1>6 DEF Next

LEMMA AckInvariant ==
    ASSUME Exclusive, Timely
    PROVE  Spec => [](TypeOK /\ AckInv)
<1>1. Init => AckInv
  BY InitAck
<1>2. TypeOK /\ AckInv /\ [Next]_vars => AckInv'
  BY NextKeepsAckInv
<1> QED
  BY <1>1, <1>2, TypeCorrect, PTL DEF Spec

(***************************************************************************)
(* writeRegister and the calls built from it return true only for writes   *)
(* the motor applied during the call, whatever is lost and however often   *)
(* the driver retries.                                                     *)
(***************************************************************************)
THEOREM WritesAcknowledged ==
    ASSUME Exclusive, Timely
    PROVE  Spec => []AckMeansApplied
<1>1. TypeOK /\ AckInv => AckMeansApplied
  BY DEF AckInv
<1> QED
  BY <1>1, AckInvariant, PTL

(***************************************************************************)
(* A call of several writes (writeInt32, setPositionLimits, setSpeedPID)   *)
(* that fails leaves a prefix of its writes in the motor, never a gap.     *)
(***************************************************************************)
THEOREM FailureLeavesPrefix ==
    ASSUME Exclusive, Timely
    PROVE  Spec => []PrefixApplied
<1>1. TypeOK /\ AckInv => PrefixApplied
  BY DEF AckInv
<1> QED
  BY <1>1, AckInvariant, PTL

-----------------------------------------------------------------------------
(* What a step may never do *)

LEMMA GotChangesInTake ==
    ASSUME Next, got' # got
    PROVE  \E t \in Threads : StartCall(t) \/ Take(t)
BY DEF Next, CallerStep, Enter, BeginAttempt, GiveUp, Send, SendFails, Timeout, Again,
       AccessFails, MotorStep, ReceiveStep, MotorReads, MotorWrites, MotorRefuses,
       LoseRequest, HandleResponse, LoseReply, MotorEvolves, InitDriver, Deinit,
       SetRetryCount, threadVars

\* The accesses a call has still to make have returned nothing.
NothingYet(t) ==
    Busy(t) => \A s \in DOMAIN got[t] : s >= step[t] => got[t][s] = NoVals

LEMMA CallerKeepsNothing ==
    ASSUME TypeOK, NEW t \in Threads, NothingYet(t), CallerStep(t)
    PROVE  NothingYet(t)'
<1>0. Busy(t) /\ step[t] \in 1 .. Len(task[t]) /\ DOMAIN got[t] = 1 .. Len(task[t])
  <2>1. Busy(t)
    BY DEF CallerStep, Enter, BeginAttempt, GiveUp, Send, SendFails, Take, Timeout, Busy
  <2> QED
    BY <2>1, CurType DEF TypeOK
<1>1. Proceed(t) => ~Busy(t)' \/ step'[t] = step[t] + 1
  BY DEF Proceed, Finish, Busy, TypeOK
<1>2. AccessFails(t) => NothingYet(t)'
  <2>1. Finish(t, "failed") => ~Busy(t)'
    BY DEF Finish, Busy, TypeOK
  <2> QED
    BY <1>0, <1>1, <2>1 DEF AccessFails, NothingYet
<1>3. ASSUME NEW vals, AccessSucceeds(t, vals) PROVE NothingYet(t)'
  <2>1. got' = [got EXCEPT ![t] = [got[t] EXCEPT ![step[t]] = vals]]
    BY <1>3 DEF AccessSucceeds
  <2>2. /\ DOMAIN got'[t] = DOMAIN got[t]
        /\ \A s \in DOMAIN got[t] : s # step[t] => got'[t][s] = got[t][s]
    BY <2>1 DEF TypeOK
  <2> QED
    BY <1>0, <1>1, <1>3, <2>2 DEF AccessSucceeds, NothingYet
<1>4. UNCHANGED <<got, step>> => NothingYet(t)'
  BY <1>0 DEF NothingYet
<1>5. Take(t) => NothingYet(t)'
  BY <1>2, <1>3, <1>4 DEF Take, Again
<1>6. Enter(t) => NothingYet(t)'
  BY <1>2, <1>4 DEF Enter
<1> QED
  BY <1>2, <1>4, <1>5, <1>6 DEF CallerStep, BeginAttempt, GiveUp, Send, SendFails, Timeout, Again

\* A step of a caller changes what its own call has returned, at most.
LEMMA CallerGot ==
    ASSUME TypeOK, NEW t \in Threads, NEW u \in Threads, u # t, CallerStep(t)
    PROVE  got'[u] = got[u]
<1>1. ASSUME NEW vals, AccessSucceeds(t, vals) PROVE got'[u] = got[u]
  BY <1>1 DEF AccessSucceeds, TypeOK
<1>2. CASE Take(t)
  BY <1>1, <1>2 DEF Take, Again, AccessFails
<1>3. CASE Enter(t) \/ BeginAttempt(t) \/ GiveUp(t) \/ Send(t) \/ SendFails(t) \/ Timeout(t)
  BY <1>3 DEF Enter, BeginAttempt, GiveUp, Send, SendFails, Timeout, Again, AccessFails
<1> QED
  BY <1>2, <1>3 DEF CallerStep

LEMMA NextKeepsNothing ==
    ASSUME TypeOK, [Next]_vars, \A t \in Threads : NothingYet(t)
    PROVE  \A t \in Threads : NothingYet(t)'
<1>1. ASSUME NEW t \in Threads, CallerStep(t), NEW u \in Threads PROVE NothingYet(u)'
  <2>1. CASE u = t
    BY <1>1, <2>1, CallerKeepsNothing
  <2>2. CASE u # t
    BY <1>1, <2>2, CallerIsLocal, CallerGot DEF NothingYet, Busy
  <2> QED
    BY <2>1, <2>2
<1>2. ASSUME NEW t \in Threads, StartCall(t), NEW u \in Threads PROVE NothingYet(u)'
  BY <1>2 DEF StartCall, NothingYet, Busy, TypeOK
<1>3. UNCHANGED <<pc, step, got>> => \A u \in Threads : NothingYet(u)'
  BY DEF NothingYet, Busy
<1>4. \/ \E t \in Threads : CallerStep(t) \/ StartCall(t)
      \/ UNCHANGED <<pc, step, got>>
  BY DEF Next, MotorStep, ReceiveStep, MotorReads, MotorWrites, MotorRefuses, LoseRequest,
         HandleResponse, LoseReply, MotorEvolves, InitDriver, Deinit, SetRetryCount,
         vars, threadVars
<1> QED
  BY <1>1, <1>2, <1>3, <1>4

LEMMA NothingYetInvariant == Spec => [](TypeOK /\ \A t \in Threads : NothingYet(t))
<1>1. Init => \A t \in Threads : NothingYet(t)
  BY DEF Init, NothingYet, Busy
<1>2. TypeOK /\ (\A t \in Threads : NothingYet(t)) /\ [Next]_vars
        => (\A t \in Threads : NothingYet(t))'
  BY NextKeepsNothing
<1> QED
  BY <1>1, <1>2, TypeCorrect, PTL DEF Spec

(***************************************************************************)
(* readRegister(s) return the motor's latest answer to this very access.   *)
(***************************************************************************)
THEOREM ReadsAreFresh ==
    ASSUME Exclusive, Timely
    PROVE  Spec => FreshRead
<1> DEFINE Fresh == \A t \in Threads : Busy(t) =>
                      \A s \in DOMAIN got[t] : got'[t][s] # got[t][s] => got'[t][s] = sample[t]
<1>1. ASSUME TypeOK, AckInv, \A t \in Threads : NothingYet(t), Next,
             NEW u \in Threads, Busy(u), NEW s \in DOMAIN got[u], got'[u][s] # got[u][s]
      PROVE  got'[u][s] = sample[u]
  <2>1. PICK t \in Threads : StartCall(t) \/ Take(t)
    BY <1>1, GotChangesInTake
  <2>2. CASE StartCall(t)
    BY <1>1, <2>2 DEF StartCall, TypeOK
  <2>3. CASE Take(t)
    <3>0. Busy(t)
      BY <2>3 DEF Take, Busy
    <3>1. PICK m \in Motors : m = Cur(t).motor
      BY <1>1, <3>0, CurType DEF Steps
    <3>2. PICK vals \in {NoVals, responses[m].vals} :
            /\ AccessSucceeds(t, vals)
            /\ Accepted(responses[m], Cur(t))
            /\ Cur(t).cmd = "write" => vals = NoVals
            /\ Cur(t).cmd # "write" => vals = responses[m].vals
      BY <1>1, <2>3, <3>1 DEF Take, Again, AccessFails
    <3>3. Answers(t, responses[m])
      BY <1>1, <2>3, <3>1 DEF AckInv, ExchangeInv, Waits, Take, OneFrame, Silent
    <3>4. got' = [got EXCEPT ![t] = [got[t] EXCEPT ![step[t]] = vals]]
      BY <3>2 DEF AccessSucceeds
    <3>5. u = t /\ s = step[t] /\ got'[u][s] = vals
      BY <1>1, <3>4 DEF TypeOK
    <3>6. CASE Cur(t).cmd = "write"
      <4>1. got[u][s] = NoVals
        BY <1>1, <3>0, <3>5, CurType DEF NothingYet
      <4> QED
        BY <1>1, <3>2, <3>5, <3>6, <4>1
    <3>7. CASE Cur(t).cmd # "write"
      <4>1. Cur(t).cmd = "read"
        BY <1>1, <3>0, <3>7, CurType DEF Steps
      <4> QED
        BY <3>2, <3>3, <3>5, <4>1, <3>7 DEF Answers, Accepted
    <3> QED
      BY <3>6, <3>7
  <2> QED
    BY <2>1, <2>2, <2>3
<1>2. TypeOK /\ AckInv /\ (\A t \in Threads : NothingYet(t)) /\ [Next]_vars => [Fresh]_vars
  BY <1>1
<1> QED
  BY <1>2, AckInvariant, NothingYetInvariant, PTL DEF Spec, FreshRead

(***************************************************************************)
(* The commanded registers of a motor change only while a call is writing  *)
(* them: no request is left on the bus when a call returns.                *)
(***************************************************************************)
THEOREM NoLateWrites ==
    ASSUME Exclusive, Timely
    PROVE  Spec => NoWriteAfterReturn
<1> DEFINE Writing(m, r) == \E t \in Threads :
             Busy(t) /\ Cur(t).motor = m /\ Cur(t).cmd = "write" /\ Cur(t).reg = r
           Commanded == \A m \in Motors : \A r \in Regs \ Sensors :
                          regs'[m][r] # regs[m][r] => Writing(m, r)
<1>1. ASSUME TypeOK, AckInv, Next, NEW m \in Motors, NEW r \in Regs \ Sensors,
             regs'[m][r] # regs[m][r]
      PROVE  Writing(m, r)
  <2>1. PICK n \in Motors : MotorWrites(n) \/ MotorEvolves(n)
    BY <1>1 DEF Next, StartCall, CallerStep, Enter, BeginAttempt, GiveUp, Send, SendFails,
         Take, Timeout, MotorStep, ReceiveStep, MotorReads, MotorRefuses, LoseRequest,
         HandleResponse, LoseReply, InitDriver, Deinit, SetRetryCount
  <2>2. CASE MotorWrites(n)
    <3>1. PICK q : q = Head(requests[n])
      OBVIOUS
    <3>2. /\ q.cmd = "write" /\ requests[n] # << >>
          /\ regs' = [regs EXCEPT ![n] = [regs[n] EXCEPT ![q.reg] = q.val]]
      BY <2>2, <3>1 DEF MotorWrites
    <3>3. n = m /\ q.reg = r
      BY <1>1, <3>2 DEF TypeOK, RegFiles
    <3>4. PICK t \in Threads : Waits(t, n) /\ Busy(t) /\ OneFrame(t, n)
      BY <1>1, <3>2, ExchangeOwner DEF AckInv, Silent
    <3>5. q = Request(Cur(t))
      BY <3>1, <3>2, <3>4 DEF OneFrame, Silent
    <3> QED
      BY <3>2, <3>3, <3>4, <3>5 DEF Request, Waits
  <2>3. CASE MotorEvolves(n)
    BY <1>1, <2>3 DEF MotorEvolves, TypeOK, RegFiles
  <2> QED
    BY <2>1, <2>2, <2>3
<1>2. TypeOK /\ AckInv /\ [Next]_vars => [Commanded]_vars
  BY <1>1
<1> QED
  BY <1>2, AckInvariant, PTL DEF Spec, NoWriteAfterReturn

-----------------------------------------------------------------------------
(* The engine implements RegisterService *)

\* The abstract busy flags and the step of one thread that changes them.
BusyFlags == [t \in Threads |-> Busy(t)]

LEMMA FlagsKept == ASSUME pc' = pc PROVE BusyFlags' = BusyFlags
BY DEF BusyFlags, Busy

LEMMA FlagUp ==
    ASSUME TypeOK, NEW t \in Threads, NEW p, p # "idle", pc' = [pc EXCEPT ![t] = p]
    PROVE  BusyFlags' = [BusyFlags EXCEPT ![t] = TRUE]
BY DEF BusyFlags, Busy, TypeOK

LEMMA FlagDown ==
    ASSUME TypeOK, NEW t \in Threads, pc' = [pc EXCEPT ![t] = "idle"]
    PROVE  BusyFlags' = [BusyFlags EXCEPT ![t] = FALSE]
BY DEF BusyFlags, Busy, TypeOK

\* Proceed and Finish are the MoveOn and the Return of the service.
LEMMA FinishReturns ==
    ASSUME TypeOK, NEW t \in Threads, NEW result, Finish(t, result)
    PROVE  Service!Return(t, result)
BY FlagDown DEF Finish, Service!Return, BusyFlags

LEMMA ProceedMovesOn ==
    ASSUME TypeOK, NEW t \in Threads, Busy(t), Proceed(t)
    PROVE  Service!MoveOn(t)
<1>1. CASE step[t] = Len(task[t])
  BY <1>1, FinishReturns DEF Proceed, Service!MoveOn
<1>2. CASE step[t] # Len(task[t])
  <2>1. /\ pc' = [pc EXCEPT ![t] = "enter"]
        /\ step' = [step EXCEPT ![t] = step[t] + 1] /\ outcome' = outcome
    BY <1>2 DEF Proceed
  <2>2. BusyFlags' = [BusyFlags EXCEPT ![t] = TRUE] /\ BusyFlags[t] = TRUE
    BY <2>1, FlagUp DEF BusyFlags
  <2>3. BusyFlags' = BusyFlags
    BY <2>2 DEF BusyFlags
  <2> QED
    BY <1>2, <2>1, <2>3 DEF Service!MoveOn, BusyFlags
<1> QED
  BY <1>1, <1>2

LEMMA AccessFailsIsFail ==
    ASSUME TypeOK, NEW t \in Threads, Busy(t), AccessFails(t), UNCHANGED <<regs, done>>
    PROVE  Service!Fail(t)
<1>1. task' = task
  BY DEF AccessFails, Finish, Proceed
<1>2. IF Cur(t).must THEN Service!Return(t, "failed") ELSE Service!MoveOn(t)
  BY FinishReturns, ProceedMovesOn DEF AccessFails, Aborts
<1>3. sample' = [sample EXCEPT ![t] = NoVals] /\ got' = got
  BY DEF AccessFails
<1> QED
  BY <1>1, <1>2, <1>3 DEF Service!Fail, Service!Access, Cur

\* A successful access: the motor applied the write, or answered the read.
LEMMA AccessSucceedsIsSucceed ==
    ASSUME TypeOK, NEW t \in Threads, Busy(t), NothingYet(t),
           NEW vals, AccessSucceeds(t, vals), UNCHANGED <<regs, done>>,
           Cur(t).cmd = "write" => step[t] \in done[t] /\ vals = NoVals,
           Cur(t).cmd = "read" => vals = sample[t] /\ vals # NoVals
    PROVE  Service!Succeed(t)
<1>1. task' = task
  BY DEF AccessSucceeds, Finish, Proceed
<1>2. Service!MoveOn(t) /\ sample' = [sample EXCEPT ![t] = NoVals]
  BY ProceedMovesOn DEF AccessSucceeds
<1>3. got' = [got EXCEPT ![t] = [got[t] EXCEPT ![step[t]] = vals]]
  BY DEF AccessSucceeds
<1>4. CASE Cur(t).cmd = "write"
  <2>0. step[t] \in DOMAIN got[t] /\ step[t] >= step[t]
    BY CurType DEF TypeOK
  <2>1. got[t][step[t]] = NoVals
    BY <2>0 DEF NothingYet
  <2>2. got' = got
    BY <1>3, <1>4, <2>0, <2>1 DEF TypeOK
  <2> QED
    BY <1>1, <1>2, <1>4, <2>2 DEF Service!Succeed, Service!Access, Cur, BusyFlags
<1>5. CASE Cur(t).cmd = "read"
  BY <1>1, <1>2, <1>3, <1>5 DEF Service!Succeed, Service!Access, Cur, BusyFlags
<1>6. Cur(t).cmd \in {"read", "write"}
  BY CurType DEF Steps
<1> QED
  BY <1>4, <1>5, <1>6

LEMMA StartIsInvoke ==
    ASSUME TypeOK, NEW t \in Threads, StartCall(t)
    PROVE  Service!Invoke(t)
<1>1. pc' = [pc EXCEPT ![t] = "enter"] /\ ~Busy(t)
  BY DEF StartCall
<1>2. BusyFlags' = [BusyFlags EXCEPT ![t] = TRUE]
  BY <1>1, FlagUp
<1>3. ~BusyFlags[t]
  BY <1>1 DEF BusyFlags
<1> QED
  BY <1>2, <1>3 DEF StartCall, Service!Invoke, BusyFlags

\* A step of a caller that leaves the access where it is.
LEMMA InsideStutters ==
    ASSUME TypeOK, NEW t \in Threads, Busy(t),
           NEW p, p # "idle", pc' = [pc EXCEPT ![t] = p],
           UNCHANGED <<task, step, got, outcome, regs, done, sample>>
    PROVE  UNCHANGED Service!vars
<1>1. BusyFlags' = [BusyFlags EXCEPT ![t] = TRUE]
  BY FlagUp
<1>2. BusyFlags' = BusyFlags
  BY <1>1 DEF BusyFlags
<1> QED
  BY <1>2 DEF Service!vars, BusyFlags

LEMMA CallerImplements ==
    ASSUME Exclusive, Timely, TypeOK, AckInv, NEW t \in Threads, NothingYet(t),
           CallerStep(t)
    PROVE  Service!Succeed(t) \/ Service!Fail(t) \/ UNCHANGED Service!vars
<1>0. Busy(t) /\ UNCHANGED <<regs, done>>
  BY DEF CallerStep, Enter, BeginAttempt, GiveUp, Send, SendFails, Take, Timeout, Busy,
         historyVars
<1>1. Again(t) => UNCHANGED Service!vars
  BY <1>0, InsideStutters DEF Again
<1>2. AccessFails(t) => Service!Fail(t)
  BY <1>0, AccessFailsIsFail
<1>3. ASSUME Take(t) PROVE Service!Succeed(t) \/ Service!Fail(t) \/ UNCHANGED Service!vars
  <2>1. PICK m \in Motors : m = Cur(t).motor
    BY <1>0, CurType DEF Steps
  <2>2. PICK f \in Replies : f = responses[m]
    BY <1>3, <2>1 DEF Take, TypeOK
  <2>3. Answers(t, f)
    BY <1>3, <2>1, <2>2 DEF AckInv, ExchangeInv, Waits, Take, OneFrame, Silent
  <2>4. f.vals \in Seq(Vals)
    BY <2>2 DEF Replies
  <2>5. CASE AccessSucceeds(t, NoVals) /\ Accepted(f, Cur(t)) /\ f.ok /\ Cur(t).cmd = "write"
    BY <1>0, <2>3, <2>5, AccessSucceedsIsSucceed DEF Answers, Accepted
  <2>6. CASE AccessSucceeds(t, f.vals) /\ Accepted(f, Cur(t)) /\ Cur(t).cmd # "write"
    <3>1. Cur(t).cmd = "read" /\ f.vals = sample[t]
      BY <1>0, <2>3, <2>6, CurType DEF Answers, Accepted, Steps
    <3>2. f.vals # NoVals
      BY <2>4, DriverAssumption
    <3> QED
      BY <1>0, <2>6, <3>1, <3>2, AccessSucceedsIsSucceed
  <2> QED
    BY <1>1, <1>2, <1>3, <2>1, <2>2, <2>5, <2>6 DEF Take, WriteSucceeded
<1>4. ASSUME Enter(t) PROVE Service!Fail(t) \/ UNCHANGED Service!vars
  BY <1>0, <1>2, <1>4, InsideStutters DEF Enter
<1>5. BeginAttempt(t) \/ Send(t) => UNCHANGED Service!vars
  BY <1>0, InsideStutters DEF BeginAttempt, Send, historyVars
<1> QED
  BY <1>1, <1>2, <1>3, <1>4, <1>5 DEF CallerStep, GiveUp, SendFails, Timeout

\* The motor serves the request of the one thread that waits for it.
LEMMA MotorImplements ==
    ASSUME Exclusive, TypeOK, AckInv, NEW m \in Motors, MotorStep(m)
    PROVE  \/ \E t \in Threads : Service!Apply(t) \/ Service!Answer(t)
           \/ UNCHANGED Service!vars
<1>1. /\ requests[m] # << >>
      /\ UNCHANGED <<pc, task, step, got, outcome>>
  BY DEF MotorStep, MotorReads, MotorWrites, MotorRefuses, LoseRequest, threadVars
<1>2. PICK t \in Threads :
        /\ Waits(t, m) /\ Busy(t) /\ OneFrame(t, m)
        /\ Cur(t) \in Steps
        /\ \A u \in Threads \ {t} : ~(Busy(u) /\ Cur(u).motor = m) /\ ~Waits(u, m)
  BY <1>1, ExchangeOwner DEF AckInv, Silent
<1>3. PICK q \in Requests : q = Request(Cur(t))
  BY <1>2, CurType
<1>4. Head(requests[m]) = q
  BY <1>1, <1>2, <1>3 DEF OneFrame, Silent
<1>5. /\ Cur(t).motor = m /\ q.cmd = Cur(t).cmd /\ q.reg = Cur(t).reg
      /\ q.count = Cur(t).count /\ q.val = Cur(t).val
  BY <1>2, <1>3 DEF Waits, Request
<1>6. Serves(t, m, q) /\ \A u \in Threads \ {t} : ~Serves(u, m, q)
  BY <1>2, <1>3, <1>5 DEF Serves
<1>7. BusyFlags' = BusyFlags /\ BusyFlags[t]
  BY <1>1, <1>2, FlagsKept DEF BusyFlags
<1>8. CASE MotorReads(m)
  <2>1. q.cmd = "read" /\ UNCHANGED <<regs, done>>
    BY <1>4, <1>8 DEF MotorReads
  <2>2. sample' = [sample EXCEPT ![t] = Snapshot(regs[m], q.reg, q.count)]
    BY <1>4, <1>6, <1>8 DEF MotorReads, TypeOK
  <2> QED
    BY <1>1, <1>5, <1>7, <2>1, <2>2
    DEF Service!Answer, Service!Access, Service!Content, Snapshot, Cur, BusyFlags
<1>9. CASE MotorWrites(m)
  <2>1. /\ q.cmd = "write" /\ sample' = sample
        /\ regs' = [regs EXCEPT ![m] = [regs[m] EXCEPT ![q.reg] = q.val]]
    BY <1>4, <1>9 DEF MotorWrites
  <2>2. done' = [done EXCEPT ![t] = done[t] \cup {step[t]}]
    BY <1>4, <1>6, <1>9 DEF MotorWrites, TypeOK
  <2> QED
    BY <1>1, <1>5, <1>7, <2>1, <2>2 DEF Service!Apply, Service!Access, Cur, BusyFlags
<1>10. CASE MotorRefuses(m) \/ LoseRequest(m)
  BY <1>1, <1>7, <1>10 DEF MotorRefuses, LoseRequest, historyVars, Service!vars, BusyFlags
<1> QED
  BY <1>8, <1>9, <1>10 DEF MotorStep

LEMMA NextImplements ==
    ASSUME Exclusive, Timely, TypeOK, AckInv, \A t \in Threads : NothingYet(t), [Next]_vars
    PROVE  [Service!Next]_(Service!vars)
<1>1. ASSUME NEW t \in Threads, StartCall(t) PROVE Service!Next
  BY <1>1, StartIsInvoke DEF Service!Next
<1>2. ASSUME NEW t \in Threads, CallerStep(t) PROVE [Service!Next]_(Service!vars)
  BY <1>2, CallerImplements DEF Service!Next
<1>3. ASSUME NEW m \in Motors, MotorStep(m) PROVE [Service!Next]_(Service!vars)
  BY <1>3, MotorImplements DEF Service!Next
<1>4. ASSUME NEW m \in Motors, ReceiveStep(m) PROVE UNCHANGED Service!vars
  BY <1>4, FlagsKept
  DEF ReceiveStep, HandleResponse, LoseReply, threadVars, historyVars, Service!vars, BusyFlags
<1>5. ASSUME NEW m \in Motors, MotorEvolves(m) PROVE Service!Next
  <2>1. UNCHANGED <<pc, task, step, got, outcome, done, sample>>
    BY <1>5 DEF MotorEvolves, threadVars
  <2>2. BusyFlags' = BusyFlags
    BY <2>1, FlagsKept
  <2>3. \E r \in Sensors, v \in Vals : regs' = [regs EXCEPT ![m] = [regs[m] EXCEPT ![r] = v]]
    BY <1>5 DEF MotorEvolves
  <2> QED
    BY <2>1, <2>2, <2>3 DEF Service!Next, Service!Evolve, BusyFlags
<1>6. CASE InitDriver \/ Deinit \/ SetRetryCount \/ UNCHANGED vars
  BY <1>6, FlagsKept
  DEF InitDriver, Deinit, SetRetryCount, vars, threadVars, historyVars, Service!vars, BusyFlags
<1> QED
  BY <1>1, <1>2, <1>3, <1>4, <1>5, <1>6 DEF Next

LEMMA InitImplements == Init => Service!Init
<1> SUFFICES ASSUME Init PROVE Service!Init
  OBVIOUS
<1>1. BusyFlags = [t \in Threads |-> FALSE]
  BY DEF Init, BusyFlags, Busy
<1>2. regs \in [Motors -> [Regs -> Vals]]
  BY DriverAssumption DEF Init
<1> QED
  BY <1>1, <1>2 DEF Init, Service!Init, BusyFlags

(***************************************************************************)
(* Callers that keep to their own motors cannot tell the engine, with its  *)
(* lost frames, retries and timeouts, from the register service.           *)
(***************************************************************************)
THEOREM EngineImplementsService ==
    ASSUME Exclusive, Timely
    PROVE  Spec => ServiceSpec
<1>1. Init => Service!Init
  BY InitImplements
<1>2. TypeOK /\ AckInv /\ (\A t \in Threads : NothingYet(t)) /\ [Next]_vars
        => [Service!Next]_(Service!vars)
  BY NextImplements
<1> QED
  BY <1>1, <1>2, AckInvariant, NothingYetInvariant, PTL DEF Spec, ServiceSpec, Service!Spec

-----------------------------------------------------------------------------
(***************************************************************************)
(* The states and descriptions that the driver returns are true, for any   *)
(* motors, threads, losses and delays.  ReadProvenance says where a value  *)
(* comes from if there is one; here it is shown that a call which succeeds *)
(* has one, of the length it needs, for every read it insists on.          *)
(***************************************************************************)

\* The read s of thread t's call has returned enough values.
Delivered(t, s) == got[t][s] # NoVals /\ Len(got[t][s]) >= task[t][s].need

MustRead(t, s) == task[t][s].cmd = "read" /\ task[t][s].must

\* The call has gone past its access s, or has succeeded.
Past(t, s) == outcome[t] = "ok" \/ (Busy(t) /\ s < step[t])

\* The inductive invariant
DeliveredInv ==
    \A t \in Threads : \A s \in DOMAIN task[t] :
        MustRead(t, s) /\ Past(t, s) => Delivered(t, s)

DeliveredTo(t) ==
    \A s \in DOMAIN task[t] : MustRead(t, s) /\ Past(t, s) => Delivered(t, s)

LEMMA DeliveredKept ==
    ASSUME NEW u, DeliveredTo(u), task'[u] = task[u], got'[u] = got[u],
           step'[u] = step[u], outcome'[u] = outcome[u], Busy(u)' => Busy(u)
    PROVE  DeliveredTo(u)'
BY DEF DeliveredTo, MustRead, Past, Delivered

\* A call may go past an access if it is not a read it insists on, or if it
\* has returned enough.
LEMMA ProceedDelivers ==
    ASSUME TypeOK, NEW t \in Threads, Busy(t), DeliveredTo(t), Proceed(t),
           \A s \in DOMAIN task[t] : s # step[t] => got'[t][s] = got[t][s],
           MustRead(t, step[t]) =>
               got'[t][step[t]] # NoVals /\ Len(got'[t][step[t]]) >= Cur(t).need
    PROVE  DeliveredTo(t)'
<1>1. /\ step[t] \in 1 .. Len(task[t]) /\ task[t] \in Seq(Steps)
      /\ DOMAIN task[t] = 1 .. Len(task[t])
  BY CurType
<1>2. task' = task
  BY ProceedType
<1>3. ASSUME NEW s \in DOMAIN task[t], MustRead(t, s), s <= step[t]
      PROVE  Delivered(t, s)'
  <2>1. CASE s = step[t]
    BY <1>2, <1>3, <2>1 DEF Delivered, Cur
  <2>2. CASE s # step[t]
    <3>1. s < step[t]
      BY <1>1, <1>3, <2>2
    <3> QED
      BY <1>2, <1>3, <2>2, <3>1 DEF DeliveredTo, Past, Delivered
  <2> QED
    BY <2>1, <2>2
<1>4. CASE step[t] = Len(task[t])
  <2>1. \A s \in DOMAIN task[t] : s <= step[t]
    BY <1>1, <1>4
  <2> QED
    BY <1>2, <1>3, <2>1 DEF DeliveredTo, MustRead
<1>5. CASE step[t] # Len(task[t])
  <2>1. step'[t] = step[t] + 1 /\ outcome' = outcome
    BY <1>5 DEF Proceed, TypeOK
  <2>2. \A s \in DOMAIN task[t] : s < step'[t] => s <= step[t]
    BY <1>1, <2>1
  <2>3. ASSUME NEW s \in DOMAIN task[t], MustRead(t, s), outcome[t] = "ok"
        PROVE  Delivered(t, s)'
    <3>1. CASE s = step[t]
      BY <1>3, <2>3, <3>1, <1>1
    <3>2. CASE s # step[t]
      BY <1>2, <2>3, <3>2 DEF DeliveredTo, Past, Delivered
    <3> QED
      BY <3>1, <3>2
  <2> QED
    BY <1>2, <1>3, <2>1, <2>2, <2>3 DEF DeliveredTo, MustRead, Past
<1> QED
  BY <1>4, <1>5

LEMMA CallerDelivers ==
    ASSUME TypeOK, DeliveredInv, NEW t \in Threads, CallerStep(t)
    PROVE  DeliveredInv'
<1>0. Busy(t) /\ step[t] \in DOMAIN task[t] /\ Cur(t) \in Steps
  <2>1. Busy(t)
    BY DEF CallerStep, Enter, BeginAttempt, GiveUp, Send, SendFails, Take, Timeout, Busy
  <2> QED
    BY <2>1, CurType DEF TypeOK, Busy
<1>1. task' = task /\ DeliveredTo(t)
  BY CallerIsLocal DEF DeliveredInv, DeliveredTo
<1>2. ASSUME NEW u \in Threads \ {t} PROVE DeliveredTo(u)'
  <2>1. got'[u] = got[u]
    BY CallerGot
  <2>2. DeliveredTo(u)
    BY DEF DeliveredInv, DeliveredTo
  <2> QED
    BY <2>1, <2>2, CallerIsLocal, DeliveredKept DEF Busy
<1>3. Finish(t, "failed") => DeliveredTo(t)'
  BY DEF Finish, TypeOK, DeliveredTo, Past, Busy
<1>4. AccessFails(t) => DeliveredTo(t)'
  <2>1. AccessFails(t) /\ Proceed(t) /\ ~Cur(t).must => DeliveredTo(t)'
    BY <1>0, <1>1, ProceedDelivers DEF AccessFails, MustRead, Cur
  <2> QED
    BY <1>3, <2>1 DEF AccessFails, Aborts
<1>5. UNCHANGED <<step, got, outcome>> => DeliveredTo(t)'
  BY <1>0, <1>1 DEF DeliveredTo, MustRead, Past, Delivered
<1>6. ASSUME NEW vals, AccessSucceeds(t, vals),
             Cur(t).cmd = "read" => vals # NoVals /\ Len(vals) >= Cur(t).need
      PROVE  DeliveredTo(t)'
  <2>1. got' = [got EXCEPT ![t] = [got[t] EXCEPT ![step[t]] = vals]]
    BY <1>6 DEF AccessSucceeds
  <2>2. /\ \A s \in DOMAIN task[t] : s # step[t] => got'[t][s] = got[t][s]
        /\ got'[t][step[t]] = vals
    BY <1>0, <2>1 DEF TypeOK
  <2> QED
    BY <1>0, <1>1, <1>6, <2>2, ProceedDelivers DEF AccessSucceeds, MustRead, Cur
<1>7. CASE Take(t)
  <2>1. PICK f : f = responses[Cur(t).motor]
    OBVIOUS
  <2>2. f \in Replies
    BY <1>0, <1>7, <2>1 DEF Take, TypeOK, Steps
  <2>3. f.vals # NoVals
    BY <2>2, DriverAssumption DEF Replies
  <2>4. \/ Again(t) \/ AccessFails(t)
        \/ Cur(t).cmd = "write" /\ AccessSucceeds(t, NoVals)
        \/ Len(f.vals) >= Cur(t).need /\ AccessSucceeds(t, f.vals)
    BY <1>7, <2>1 DEF Take
  <2>5. Again(t) => DeliveredTo(t)'
    BY <1>5 DEF Again
  <2> QED
    BY <1>2, <1>4, <1>6, <2>3, <2>4, <2>5 DEF DeliveredInv, DeliveredTo
<1>8. CASE Enter(t) \/ BeginAttempt(t) \/ GiveUp(t) \/ Send(t) \/ SendFails(t) \/ Timeout(t)
  <2>1. AccessFails(t) \/ UNCHANGED <<step, got, outcome>>
    BY <1>8 DEF Enter, BeginAttempt, GiveUp, Send, SendFails, Timeout, Again
  <2> QED
    BY <1>2, <1>4, <1>5, <2>1 DEF DeliveredInv, DeliveredTo
<1> QED
  BY <1>7, <1>8 DEF CallerStep

LEMMA StartDelivers ==
    ASSUME TypeOK, DeliveredInv, NEW t \in Threads, StartCall(t)
    PROVE  DeliveredInv'
<1>1. PICK c \in Calls[t] : task' = [task EXCEPT ![t] = c]
  BY DEF StartCall
<1>2. /\ task'[t] = c /\ step'[t] = 1 /\ outcome'[t] = "busy" /\ c \in Seq(Steps)
  BY <1>1, DriverAssumption DEF StartCall, TypeOK
<1>3. DeliveredTo(t)'
  <2>1. \A s \in DOMAIN c : ~(s < 1)
    BY <1>2
  <2> QED
    BY <1>2, <2>1 DEF DeliveredTo, Past
<1>4. ASSUME NEW u \in Threads \ {t} PROVE DeliveredTo(u)'
  <2>1. DeliveredTo(u)
    BY DEF DeliveredInv, DeliveredTo
  <2> QED
    BY <2>1, DeliveredKept DEF StartCall, TypeOK, Busy
<1> QED
  BY <1>3, <1>4 DEF DeliveredInv, DeliveredTo

LEMMA DeliveredInvariant == Spec => [](TypeOK /\ DeliveredInv)
<1>1. Init => DeliveredInv
  BY DEF Init, DeliveredInv
<1>2. ASSUME TypeOK, DeliveredInv, [Next]_vars PROVE DeliveredInv'
  <2>1. \/ \E t \in Threads : StartCall(t) \/ CallerStep(t)
        \/ UNCHANGED <<pc, task, step, got, outcome>>
    BY <1>2 DEF Next, MotorStep, ReceiveStep, MotorReads, MotorWrites, MotorRefuses,
       LoseRequest, HandleResponse, LoseReply, MotorEvolves, InitDriver, Deinit,
       SetRetryCount, vars, threadVars
  <2>2. UNCHANGED <<pc, task, step, got, outcome>> => DeliveredInv'
    BY <1>2 DEF DeliveredInv, MustRead, Past, Delivered, Busy
  <2> QED
    BY <1>2, <2>1, <2>2, StartDelivers, CallerDelivers
<1> QED
  BY <1>1, <1>2, TypeCorrect, PTL DEF Spec

-----------------------------------------------------------------------------
(* What a block read at reg returned to a successful call *)

LEMMA BlockIsTrue ==
    ASSUME TypeOK, DeliveredInv, ReadProvenance, NEW t \in Threads, NEW m \in Motors,
           NEW reg, NEW n \in Nat \ {0},
           outcome[t] = "ok", 1 \in DOMAIN task[t],
           task[t][1].cmd = "read", task[t][1].must, task[t][1].need = n,
           task[t][1].motor = m, task[t][1].reg = reg
    PROVE  \E rf \in past[m] : \A i \in 1 .. n : got[t][1][i] = rf[reg + i - 1]
<1>1. MustRead(t, 1) /\ Past(t, 1)
  BY DEF MustRead, Past
<1>2. got[t][1] # NoVals /\ Len(got[t][1]) >= n
  BY <1>1 DEF DeliveredInv, Delivered
<1>3. 1 \in DOMAIN got[t]
  BY DEF TypeOK
<1>4. PICK rf \in past[m] : got[t][1] = Snapshot(rf, reg, Len(got[t][1]))
  BY <1>1, <1>2, <1>3 DEF ReadProvenance, HeldIn
<1>5. Len(got[t][1]) \in Nat
  BY <1>2, <1>3 DEF TypeOK
<1>6. \A i \in 1 .. n : i \in 1 .. Len(got[t][1])
  BY <1>2, <1>5
<1> QED
  BY <1>4, <1>6 DEF Snapshot

(***************************************************************************)
(* getJointState: current, speed and position are what the motor measured  *)
(* at one instant.                                                         *)
(***************************************************************************)
THEOREM StatesAreTrue == Spec => []MotionTrue
<1>1. ASSUME TypeOK, DeliveredInv, ReadProvenance PROVE MotionTrue
  <2>1. ASSUME NEW t \in Threads, NEW m \in Motors, Succeeded(t, GetJointState(m))
        PROVE  \E rf \in past[m] : Motion(got[t][1]) = MotionAt(rf)
    <3>1. /\ 1 \in DOMAIN GetJointState(m)
          /\ GetJointState(m)[1] = Access(m, "read", 16, 6, 0, TRUE, 6)
      <4> DEFINE first == Access(m, "read", 16, 6, 0, TRUE, 6)
                 rest == Optional(ReadBlock(m, SYS_VOLTAGE, 4) \o GetWorkMode(m))
                 n == Len(ReadBlock(m, SYS_VOLTAGE, 4) \o GetWorkMode(m))
      <4>1. GetJointState(m) = <<first>> \o rest
        BY DEF GetJointState, ReadBlock, CUR_CURRENT_L
      <4>2. rest \in Seq({rest[i] : i \in 1 .. 2})
        BY DEF Optional, ReadBlock, GetWorkMode, ReadRegister
      <4> QED
        BY <4>1, <4>2
    <3>2. PICK rf \in past[m] : \A i \in 1 .. 6 : got[t][1][i] = rf[16 + i - 1]
      <4>1. /\ outcome[t] = "ok" /\ 1 \in DOMAIN task[t]
            /\ task[t][1].cmd = "read" /\ task[t][1].must /\ task[t][1].need = 6
            /\ task[t][1].motor = m /\ task[t][1].reg = 16
        BY <2>1, <3>1 DEF Succeeded, Access
      <4>2. 6 \in Nat \ {0}
        OBVIOUS
      <4> QED
        BY <1>1, <4>1, <4>2, BlockIsTrue
    <3>3. /\ got[t][1][1] = rf[16] /\ got[t][1][2] = rf[17] /\ got[t][1][3] = rf[18]
          /\ got[t][1][4] = rf[19] /\ got[t][1][5] = rf[20] /\ got[t][1][6] = rf[21]
      BY <3>2
    <3> QED
      BY <3>3 DEF Motion, MotionAt, Int32At, CUR_CURRENT_L, CUR_SPEED_L, CUR_POSITION_L
  <2> QED
    BY <2>1 DEF MotionTrue
<1> QED
  BY <1>1, DeliveredInvariant, ReadsAreTrue, PTL

(***************************************************************************)
(* getMotorInfo: firmware and reduction ratio are the motor's, id and      *)
(* model the low bytes of its registers.                                   *)
(***************************************************************************)
THEOREM InfosAreTrue == Spec => []InfoTrue
<1>1. ASSUME TypeOK, DeliveredInv, ReadProvenance PROVE InfoTrue
  <2>1. ASSUME NEW t \in Threads, NEW m \in Motors, Succeeded(t, GetMotorInfo(m))
        PROVE  \E rf \in past[m] : Info(got[t][1]) = InfoAt(rf)
    <3>1. /\ 1 \in DOMAIN GetMotorInfo(m)
          /\ GetMotorInfo(m)[1] = Access(m, "read", 1, 7, 0, TRUE, 7)
      BY DEF GetMotorInfo, ReadBlock, SYS_ID
    <3>2. PICK rf \in past[m] : \A i \in 1 .. 7 : got[t][1][i] = rf[1 + i - 1]
      <4>1. /\ outcome[t] = "ok" /\ 1 \in DOMAIN task[t]
            /\ task[t][1].cmd = "read" /\ task[t][1].must /\ task[t][1].need = 7
            /\ task[t][1].motor = m /\ task[t][1].reg = 1
        BY <2>1, <3>1 DEF Succeeded, Access
      <4>2. 7 \in Nat \ {0}
        OBVIOUS
      <4> QED
        BY <1>1, <4>1, <4>2, BlockIsTrue
    <3>3. /\ got[t][1][1] = rf[1] /\ got[t][1][2] = rf[2] /\ got[t][1][3] = rf[3]
          /\ got[t][1][7] = rf[7]
      BY <3>2
    <3> QED
      BY <3>3 DEF Info, InfoAt, SYS_ID, SYS_MODEL_TYPE, SYS_FW_VERSION, SYS_REDU_RATIO
  <2> QED
    BY <2>1 DEF InfoTrue
<1> QED
  BY <1>1, DeliveredInvariant, ReadsAreTrue, PTL

\* Both: what getJointState and getMotorInfo return was true at one instant.
THEOREM ResultsAreTrue == Spec => []ResultsTrue
<1>1. MotionTrue /\ InfoTrue => ResultsTrue
  BY DEF ResultsTrue
<1> QED
  BY <1>1, StatesAreTrue, InfosAreTrue, PTL
-----------------------------------------------------------------------------
(* Packing *)

\* int32_t
Int32 == {i \in Int : -(32768 * 65536) <= i /\ i < 32768 * 65536}

(***************************************************************************)
(* writeInt32 and unpackInt32 are inverse on every int32_t: the two halves *)
(* are 16-bit values, and joined again they are the number, sign included. *)
(***************************************************************************)
THEOREM PackingIsExact ==
    ASSUME NEW v \in Int32
    PROVE  /\ 0 <= Halves(v).low /\ Halves(v).low < 65536
           /\ 0 <= Halves(v).high /\ Halves(v).high < 65536
           /\ Unpack(Halves(v).low, Halves(v).high) = v
<1>1. v \in Int
  BY SMT DEF Int32
<1>2. PICK high \in Int : high = v \div 65536
  BY <1>1, SMT
<1>3. PICK low \in Int : low = v % 65536
  BY <1>1, SMT
<1>4. v = 65536 * high + low
  BY <1>1, <1>2, <1>3, SMT
<1>5. 0 <= low /\ low < 65536
  BY <1>1, <1>3, SMT
<1>6. -32768 <= high /\ high < 32768
  BY <1>4, <1>5, SMT DEF Int32
<1>7. Halves(v).low = low /\ Halves(v).high = high % 65536
  BY <1>2, <1>3, SMT DEF Halves
<1>8. /\ high % 65536 = IF high >= 0 THEN high ELSE high + 65536
      /\ high % 65536 \in Int
  BY <1>6, SMT
<1>9. 0 <= high % 65536 /\ high % 65536 < 65536
  BY <1>6, <1>8, SMT
<1>10. Signed(high % 65536) = high
  BY <1>6, <1>8, SMT DEF Signed
<1>11. Unpack(low, high % 65536) = v
  BY <1>4, <1>10, SMT DEF Unpack
<1> QED
  BY <1>5, <1>7, <1>9, <1>11, SMT

=============================================================================
