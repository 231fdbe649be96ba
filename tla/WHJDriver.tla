------------------------------ MODULE WHJDriver ------------------------------
(***************************************************************************)
(* The transaction engine of WHJDriver::Impl (src/src/core/driver.cpp):    *)
(* sendAndWait, readRegister(s), writeRegister, and the calls built from   *)
(* them.  Several threads (the user's, the std::async workers, the monitor *)
(* thread) run public calls at the same time on ONE driver object.  A call *)
(* is a sequence of register accesses; an access is a retry loop around    *)
(* sendAndWait; sendAndWait erases the stored response of the motor, sends *)
(* a request frame and waits for the receive thread to store a response    *)
(* under the motor's response id.                                          *)
(*                                                                         *)
(* The motors and the bus are the environment.  A motor serves requests in *)
(* order; the bus keeps the order of frames of one CAN id but may lose any *)
(* of them.  With Timely the round trip of a frame that is not lost is     *)
(* shorter than DriverConfig::timeout_ms; without it an answer may arrive  *)
(* after the wait for it has expired.                                      *)
(***************************************************************************)
EXTENDS Naturals, Sequences

CONSTANTS
    Motors,         \* motor ids on the bus; the response id of m is m + 0x100
    Threads,        \* threads that call the driver
    Regs,           \* register addresses
    Vals,           \* 16-bit register values
    Sensors,        \* registers the motor changes by itself
    InitialFiles,   \* contents the register file of a motor may start with
    Calls,          \* Calls[t]: the calls thread t may make (see DriverCalls)
    InitialRetries, \* retry_count_ of a new driver (3 in the code)
    RetryCounts,    \* arguments of setRetryCount
    MaxRetries,     \* bound: the largest value of retry_count_
    MaxInFlight,    \* bound: frames queued on the bus in one direction per motor
    OneCall,        \* bound: does each thread make one call only?
    Timely,         \* is the round trip always shorter than the timeout?
    NoFrame,        \* "no entry in responses_"
    NoVals          \* "this access has returned no values"

(***************************************************************************)
(* One register access of a call.  must: the call returns failure as soon  *)
(* as this access fails; need: the number of values the call requires the  *)
(* answer to have (values->size() < n).                                    *)
(***************************************************************************)
Steps == [motor : Motors, cmd : {"read", "write"}, reg : Regs, count : Nat,
          val : Vals, must : BOOLEAN, need : Nat]

ASSUME DriverAssumption ==
    /\ Regs \subseteq Nat
    /\ Sensors \subseteq Regs
    /\ InitialFiles \subseteq [Regs -> Vals]
    /\ Calls \in [Threads -> SUBSET Seq(Steps)]
    /\ \A t \in Threads : \A c \in Calls[t] :
         /\ c # << >>
         /\ \A s \in DOMAIN c : \A i \in 1 .. c[s].count : c[s].reg + i - 1 \in Regs
    /\ MaxRetries \in Nat
    /\ InitialRetries \in 0 .. MaxRetries
    /\ RetryCounts \subseteq 0 .. MaxRetries
    /\ MaxInFlight \in Nat \ {0}
    /\ NoVals \notin Seq(Vals)
    /\ OneCall \in BOOLEAN
    /\ Timely \in BOOLEAN

VARIABLES
    initialized,    \* initialized_
    open,           \* is can_ open?
    retry_count,    \* retry_count_
    responses,      \* responses_, keyed by response id
    pc,             \* where each thread is
    task,           \* the call each thread runs, or ran last
    step,           \* index of the current access of the call
    retry,          \* the loop counter of the access
    got,            \* values returned by each access of the call
    outcome,        \* "none" before the first call, then "busy", "ok", "failed"
    requests,       \* request frames between the driver and each motor
    replies,        \* response frames between each motor and handleResponse
    regs,           \* register file of each motor
    past,           \* history: every content each register file has had
    done,           \* history: accesses of the call that the motor has applied
    sample          \* history: the motor's last answer to the current read

driverVars  == <<initialized, open, retry_count>>
threadVars  == <<pc, task, step, retry, got, outcome>>
historyVars == <<past, done, sample>>
vars == <<driverVars, responses, threadVars, requests, replies, regs, historyVars>>

-----------------------------------------------------------------------------
(* Frames *)

Request(s) == [cmd |-> s.cmd, reg |-> s.reg, count |-> s.count, val |-> s.val]

\* The values of count registers from reg on, in the register file rf.
Snapshot(rf, reg, count) == [i \in 1 .. count |-> rf[reg + i - 1]]

ReadReply(rf, q)   == [cmd |-> "read", reg |-> q.reg, ok |-> TRUE,
                       vals |-> Snapshot(rf, q.reg, q.count)]
WriteReply(q, ok)  == [cmd |-> "write", reg |-> q.reg, ok |-> ok, vals |-> << >>]
ErrorReply(q)      == [cmd |-> "err", reg |-> q.reg, ok |-> FALSE, vals |-> << >>]

\* Protocol::parse{Read,Write}Response do not throw.  The response id was
\* compared when the frame was looked up; only a read compares the register.
\* Its form AcceptsAnyRegister forgets that comparison; AnyAnswerSucceeds
\* does not look at the result.  (Operators like these two, here and below,
\* are the bugs the properties are tried against; no specification uses them.)
AcceptsAnyRegister(f, s) == f.cmd = s.cmd

Accepted(f, s) ==
    /\ f.cmd = s.cmd
    /\ s.cmd = "read" => f.reg = s.reg

AnyAnswerSucceeds(f) == TRUE

\* data[2] == WRITE_SUCCESS
WriteSucceeded(f) == f.ok

-----------------------------------------------------------------------------
(* The call of a thread *)

Cur(t) == task[t][step[t]]

Busy(t) == pc[t] # "idle"

Finish(t, result) ==
    /\ pc' = [pc EXCEPT ![t] = "idle"]
    /\ outcome' = [outcome EXCEPT ![t] = result]
    /\ UNCHANGED <<task, step, retry>>

\* The call goes on to its next access, or returns success after the last.
Proceed(t) ==
    IF step[t] = Len(task[t])
    THEN Finish(t, "ok")
    ELSE /\ pc' = [pc EXCEPT ![t] = "enter"]
         /\ step' = [step EXCEPT ![t] = @ + 1]
         /\ UNCHANGED <<task, retry, outcome>>

NeverAborts(s) == FALSE

\* Does the call give up when this access fails?
Aborts(s) == s.must

AccessSucceeds(t, vals) ==
    /\ Proceed(t)
    /\ got' = [got EXCEPT ![t][step[t]] = vals]
    /\ sample' = [sample EXCEPT ![t] = NoVals]

AccessFails(t) ==
    /\ IF Aborts(Cur(t)) THEN Finish(t, "failed") ELSE Proceed(t)
    /\ sample' = [sample EXCEPT ![t] = NoVals]
    /\ UNCHANGED got

AgainUncounted(t) ==
    /\ pc' = [pc EXCEPT ![t] = "loop"]
    /\ UNCHANGED <<retry, task, step, got, outcome, sample>>

\* ++retry: back to the test of the loop.
Again(t) ==
    /\ pc' = [pc EXCEPT ![t] = "loop"]
    /\ retry' = [retry EXCEPT ![t] = @ + 1]
    /\ UNCHANGED <<task, step, got, outcome, sample>>

StartCall(t) ==
    /\ ~Busy(t)
    /\ OneCall => outcome[t] = "none"
    /\ \E c \in Calls[t] :
         /\ task' = [task EXCEPT ![t] = c]
         /\ got' = [got EXCEPT ![t] = [s \in DOMAIN c |-> NoVals]]
    /\ pc' = [pc EXCEPT ![t] = "enter"]
    /\ step' = [step EXCEPT ![t] = 1]
    /\ outcome' = [outcome EXCEPT ![t] = "busy"]
    /\ done' = [done EXCEPT ![t] = {}]
    /\ sample' = [sample EXCEPT ![t] = NoVals]
    /\ UNCHANGED <<driverVars, responses, retry, requests, replies, regs, past>>

\* if (!initialized_) return ...;  then the retry loop starts at 0.
Enter(t) ==
    /\ pc[t] = "enter"
    /\ IF initialized
       THEN /\ pc' = [pc EXCEPT ![t] = "loop"]
            /\ retry' = [retry EXCEPT ![t] = 0]
            /\ UNCHANGED <<task, step, got, outcome, sample>>
       ELSE AccessFails(t)
    /\ UNCHANGED <<driverVars, responses, requests, replies, regs, past, done>>

\* The condition of the for loop is false.
Exhausted(t) == retry[t] >= retry_count

ForgetErase(m) == UNCHANGED responses

\* responses_.erase(response_id)
Erase(m) == responses' = [responses EXCEPT ![m] = NoFrame]

\* The loop is entered: sendAndWait clears the previous response.
BeginAttempt(t) ==
    /\ pc[t] = "loop"
    /\ ~Exhausted(t)
    /\ Erase(Cur(t).motor)
    /\ pc' = [pc EXCEPT ![t] = "send"]
    /\ UNCHANGED <<driverVars, task, step, retry, got, outcome, requests, replies,
                   regs, historyVars>>

\* The loop is exhausted: return nullopt, or false.
GiveUp(t) ==
    /\ pc[t] = "loop"
    /\ Exhausted(t)
    /\ AccessFails(t)
    /\ UNCHANGED <<driverVars, responses, requests, replies, regs, past, done>>

SendWithoutWaiting(t) ==
    /\ pc[t] = "send"
    /\ open
    /\ Len(requests[Cur(t).motor]) < MaxInFlight
    /\ requests' = [requests EXCEPT ![Cur(t).motor] = Append(@, Request(Cur(t)))]
    /\ Again(t)
    /\ UNCHANGED <<driverVars, responses, replies, regs, past, done>>

Send(t) ==
    /\ pc[t] = "send"
    /\ open
    /\ Len(requests[Cur(t).motor]) < MaxInFlight
    /\ requests' = [requests EXCEPT ![Cur(t).motor] = Append(@, Request(Cur(t)))]
    /\ pc' = [pc EXCEPT ![t] = "wait"]
    /\ UNCHANGED <<driverVars, responses, task, step, retry, got, outcome, replies,
                   regs, historyVars>>

\* can_->send returns false: the interface is closed, or the write to the
\* socket failed (for instance because its queue is full).
SendFails(t) ==
    /\ pc[t] = "send"
    /\ Again(t)
    /\ UNCHANGED <<driverVars, responses, requests, replies, regs, past, done>>

\* The wait ends with a response, which is taken out of the map and parsed.
Take(t) ==
    /\ pc[t] = "wait"
    /\ responses[Cur(t).motor] # NoFrame
    /\ Erase(Cur(t).motor)
    /\ LET f == responses[Cur(t).motor]
           s == Cur(t)
       IN  IF ~Accepted(f, s) THEN Again(t)
           ELSE IF s.cmd = "write"
                THEN IF WriteSucceeded(f) THEN AccessSucceeds(t, NoVals)
                                          ELSE AccessFails(t)
                ELSE IF Len(f.vals) >= s.need THEN AccessSucceeds(t, f.vals)
                                              ELSE AccessFails(t)
    /\ UNCHANGED <<driverVars, requests, replies, regs, past, done>>

InFlight(m) == requests[m] # << >> \/ replies[m] # << >>

\* The wait expires.  wait_for looks at the map once more before it gives up.
Timeout(t) ==
    /\ pc[t] = "wait"
    /\ responses[Cur(t).motor] = NoFrame
    /\ Timely => ~InFlight(Cur(t).motor)
    /\ Again(t)
    /\ UNCHANGED <<driverVars, responses, requests, replies, regs, past, done>>

-----------------------------------------------------------------------------
(* The receive thread *)

\* The callback registered by init: the frame replaces any stored one.
HandleResponse(m) ==
    /\ replies[m] # << >>
    /\ responses' = [responses EXCEPT ![m] = Head(replies[m])]
    /\ replies' = [replies EXCEPT ![m] = Tail(@)]
    /\ UNCHANGED <<driverVars, threadVars, requests, regs, historyVars>>

-----------------------------------------------------------------------------
(* Control of the driver *)

\* init on a closed interface; can_->init may fail and then changes nothing.
InitDriver ==
    /\ ~open
    /\ open' = TRUE
    /\ initialized' = TRUE
    /\ UNCHANGED <<retry_count, responses, threadVars, requests, replies, regs,
                   historyVars>>

\* deinit: responses_ and the calls in progress are left alone; what the
\* socket had not delivered yet is lost with it.
Deinit ==
    /\ open
    /\ initialized' = FALSE
    /\ open' = FALSE
    /\ replies' = [m \in Motors |-> << >>]
    /\ UNCHANGED <<retry_count, responses, threadVars, requests, regs, historyVars>>

SetRetryCount ==
    /\ \E n \in RetryCounts : retry_count' = n
    /\ UNCHANGED <<initialized, open, responses, threadVars, requests, replies, regs,
                   historyVars>>

-----------------------------------------------------------------------------
(* The motors and the bus *)

\* Is this request the one the current access of thread t sends?
Serves(t, m, q) == Busy(t) /\ Cur(t).motor = m /\ Request(Cur(t)) = q

Reply(m, f) ==
    replies' = [replies EXCEPT ![m] = IF open THEN Append(@, f) ELSE @]

MotorReads(m) ==
    /\ requests[m] # << >>
    /\ Len(replies[m]) < MaxInFlight
    /\ LET q == Head(requests[m])
       IN  /\ q.cmd = "read"
           /\ Reply(m, ReadReply(regs[m], q))
           /\ sample' = [t \in Threads |-> IF Serves(t, m, q)
                                           THEN Snapshot(regs[m], q.reg, q.count)
                                           ELSE sample[t]]
    /\ requests' = [requests EXCEPT ![m] = Tail(@)]
    /\ UNCHANGED <<driverVars, responses, threadVars, regs, past, done>>

MotorWrites(m) ==
    /\ requests[m] # << >>
    /\ Len(replies[m]) < MaxInFlight
    /\ LET q == Head(requests[m])
       IN  /\ q.cmd = "write"
           /\ Reply(m, WriteReply(q, TRUE))
           /\ regs' = [regs EXCEPT ![m][q.reg] = q.val]
           /\ past' = [past EXCEPT ![m] = @ \cup {[regs[m] EXCEPT ![q.reg] = q.val]}]
           /\ done' = [t \in Threads |-> IF Serves(t, m, q)
                                         THEN done[t] \cup {step[t]} ELSE done[t]]
    /\ requests' = [requests EXCEPT ![m] = Tail(@)]
    /\ UNCHANGED <<driverVars, responses, threadVars, sample>>

\* The motor refuses: a failed write, or an error response to any request.
MotorRefuses(m) ==
    /\ requests[m] # << >>
    /\ Len(replies[m]) < MaxInFlight
    /\ LET q == Head(requests[m])
       IN  \/ Reply(m, ErrorReply(q))
           \/ q.cmd = "write" /\ Reply(m, WriteReply(q, FALSE))
    /\ requests' = [requests EXCEPT ![m] = Tail(@)]
    /\ UNCHANGED <<driverVars, responses, threadVars, regs, historyVars>>

\* Losing a frame when it reaches the head is losing it anywhere on the way.
LoseRequest(m) ==
    /\ requests[m] # << >>
    /\ requests' = [requests EXCEPT ![m] = Tail(@)]
    /\ UNCHANGED <<driverVars, responses, threadVars, replies, regs, historyVars>>

LoseReply(m) ==
    /\ replies[m] # << >>
    /\ replies' = [replies EXCEPT ![m] = Tail(@)]
    /\ UNCHANGED <<driverVars, responses, threadVars, requests, regs, historyVars>>

\* A measured quantity (position, voltage, error code) changes.
MotorEvolves(m) ==
    /\ \E r \in Sensors, v \in Vals :
         /\ regs' = [regs EXCEPT ![m][r] = v]
         /\ past' = [past EXCEPT ![m] = @ \cup {[regs[m] EXCEPT ![r] = v]}]
    /\ UNCHANGED <<driverVars, responses, threadVars, requests, replies, done, sample>>

-----------------------------------------------------------------------------
(* The specification *)

Init ==
    /\ initialized = FALSE
    /\ open = FALSE
    /\ retry_count = InitialRetries
    /\ responses = [m \in Motors |-> NoFrame]
    /\ pc = [t \in Threads |-> "idle"]
    /\ task = [t \in Threads |-> << >>]
    /\ step = [t \in Threads |-> 1]
    /\ retry = [t \in Threads |-> 0]
    /\ got = [t \in Threads |-> << >>]
    /\ outcome = [t \in Threads |-> "none"]
    /\ requests = [m \in Motors |-> << >>]
    /\ replies = [m \in Motors |-> << >>]
    /\ regs \in [Motors -> InitialFiles]
    /\ past = [m \in Motors |-> {regs[m]}]
    /\ done = [t \in Threads |-> {}]
    /\ sample = [t \in Threads |-> NoVals]

\* One step of the code a caller runs inside a call.
CallerStep(t) ==
    \/ Enter(t)
    \/ BeginAttempt(t)
    \/ GiveUp(t)
    \/ Send(t)
    \/ SendFails(t)
    \/ Take(t)
    \/ Timeout(t)

MotorStep(m) ==
    \/ MotorReads(m)
    \/ MotorWrites(m)
    \/ MotorRefuses(m)
    \/ LoseRequest(m)

ReceiveStep(m) == HandleResponse(m) \/ LoseReply(m)

Next ==
    \/ \E t \in Threads : StartCall(t) \/ CallerStep(t)
    \/ \E m \in Motors : MotorStep(m) \/ ReceiveStep(m) \/ MotorEvolves(m)
    \/ InitDriver
    \/ Deinit
    \/ SetRetryCount

Spec == Init /\ [][Next]_vars

(***************************************************************************)
(* The operating system runs every thread, the steady clock makes every    *)
(* wait expire, and a frame on the bus is answered or lost, delivered or   *)
(* lost.  Nobody has to start a call, to (de)initialise the driver, or to  *)
(* move the motor.                                                         *)
(***************************************************************************)
Fairness ==
    /\ \A t \in Threads : WF_vars(CallerStep(t))
    /\ \A m \in Motors : WF_vars(MotorStep(m)) /\ WF_vars(ReceiveStep(m))

FairSpec == Spec /\ Fairness

-----------------------------------------------------------------------------
(* Properties *)

RegFiles == [Regs -> Vals]

Requests == {q \in [cmd : {"read", "write"}, reg : Regs, count : Nat, val : Vals] :
                \A i \in 1 .. q.count : q.reg + i - 1 \in Regs}

Replies == [cmd : {"read", "write", "err"}, reg : Regs, ok : BOOLEAN, vals : Seq(Vals)]

\* Every variable has its type; in particular the loop counter of an access
\* never passes the largest retry count, and a thread inside a call is at an
\* access of a call it may make.
TypeOK ==
    /\ initialized \in BOOLEAN
    /\ open \in BOOLEAN
    /\ retry_count \in 0 .. MaxRetries
    /\ responses \in [Motors -> Replies \cup {NoFrame}]
    /\ pc \in [Threads -> {"idle", "enter", "loop", "send", "wait"}]
    /\ task \in [Threads -> Seq(Steps)]
    /\ step \in [Threads -> Nat]
    /\ retry \in [Threads -> 0 .. MaxRetries]
    /\ outcome \in [Threads -> {"none", "busy", "ok", "failed"}]
    /\ requests \in [Motors -> Seq(Requests)]
    /\ replies \in [Motors -> Seq(Replies)]
    /\ regs \in [Motors -> RegFiles]
    /\ past \in [Motors -> SUBSET RegFiles]
    /\ done \in [Threads -> SUBSET Nat]
    /\ sample \in [Threads -> Seq(Vals) \cup {NoVals}]
    /\ got \in [Threads -> Seq(Seq(Vals) \cup {NoVals})]
    /\ \A t \in Threads :
         /\ pc[t] # "idle" => task[t] \in Calls[t] /\ step[t] \in DOMAIN task[t]
         /\ pc[t] \in {"send", "wait"} => retry[t] < MaxRetries
         /\ DOMAIN got[t] = DOMAIN task[t]

\* Do the registers from reg on hold vals in one of these register files?
HeldIn(files, reg, vals) == \E rf \in files : vals = Snapshot(rf, reg, Len(vals))

(***************************************************************************)
(* What a successful access returned is the content that the registers it  *)
(* asked for had, all at one instant, at some time in the life of the      *)
(* motor: never a value of another register or motor, never a mixture of   *)
(* two instants.  It holds with late and lost frames, retries, and threads *)
(* that share a motor and take each other's responses.                     *)
(***************************************************************************)
ReadProvenance ==
    \A t \in Threads : \A s \in DOMAIN got[t] :
        got[t][s] # NoVals => HeldIn(past[task[t][s].motor], task[t][s].reg, got[t][s])

\* Two threads never call the same motor.
Exclusive ==
    \A t, u \in Threads : t # u =>
        \A c \in Calls[t], d \in Calls[u] :
            \A i \in DOMAIN c, j \in DOMAIN d : c[i].motor # d[j].motor

\* Write s of thread t's call is one the call insists on.
MustWrite(t, s) == task[t][s].cmd = "write" /\ task[t][s].must

(***************************************************************************)
(* A write that the call has gone past, or that belongs to a call that     *)
(* returned success, was applied by the motor during this call.            *)
(***************************************************************************)
AckMeansApplied ==
    \A t \in Threads : \A s \in DOMAIN task[t] :
        /\ MustWrite(t, s)
        /\ outcome[t] = "ok" \/ (Busy(t) /\ s < step[t])
        => s \in done[t]

(***************************************************************************)
(* The writes of a call take effect in order: one is applied only if all   *)
(* those before it were.  After a failure the motor therefore holds a      *)
(* prefix of the values (the high half of a 32-bit target never without    *)
(* the low half, the maximum limit never without the minimum).             *)
(***************************************************************************)
PrefixApplied ==
    \A t \in Threads : \A s \in done[t] :
        \A r \in DOMAIN task[t] : r < s /\ MustWrite(t, r) => r \in done[t]

(***************************************************************************)
(* A value that a read returns is the motor's latest answer to this very   *)
(* access, not what it answered to an earlier one.                         *)
(***************************************************************************)
FreshRead ==
    [][\A t \in Threads : Busy(t) =>
          \A s \in DOMAIN got[t] : got'[t][s] # got[t][s] => got'[t][s] = sample[t]]_vars

(***************************************************************************)
(* No write reaches a motor after the call that made it has returned: the  *)
(* commanded registers change only while a thread is writing to that motor. *)
(***************************************************************************)
NoWriteAfterReturn ==
    [][\A m \in Motors : \A r \in Regs \ Sensors :
          regs'[m][r] # regs[m][r] =>
              \E t \in Threads :
                  Busy(t) /\ Cur(t).motor = m /\ Cur(t).cmd = "write" /\ Cur(t).reg = r]_vars

\* Every call returns, whatever the motors and the bus do.
EveryCallReturns == \A t \in Threads : Busy(t) ~> ~Busy(t)

(***************************************************************************)
(* The engine implements the promise of RegisterService.                   *)
(***************************************************************************)
Service == INSTANCE RegisterService WITH busy <- [t \in Threads |-> Busy(t)]

\* Every step of the engine is a step of the service, or none.
ServiceSpec == Service!Spec
=============================================================================
