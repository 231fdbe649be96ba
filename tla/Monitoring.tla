------------------------------ MODULE Monitoring ------------------------------
(***************************************************************************)
(* State monitoring of WHJDriver::Impl (src/src/core/driver.cpp): the      *)
(* monitor thread, its start and stop, the state callback, and deinit      *)
(* while the thread runs.                                                  *)
(*                                                                         *)
(* User threads call the driver; each start makes a new monitor thread.    *)
(* The state callback is user code run by the monitor thread, which holds  *)
(* callback_mutex_ meanwhile; with Reentrant it may call the driver back.  *)
(***************************************************************************)
EXTENDS Naturals, Sequences

CONSTANTS
    Users,          \* threads that call the driver
    Ops,            \* Ops[u]: the operations thread u calls
    Callbacks,      \* functions given to setStateCallback
    IdLists,        \* motor_ids arguments of startStateMonitoring
    MaxStarts,      \* bound: starts, hence monitor threads, in a behaviour
    Reentrant,      \* may the callback call setStateCallback and stop...?
    NoCallback,     \* the empty std::function
    NoThread        \* a std::thread that is not joinable; nobody

Operations == {"set", "start", "stop", "deinit", "init"}

ASSUME MonitoringAssumption ==
    /\ Ops \in [Users -> SUBSET Operations]
    /\ NoCallback \notin Callbacks
    /\ IdLists \subseteq Seq(Nat)
    /\ MaxStarts \in Nat
    /\ Reentrant \in BOOLEAN
    /\ NoThread \notin 1 .. MaxStarts

Monitors == 1 .. MaxStarts

VARIABLES
    initialized,        \* initialized_
    monitoring,         \* monitoring_
    monitor_ids,        \* monitor_ids_
    monitor_thread,     \* monitor_thread_: the thread it can join
    state_callback,     \* state_callback_
    callback_owner,     \* the monitor thread that holds callback_mutex_
    upc,                \* where each user thread is
    arg,                \* the motor_ids argument of the start in progress
    mpc,                \* where each monitor thread is
    index,              \* the for loop of each monitor thread
    running,            \* the callback each monitor thread is in
    terminated,         \* std::terminate was called
    misused             \* history: two threads were in start or stop at once, or
                        \* the callback called the driver

driverVars  == <<initialized, monitoring, monitor_ids, monitor_thread, state_callback>>
monitorVars == <<mpc, index, running, callback_owner>>
userVars    == <<upc, arg>>
endVars     == <<terminated, misused>>
vars == <<driverVars, monitorVars, userVars, endVars>>

\* Next uses none of the operators marked (bug): they are the forms that the
\* properties are tried against.

\* A monitor thread that was created and has not ended.
Alive(k) == mpc[k] \notin {"unborn", "done"}

-----------------------------------------------------------------------------
(* User threads *)

Calls(u, op) == upc[u] = "idle" /\ op \in Ops[u]

At(u, from, to) == upc[u] = from /\ upc' = [upc EXCEPT ![u] = to]

\* (bug) setStateCallback without the lock.
SetUnlocked(u) ==
    /\ Calls(u, "set")
    /\ \E c \in Callbacks \cup {NoCallback} : state_callback' = c
    /\ UNCHANGED <<initialized, monitoring, monitor_ids, monitor_thread, monitorVars,
                   userVars, endVars>>

\* setStateCallback: the assignment needs callback_mutex_.
SetStateCallback(u) ==
    /\ Calls(u, "set")
    /\ callback_owner = NoThread
    /\ \E c \in Callbacks \cup {NoCallback} : state_callback' = c
    /\ UNCHANGED <<initialized, monitoring, monitor_ids, monitor_thread, monitorVars,
                   userVars, endVars>>

\* deinit: the monitor thread is left alone.
Deinit(u) ==
    /\ Calls(u, "deinit")
    /\ initialized' = FALSE
    /\ UNCHANGED <<monitoring, monitor_ids, monitor_thread, state_callback, monitorVars,
                   userVars, endVars>>

InitDriver(u) ==
    /\ Calls(u, "init")
    /\ initialized' = TRUE
    /\ UNCHANGED <<monitoring, monitor_ids, monitor_thread, state_callback, monitorVars,
                   userVars, endVars>>

\* (bug) startStateMonitoring does not stop first.
StartWithoutStop(u) ==
    /\ \/ At(u, "idle", "test") /\ "stop" \in Ops[u] /\ monitoring' = FALSE /\ UNCHANGED arg
       \/ /\ At(u, "idle", "configure") /\ "start" \in Ops[u] /\ UNCHANGED monitoring
          /\ \E k \in Monitors : mpc[k] = "unborn"
          /\ \E ids \in IdLists : arg' = [arg EXCEPT ![u] = ids]
    /\ misused' = (misused \/ \E v \in Users \ {u} : upc[v] # "idle")
    /\ UNCHANGED <<initialized, monitor_ids, monitor_thread, state_callback, monitorVars,
                   terminated>>

\* stopStateMonitoring, by itself or as the first statement of start.
CallStop(u) ==
    /\ \/ At(u, "idle", "test") /\ "stop" \in Ops[u] /\ UNCHANGED arg
       \/ /\ At(u, "idle", "testFirst") /\ "start" \in Ops[u]
          /\ \E k \in Monitors : mpc[k] = "unborn"
          /\ \E ids \in IdLists : arg' = [arg EXCEPT ![u] = ids]
    /\ monitoring' = FALSE
    /\ misused' = (misused \/ \E v \in Users \ {u} : upc[v] # "idle")
    /\ UNCHANGED <<initialized, monitor_ids, monitor_thread, state_callback, monitorVars,
                   terminated>>

\* (bug) stop only lowers the flag.
ReturnAtOnce(u) ==
    /\ At(u, "test", "idle") \/ At(u, "testFirst", "configure")
    /\ UNCHANGED <<driverVars, monitorVars, arg, endVars>>

\* if (monitor_thread_.joinable())
TestJoinable(u) ==
    /\ IF monitor_thread # NoThread
       THEN At(u, "test", "join") \/ At(u, "testFirst", "joinFirst")
       ELSE At(u, "test", "idle") \/ At(u, "testFirst", "configure")
    /\ UNCHANGED <<driverVars, monitorVars, arg, endVars>>

\* (bug) The thread is detached instead of joined.
DetachThread(u) ==
    /\ At(u, "join", "idle") \/ At(u, "joinFirst", "configure")
    /\ monitor_thread' = NoThread
    /\ UNCHANGED <<initialized, monitoring, monitor_ids, state_callback, monitorVars, arg,
                   endVars>>

\* join() returns when the thread has ended.
Join(u) ==
    /\ monitor_thread # NoThread
    /\ mpc[monitor_thread] = "done"
    /\ At(u, "join", "idle") \/ At(u, "joinFirst", "configure")
    /\ monitor_thread' = NoThread
    /\ UNCHANGED <<initialized, monitoring, monitor_ids, state_callback, monitorVars, arg,
                   endVars>>

\* join() on a thread that another user has joined in the meantime: it throws,
\* and nothing in the driver catches the exception.
JoinLost(u) ==
    /\ upc[u] \in {"join", "joinFirst"}
    /\ monitor_thread = NoThread
    /\ terminated' = TRUE
    /\ UNCHANGED <<driverVars, monitorVars, userVars, misused>>

\* startStateMonitoring goes on: monitor_ids_ = motor_ids; ...
Configure(u) ==
    /\ At(u, "configure", "raise")
    /\ monitor_ids' = arg[u]
    /\ UNCHANGED <<initialized, monitoring, monitor_thread, state_callback, monitorVars, arg,
                   endVars>>

\* ... monitoring_ = true; ...
Raise(u) ==
    /\ At(u, "raise", "launch")
    /\ monitoring' = TRUE
    /\ UNCHANGED <<initialized, monitor_ids, monitor_thread, state_callback, monitorVars, arg,
                   endVars>>

\* ... monitor_thread_ = std::thread(...).  Assigning to a thread that is
\* joinable calls std::terminate.
Launch(u) ==
    /\ At(u, "launch", "idle")
    /\ IF monitor_thread # NoThread
       THEN terminated' = TRUE /\ UNCHANGED <<monitor_thread, mpc>>
       ELSE /\ UNCHANGED terminated
            /\ \E k \in Monitors :
                 /\ mpc[k] = "unborn"
                 /\ \A j \in 1 .. k - 1 : mpc[j] # "unborn"
                 /\ mpc' = [mpc EXCEPT ![k] = "while"]
                 /\ monitor_thread' = k
    /\ UNCHANGED <<initialized, monitoring, monitor_ids, state_callback, index, running,
                   callback_owner, arg, misused>>

-----------------------------------------------------------------------------
(* The monitor threads *)

Moves(k, from, to) == mpc[k] = from /\ mpc' = [mpc EXCEPT ![k] = to]

\* (bug) while (true)
LoopForever(k) ==
    /\ Moves(k, "while", "for")
    /\ index' = [index EXCEPT ![k] = 1]
    /\ UNCHANGED <<driverVars, userVars, running, callback_owner, endVars>>

\* while (monitoring_)
TestMonitoring(k) ==
    /\ IF monitoring THEN Moves(k, "while", "for") ELSE Moves(k, "while", "done")
    /\ index' = [index EXCEPT ![k] = 1]
    /\ UNCHANGED <<driverVars, userVars, running, callback_owner, endVars>>

\* for (id : monitor_ids_) { if (!monitoring_) break; ...
NextMotor(k) ==
    /\ IF index[k] <= Len(monitor_ids) /\ monitoring
       THEN Moves(k, "for", "get") ELSE Moves(k, "for", "sleep")
    /\ UNCHANGED <<driverVars, userVars, index, running, callback_owner, endVars>>

\* getJointState returns at once if the driver is not initialised.
EnterGet(k) ==
    /\ initialized
    /\ Moves(k, "get", "reading")
    /\ UNCHANGED <<driverVars, userVars, index, running, callback_owner, endVars>>

\* getJointState returns nullopt: on to the next motor.
NoState(k) ==
    /\ Moves(k, "reading", "for") \/ (~initialized /\ Moves(k, "get", "for"))
    /\ index' = [index EXCEPT ![k] = @ + 1]
    /\ UNCHANGED <<driverVars, userVars, running, callback_owner, endVars>>

\* getJointState returns a state.
GotState(k) ==
    /\ Moves(k, "reading", "lock")
    /\ UNCHANGED <<driverVars, userVars, index, running, callback_owner, endVars>>

\* lock_guard; if (state_callback_) state_callback_(id, *state);
LockAndCall(k) ==
    /\ callback_owner = NoThread
    /\ IF state_callback # NoCallback
       THEN /\ Moves(k, "lock", "call")
            /\ callback_owner' = k
            /\ running' = [running EXCEPT ![k] = state_callback]
            /\ UNCHANGED index
       ELSE /\ Moves(k, "lock", "for")
            /\ index' = [index EXCEPT ![k] = @ + 1]
            /\ UNCHANGED <<callback_owner, running>>
    /\ UNCHANGED <<driverVars, userVars, endVars>>

CallbackReturns(k) ==
    /\ Moves(k, "call", "for")
    /\ index' = [index EXCEPT ![k] = @ + 1]
    /\ callback_owner' = NoThread
    /\ running' = [running EXCEPT ![k] = NoCallback]
    /\ UNCHANGED <<driverVars, userVars, endVars>>

\* The callback calls setStateCallback: the thread waits for the mutex it holds.
CallbackSets(k) ==
    /\ Reentrant
    /\ Moves(k, "call", "wedged")
    /\ misused' = TRUE
    /\ UNCHANGED <<driverVars, userVars, index, running, callback_owner, terminated>>

\* The callback calls stopStateMonitoring or startStateMonitoring: a thread
\* that joins itself gets an exception, which leaves the thread function.
CallbackStops(k) ==
    /\ Reentrant
    /\ mpc[k] = "call"
    /\ monitoring' = FALSE
    /\ terminated' = TRUE
    /\ misused' = TRUE
    /\ UNCHANGED <<initialized, monitor_ids, monitor_thread, state_callback, monitorVars,
                   userVars>>

\* sleep for the rest of the interval.
Sleep(k) ==
    /\ Moves(k, "sleep", "while")
    /\ UNCHANGED <<driverVars, userVars, index, running, callback_owner, endVars>>

-----------------------------------------------------------------------------
Init ==
    /\ initialized = FALSE
    /\ monitoring = FALSE
    /\ monitor_ids = << >>
    /\ monitor_thread = NoThread
    /\ state_callback = NoCallback
    /\ callback_owner = NoThread
    /\ upc = [u \in Users |-> "idle"]
    /\ arg = [u \in Users |-> << >>]
    /\ mpc = [k \in Monitors |-> "unborn"]
    /\ index = [k \in Monitors |-> 1]
    /\ running = [k \in Monitors |-> NoCallback]
    /\ terminated = FALSE
    /\ misused = FALSE

\* The steps of a call that user u has begun.
UserStep(u) == TestJoinable(u) \/ Join(u) \/ JoinLost(u) \/ Configure(u) \/ Raise(u) \/ Launch(u)

MonitorStep(k) ==
    \/ TestMonitoring(k)
    \/ NextMotor(k)
    \/ EnterGet(k)
    \/ NoState(k)
    \/ GotState(k)
    \/ LockAndCall(k)
    \/ CallbackReturns(k)
    \/ Sleep(k)

Next ==
    /\ ~terminated
    /\ \/ \E u \in Users :
             SetStateCallback(u) \/ Deinit(u) \/ InitDriver(u) \/ CallStop(u) \/ UserStep(u)
       \/ \E k \in Monitors : MonitorStep(k) \/ CallbackSets(k) \/ CallbackStops(k)

Spec == Init /\ [][Next]_vars

(***************************************************************************)
(* Threads run, getJointState returns (see WHJDriver!EveryCallReturns), a  *)
(* callback returns, and sleep_for ends.  Nobody has to call the driver.   *)
(***************************************************************************)
FairSpec ==
    /\ Spec
    /\ \A u \in Users : WF_vars(~terminated /\ UserStep(u))
    /\ \A k \in Monitors : WF_vars(~terminated /\ MonitorStep(k))

-----------------------------------------------------------------------------
(* Properties *)

\* Every variable has its type, and callback_mutex_ is held by the thread
\* that is in the callback.
TypeOK ==
    /\ initialized \in BOOLEAN
    /\ monitoring \in BOOLEAN
    /\ terminated \in BOOLEAN
    /\ misused \in BOOLEAN
    /\ monitor_ids \in Seq(Nat)
    /\ monitor_thread \in Monitors \cup {NoThread}
    /\ state_callback \in Callbacks \cup {NoCallback}
    /\ callback_owner \in Monitors \cup {NoThread}
    /\ upc \in [Users -> {"idle", "test", "testFirst", "join", "joinFirst",
                          "configure", "raise", "launch"}]
    /\ arg \in [Users -> Seq(Nat)]
    /\ mpc \in [Monitors -> {"unborn", "while", "for", "get", "reading", "lock", "call",
                             "wedged", "sleep", "done"}]
    /\ index \in [Monitors -> Nat]
    /\ running \in [Monitors -> Callbacks \cup {NoCallback}]
    /\ \A k \in Monitors : mpc[k] \in {"call", "wedged"} <=> callback_owner = k

(***************************************************************************)
(* The properties below that say ~misused are about programs that keep two *)
(* rules: start and stop are not called while another thread is in one of  *)
(* them, and the callback does not call the driver.  setStateCallback,     *)
(* init and deinit may come from any thread at any moment.                 *)
(***************************************************************************)

(***************************************************************************)
(* The iterator of the range-for over monitor_ids_ stays valid: the vector *)
(* is not assigned while a monitor thread may be going over it.            *)
(***************************************************************************)
IdsStable ==
    [][monitor_ids' # monitor_ids /\ ~misused => \A k \in Monitors : ~Alive(k)]_vars

(***************************************************************************)
(* setStateCallback returns only when the callback it replaces is not      *)
(* running, so its captures may be destroyed: a callback that runs is the  *)
(* one that is set, in every program.                                      *)
(***************************************************************************)
LatestCallback ==
    \A k \in Monitors : mpc[k] = "call" => running[k] = state_callback

(***************************************************************************)
(* When stopStateMonitoring has returned and nobody has started again, no  *)
(* monitor thread is left: no callback and no CAN traffic come any more.   *)
(***************************************************************************)
QuietAfterStop ==
    ~misused /\ ~monitoring /\ (\A u \in Users : upc[u] = "idle")
        => \A k \in Monitors : ~Alive(k)

\* Never two monitor threads, which would poll the same motors at once.
OneMonitor == ~misused => \A j, k \in Monitors : Alive(j) /\ Alive(k) => j = k

\* std::terminate is not called: no join and no thread assignment fails.
NeverTerminates == terminated => misused

\* stopStateMonitoring returns.
StopReturns == \A u \in Users : upc[u] = "test" ~> (upc[u] = "idle" \/ misused)
=============================================================================
