--------------------------- MODULE MonitoringProofs ---------------------------
(***************************************************************************)
(* Monitoring, for every number of threads, callbacks and starts.          *)
(*                                                                         *)
(* LatestCallback rests on callback_mutex_ alone.  The other theorems need  *)
(* ~misused: starts and stops have not overlapped and the callback has not *)
(* called the driver.  Their invariant says that at most one thread is in  *)
(* a start or stop, that monitor_thread_ names every thread alive, and     *)
(* that it is empty from the join to the launch, and while monitoring_ is  *)
(* FALSE outside a call.                                                   *)
(***************************************************************************)
EXTENDS Monitoring, TLAPS

\* The callback in progress is the one set.
CallbackInv == TypeOK /\ LatestCallback

AtMostOneCall == \A u, v \in Users : upc[u] # "idle" /\ upc[v] # "idle" => u = v

ThreadNamed == \A k \in Monitors : Alive(k) => monitor_thread = k

PlaceInv(u) ==
    /\ upc[u] \in {"configure", "raise", "launch"} => monitor_thread = NoThread
    /\ upc[u] \in {"join", "joinFirst"} => monitor_thread # NoThread
    /\ upc[u] = "launch" => monitoring

RestInv == (\A u \in Users : upc[u] = "idle") /\ ~monitoring => monitor_thread = NoThread

Orderly ==
    /\ ~terminated
    /\ AtMostOneCall
    /\ ThreadNamed
    /\ \A u \in Users : PlaceInv(u)
    /\ RestInv

ThreadInv == TypeOK /\ (~misused => Orderly)

LEMMA OwnerIsMonitor == NoThread \notin Monitors /\ Monitors \subseteq Nat
  BY MonitoringAssumption DEF Monitors

(***************************************************************************)
(* Every variable has its type, and the thread in a callback holds         *)
(* callback_mutex_.                                                        *)
(***************************************************************************)
LEMMA TypeStep == TypeOK /\ [Next]_vars => TypeOK'
<1> SUFFICES ASSUME TypeOK, [Next]_vars PROVE TypeOK'
  OBVIOUS
<1> USE OwnerIsMonitor, MonitoringAssumption
<1>1. ASSUME NEW u \in Users, SetStateCallback(u) PROVE TypeOK'
  BY <1>1 DEF TypeOK, SetStateCallback, monitorVars, userVars, endVars
<1>2. ASSUME NEW u \in Users, Deinit(u) \/ InitDriver(u) PROVE TypeOK'
  BY <1>2 DEF TypeOK, Deinit, InitDriver, monitorVars, userVars, endVars
<1>3. ASSUME NEW u \in Users, CallStop(u) PROVE TypeOK'
  BY <1>3 DEF TypeOK, CallStop, At, monitorVars, userVars, endVars
<1>4. ASSUME NEW u \in Users, TestJoinable(u) PROVE TypeOK'
  BY <1>4 DEF TypeOK, TestJoinable, At, driverVars, monitorVars, userVars, endVars
<1>5. ASSUME NEW u \in Users, Join(u) \/ JoinLost(u) PROVE TypeOK'
  BY <1>5 DEF TypeOK, Join, JoinLost, At, driverVars, monitorVars, userVars, endVars
<1>6. ASSUME NEW u \in Users, Configure(u) \/ Raise(u) PROVE TypeOK'
  <2>1. ASSUME Configure(u) PROVE TypeOK'
    <3>1. monitor_ids' = arg[u] /\ arg[u] \in Seq(Nat)
      BY <2>1 DEF TypeOK, Configure
    <3> QED BY <2>1, <3>1 DEF TypeOK, Configure, At, monitorVars, endVars
  <2>2. ASSUME Raise(u) PROVE TypeOK'
    BY <2>2 DEF TypeOK, Raise, At, monitorVars, userVars, endVars
  <2> QED BY <1>6, <2>1, <2>2
<1>7. ASSUME NEW u \in Users, Launch(u) PROVE TypeOK'
  BY <1>7 DEF TypeOK, Launch, At, monitorVars, userVars, endVars
<1>8. ASSUME NEW k \in Monitors, MonitorStep(k) PROVE TypeOK'
  <2>1. ASSUME TestMonitoring(k) PROVE TypeOK'
    BY <2>1 DEF TypeOK, TestMonitoring, Moves, driverVars, userVars, endVars
  <2>2. ASSUME NextMotor(k) \/ EnterGet(k) PROVE TypeOK'
    BY <2>2 DEF TypeOK, NextMotor, EnterGet, Moves, driverVars, userVars, endVars
  <2>3. ASSUME NoState(k) PROVE TypeOK'
    <3>1. index' \in [Monitors -> Nat]
      BY <2>3 DEF TypeOK, NoState
    <3>2. mpc' = [mpc EXCEPT ![k] = "for"] /\ mpc[k] \in {"get", "reading"}
      BY <2>3 DEF NoState, Moves
    <3> QED BY <2>3, <3>1, <3>2 DEF TypeOK, NoState, driverVars, userVars, endVars
  <2>4. ASSUME GotState(k) \/ Sleep(k) PROVE TypeOK'
    BY <2>4 DEF TypeOK, GotState, Sleep, Moves, driverVars, userVars, endVars
  <2>5. ASSUME LockAndCall(k) PROVE TypeOK'
    <3>1. CASE state_callback # NoCallback
      BY <2>5, <3>1 DEF TypeOK, LockAndCall, Moves, driverVars, userVars, endVars
    <3>2. CASE state_callback = NoCallback
      <4>1. index' \in [Monitors -> Nat]
        BY <2>5, <3>2 DEF TypeOK, LockAndCall
      <4> QED BY <2>5, <3>2, <4>1 DEF TypeOK, LockAndCall, Moves, driverVars, userVars, endVars
    <3> QED BY <3>1, <3>2
  <2>6. ASSUME CallbackReturns(k) PROVE TypeOK'
    BY <2>6 DEF TypeOK, CallbackReturns, Moves, driverVars, userVars, endVars
  <2> QED BY <1>8, <2>1, <2>2, <2>3, <2>4, <2>5, <2>6 DEF MonitorStep
<1>9. ASSUME NEW k \in Monitors, CallbackSets(k) \/ CallbackStops(k) PROVE TypeOK'
  BY <1>9 DEF TypeOK, CallbackSets, CallbackStops, Moves, driverVars, monitorVars, userVars, endVars
<1>10. ASSUME UNCHANGED vars PROVE TypeOK'
  BY <1>10 DEF TypeOK, vars, driverVars, monitorVars, userVars, endVars
<1> QED
  BY <1>1, <1>2, <1>3, <1>4, <1>5, <1>6, <1>7, <1>8, <1>9, <1>10 DEF Next, UserStep

LEMMA TypeInit == Init => TypeOK
<1> SUFFICES ASSUME Init PROVE TypeOK
  OBVIOUS
<1>1. /\ << >> \in Seq(Nat)
      /\ arg \in [Users -> Seq(Nat)]
      /\ index \in [Monitors -> Nat]
  BY DEF Init
<1> QED
  BY <1>1, OwnerIsMonitor DEF Init, TypeOK

(***************************************************************************)
(* Every variable has its type, and callback_mutex_ is held by the thread  *)
(* that runs the callback, and by no other (driver.cpp 245-248).           *)
(***************************************************************************)
THEOREM MonitoringTypes == Spec => []TypeOK
  BY TypeInit, TypeStep, PTL DEF Spec

(***************************************************************************)
(* setStateCallback needs the mutex that the running callback's thread     *)
(* holds: a callback that runs is the one that is set (driver.cpp 245-247  *)
(* and 528-531).                                                           *)
(***************************************************************************)
THEOREM CallbackIsLatest == Spec => []LatestCallback
<1>1. Init => CallbackInv
  BY TypeInit DEF Init, CallbackInv, LatestCallback
<1>2. CallbackInv /\ [Next]_vars => CallbackInv'
  <2> SUFFICES ASSUME CallbackInv, [Next]_vars PROVE LatestCallback'
    BY TypeStep DEF CallbackInv
  <2> USE OwnerIsMonitor DEF CallbackInv, TypeOK, LatestCallback
  <2>1. ASSUME NEW u \in Users, SetStateCallback(u) PROVE LatestCallback'
    BY <2>1 DEF SetStateCallback, monitorVars
  <2>2. ASSUME NEW u \in Users, Deinit(u) \/ InitDriver(u) \/ CallStop(u) PROVE LatestCallback'
    BY <2>2 DEF Deinit, InitDriver, CallStop, monitorVars
  <2>3. ASSUME NEW u \in Users, UserStep(u) PROVE LatestCallback'
    BY <2>3 DEF UserStep, TestJoinable, Join, JoinLost, Configure, Raise, Launch,
                driverVars, monitorVars
  <2>4. ASSUME NEW k \in Monitors, MonitorStep(k) PROVE LatestCallback'
    <3>1. ASSUME LockAndCall(k) PROVE LatestCallback'
      BY <3>1 DEF LockAndCall, Moves, driverVars
    <3>2. ASSUME CallbackReturns(k) PROVE LatestCallback'
      BY <3>2 DEF CallbackReturns, Moves, driverVars
    <3>3. ASSUME TestMonitoring(k) \/ NextMotor(k) \/ EnterGet(k) \/ NoState(k)
                 \/ GotState(k) \/ Sleep(k)
          PROVE LatestCallback'
      BY <3>3 DEF TestMonitoring, NextMotor, EnterGet, NoState, GotState, Sleep, Moves,
                  driverVars
    <3> QED BY <2>4, <3>1, <3>2, <3>3 DEF MonitorStep
  <2>5. ASSUME NEW k \in Monitors, CallbackSets(k) \/ CallbackStops(k) PROVE LatestCallback'
    BY <2>5 DEF CallbackSets, CallbackStops, Moves, driverVars, monitorVars
  <2>6. ASSUME UNCHANGED vars PROVE LatestCallback'
    BY <2>6 DEF vars, driverVars, monitorVars
  <2> QED BY <2>1, <2>2, <2>3, <2>4, <2>5, <2>6 DEF Next
<1> QED
  BY <1>1, <1>2, PTL DEF Spec, CallbackInv

(***************************************************************************)
(* monitor_thread_ names every thread alive; it is empty from the join of  *)
(* a start to its launch, and whenever monitoring_ is FALSE between calls. *)
(***************************************************************************)
LEMMA ThreadStep == ThreadInv /\ [Next]_vars => ThreadInv'
<1> SUFFICES ASSUME ThreadInv, [Next]_vars PROVE ThreadInv'
  OBVIOUS
<1> USE OwnerIsMonitor, MonitoringAssumption
<1>0. TypeOK'
  BY TypeStep DEF ThreadInv
<1> SUFFICES ASSUME ~misused' PROVE Orderly'
  BY <1>0 DEF ThreadInv
<1>1. TypeOK
  BY DEF ThreadInv
<1>3. ~misused
  BY <1>1 DEF TypeOK, Next, SetStateCallback, Deinit, InitDriver, CallStop, UserStep,
       TestJoinable, Join, JoinLost, Configure, Raise, Launch, MonitorStep,
       TestMonitoring, NextMotor, EnterGet, NoState, GotState, LockAndCall,
       CallbackReturns, Sleep, CallbackSets, CallbackStops, endVars, vars
<1>4. Orderly
  BY <1>3 DEF ThreadInv
<1> USE <1>4 DEF Orderly
<1>5. /\ upc \in [Users -> {"idle", "test", "testFirst", "join", "joinFirst",
                           "configure", "raise", "launch"}]
      /\ DOMAIN mpc = Monitors
      /\ monitoring \in BOOLEAN
  BY <1>1 DEF TypeOK
\* The steps that leave threads, calls and the flag alone.
<1>6. ASSUME UNCHANGED <<mpc, monitor_thread, monitoring, upc, terminated>> PROVE Orderly'
  BY <1>6 DEF AtMostOneCall, ThreadNamed, PlaceInv, RestInv, Alive
<1>7. ASSUME NEW u \in Users, SetStateCallback(u) \/ Deinit(u) \/ InitDriver(u) PROVE Orderly'
  BY <1>6, <1>7 DEF SetStateCallback, Deinit, InitDriver, monitorVars, userVars, endVars
<1>8. ASSUME NEW u \in Users, CallStop(u) PROVE Orderly'
  <2>1. \A v \in Users \ {u} : upc[v] = "idle"
    BY <1>8 DEF CallStop
  <2>2. /\ upc' = [upc EXCEPT ![u] = "test"] \/ upc' = [upc EXCEPT ![u] = "testFirst"]
        /\ UNCHANGED <<mpc, monitor_thread, terminated>>
    BY <1>8 DEF CallStop, At, monitorVars
  <2>3. upc'[u] \in {"test", "testFirst"} /\ \A v \in Users \ {u} : upc'[v] = "idle"
    BY <1>5, <2>1, <2>2
  <2> QED
    BY <2>2, <2>3 DEF AtMostOneCall, ThreadNamed, PlaceInv, RestInv, Alive
<1>9. ASSUME NEW u \in Users, UserStep(u) PROVE Orderly'
  <2>1. upc[u] # "idle"
    BY <1>9 DEF UserStep, TestJoinable, Join, JoinLost, Configure, Raise, Launch, At
  <2>2. \A v \in Users \ {u} : upc[v] = "idle"
    BY <2>1 DEF AtMostOneCall
  <2>3. ASSUME NEW to, upc' = [upc EXCEPT ![u] = to]
        PROVE  upc'[u] = to /\ AtMostOneCall' /\ \A v \in Users \ {u} : upc'[v] = "idle"
    BY <1>5, <2>2, <2>3 DEF AtMostOneCall
  <2>4. ASSUME TestJoinable(u) PROVE Orderly'
    <3>1. PICK to \in {"join", "joinFirst", "idle", "configure"} :
            /\ upc' = [upc EXCEPT ![u] = to]
            /\ to \in {"join", "joinFirst"} <=> monitor_thread # NoThread
      BY <2>4 DEF TestJoinable, At
    <3>2. UNCHANGED <<mpc, monitor_thread, monitoring, terminated>>
      BY <2>4 DEF TestJoinable, driverVars, monitorVars, endVars
    <3> QED BY <2>3, <3>1, <3>2 DEF ThreadNamed, PlaceInv, RestInv, Alive
  <2>5. ASSUME Join(u) PROVE Orderly'
    <3>1. PICK to \in {"idle", "configure"} : upc' = [upc EXCEPT ![u] = to]
      BY <2>5 DEF Join, At
    <3>2. /\ UNCHANGED <<mpc, monitoring, terminated>>
          /\ monitor_thread' = NoThread
          /\ \A k \in Monitors : ~Alive(k)
      BY <2>5 DEF Join, monitorVars, endVars, Alive, ThreadNamed
    <3> QED BY <2>3, <3>1, <3>2 DEF ThreadNamed, PlaceInv, RestInv, Alive
  <2>6. ~JoinLost(u)
    BY DEF JoinLost, PlaceInv
  <2>7. ASSUME Configure(u) \/ Raise(u) PROVE Orderly'
    <3>1. PICK to \in {"raise", "launch"} : upc' = [upc EXCEPT ![u] = to]
      BY <2>7 DEF Configure, Raise, At
    <3>2. /\ monitor_thread = NoThread
          /\ UNCHANGED <<mpc, monitor_thread, terminated>>
          /\ to = "launch" => monitoring'
      BY <2>7, <3>1, <2>3 DEF Configure, Raise, At, PlaceInv, monitorVars, endVars
    <3> QED BY <2>3, <3>1, <3>2 DEF ThreadNamed, PlaceInv, RestInv, Alive
  <2>8. ASSUME Launch(u) PROVE Orderly'
    <3>1. /\ upc' = [upc EXCEPT ![u] = "idle"]
          /\ monitor_thread = NoThread /\ monitoring
          /\ \A k \in Monitors : ~Alive(k)
      BY <2>8 DEF Launch, At, PlaceInv, ThreadNamed
    <3>2. PICK k \in Monitors : /\ mpc' = [mpc EXCEPT ![k] = "while"]
                                /\ monitor_thread' = k
                                /\ UNCHANGED <<terminated, monitoring>>
      BY <2>8, <3>1 DEF Launch
    <3>3. ThreadNamed'
      BY <1>5, <3>1, <3>2 DEF ThreadNamed, Alive
    <3> QED BY <2>3, <3>1, <3>2, <3>3 DEF PlaceInv, RestInv
  <2> QED BY <1>9, <2>4, <2>5, <2>6, <2>7, <2>8 DEF UserStep
<1>10. ASSUME NEW k \in Monitors, MonitorStep(k) PROVE Orderly'
  <2>1. /\ Alive(k)
        /\ \E to : mpc' = [mpc EXCEPT ![k] = to]
        /\ UNCHANGED <<monitor_thread, monitoring, upc, terminated>>
    BY <1>10 DEF MonitorStep, TestMonitoring, NextMotor, EnterGet, NoState, GotState, Alive,
                 LockAndCall, CallbackReturns, Sleep, Moves, driverVars, userVars, endVars
  <2> QED BY <1>5, <2>1 DEF AtMostOneCall, ThreadNamed, PlaceInv, RestInv, Alive
<1>11. ASSUME NEW k \in Monitors PROVE ~CallbackSets(k) /\ ~CallbackStops(k)
  BY DEF CallbackSets, CallbackStops
<1>12. ASSUME UNCHANGED vars PROVE Orderly'
  BY <1>6, <1>12 DEF vars, driverVars, monitorVars, userVars, endVars
<1> QED
  BY <1>7, <1>8, <1>9, <1>10, <1>11, <1>12 DEF Next

LEMMA ThreadInit == Init => ThreadInv
  BY TypeInit DEF Init, ThreadInv, Orderly, AtMostOneCall, ThreadNamed, PlaceInv, RestInv, Alive

LEMMA ThreadsKept == Spec => []ThreadInv
  BY ThreadInit, ThreadStep, PTL DEF Spec

(***************************************************************************)
(* When stopStateMonitoring has returned, no monitor thread is left        *)
(* (driver.cpp 271-276).                                                   *)
(***************************************************************************)
THEOREM StopIsQuiet == Spec => []QuietAfterStop
<1>1. ThreadInv => QuietAfterStop
  BY OwnerIsMonitor DEF ThreadInv, Orderly, ThreadNamed, RestInv, QuietAfterStop
<1> QED BY <1>1, ThreadsKept, PTL

(***************************************************************************)
(* There are never two monitor threads (driver.cpp 261-269).               *)
(***************************************************************************)
THEOREM MonitorIsUnique == Spec => []OneMonitor
<1>1. ThreadInv => OneMonitor
  BY DEF ThreadInv, Orderly, ThreadNamed, OneMonitor
<1> QED BY <1>1, ThreadsKept, PTL

(***************************************************************************)
(* No join and no thread assignment fails (driver.cpp 268 and 274).        *)
(***************************************************************************)
THEOREM ThreadsAreJoined == Spec => []NeverTerminates
<1>1. ThreadInv => NeverTerminates
  BY DEF ThreadInv, Orderly, NeverTerminates
<1> QED BY <1>1, ThreadsKept, PTL

(***************************************************************************)
(* monitor_ids_ is not assigned while a thread goes over it (driver.cpp    *)
(* 240 and 264).                                                           *)
(***************************************************************************)
THEOREM IdsAreStable == Spec => IdsStable
<1>1. ASSUME ThreadInv, ~misused, Next, monitor_ids' # monitor_ids, NEW k \in Monitors
      PROVE  ~Alive(k)
  <2>1. PICK u \in Users : Configure(u)
    BY <1>1 DEF Next, SetStateCallback, Deinit, InitDriver, CallStop, UserStep,
         TestJoinable, Join, JoinLost, Configure, Raise, Launch, MonitorStep,
         TestMonitoring, NextMotor, EnterGet, NoState, GotState, LockAndCall,
         CallbackReturns, Sleep, CallbackSets, CallbackStops, driverVars
  <2> QED BY <1>1, <2>1, OwnerIsMonitor
       DEF ThreadInv, Orderly, ThreadNamed, PlaceInv, Configure, At
<1>2. ThreadInv /\ [Next]_vars
        => [monitor_ids' # monitor_ids /\ ~misused => \A k \in Monitors : ~Alive(k)]_vars
  BY <1>1
<1> QED BY <1>2, ThreadsKept, PTL DEF Spec, IdsStable
=============================================================================
