--------------------------- MODULE RegisterService ---------------------------
(***************************************************************************)
(* What the driver promises the caller of a register access (driver.hpp):  *)
(* frames, retries, timeouts and the response map are gone.  While a call  *)
(* runs, the motor may apply its current write, or answer its current      *)
(* read, any number of times; the call moves on with success only after a  *)
(* write was applied, or with the latest answer to a read; and it may      *)
(* report failure at any time, whether or not the motor acted.             *)
(***************************************************************************)
EXTENDS Naturals, Sequences

CONSTANTS Motors, Threads, Regs, Vals, Sensors, Calls, NoVals

VARIABLES task, step, busy, got, outcome, regs, done, sample

vars == <<task, step, busy, got, outcome, regs, done, sample>>

Access(t) == task[t][step[t]]

Content(m, reg, count) == [i \in 1 .. count |-> regs[m][reg + i - 1]]

Init ==
    /\ task = [t \in Threads |-> << >>]
    /\ step = [t \in Threads |-> 1]
    /\ busy = [t \in Threads |-> FALSE]
    /\ got = [t \in Threads |-> << >>]
    /\ outcome = [t \in Threads |-> "none"]
    /\ regs \in [Motors -> [Regs -> Vals]]
    /\ done = [t \in Threads |-> {}]
    /\ sample = [t \in Threads |-> NoVals]

Invoke(t) ==
    /\ ~busy[t]
    /\ \E c \in Calls[t] :
         /\ task' = [task EXCEPT ![t] = c]
         /\ got' = [got EXCEPT ![t] = [s \in DOMAIN c |-> NoVals]]
    /\ busy' = [busy EXCEPT ![t] = TRUE]
    /\ step' = [step EXCEPT ![t] = 1]
    /\ outcome' = [outcome EXCEPT ![t] = "busy"]
    /\ done' = [done EXCEPT ![t] = {}]
    /\ sample' = [sample EXCEPT ![t] = NoVals]
    /\ UNCHANGED regs

\* The motor applies the current write (a retry may make it do so again).
Apply(t) ==
    /\ busy[t]
    /\ Access(t).cmd = "write"
    /\ regs' = [regs EXCEPT ![Access(t).motor][Access(t).reg] = Access(t).val]
    /\ done' = [done EXCEPT ![t] = @ \cup {step[t]}]
    /\ UNCHANGED <<task, step, busy, got, outcome, sample>>

\* The motor answers the current read with what the registers hold now.
Answer(t) ==
    /\ busy[t]
    /\ Access(t).cmd = "read"
    /\ sample' = [sample EXCEPT
                    ![t] = Content(Access(t).motor, Access(t).reg, Access(t).count)]
    /\ UNCHANGED <<task, step, busy, got, outcome, regs, done>>

Return(t, result) ==
    /\ busy' = [busy EXCEPT ![t] = FALSE]
    /\ outcome' = [outcome EXCEPT ![t] = result]
    /\ UNCHANGED step

MoveOn(t) ==
    IF step[t] = Len(task[t])
    THEN Return(t, "ok")
    ELSE /\ step' = [step EXCEPT ![t] = @ + 1]
         /\ UNCHANGED <<busy, outcome>>

Succeed(t) ==
    /\ busy[t]
    /\ \/ /\ Access(t).cmd = "write"
          /\ step[t] \in done[t]
          /\ UNCHANGED got
       \/ /\ Access(t).cmd = "read"
          /\ sample[t] # NoVals
          /\ got' = [got EXCEPT ![t][step[t]] = sample[t]]
    /\ MoveOn(t)
    /\ sample' = [sample EXCEPT ![t] = NoVals]
    /\ UNCHANGED <<task, regs, done>>

Fail(t) ==
    /\ busy[t]
    /\ IF Access(t).must THEN Return(t, "failed") ELSE MoveOn(t)
    /\ sample' = [sample EXCEPT ![t] = NoVals]
    /\ UNCHANGED <<task, got, regs, done>>

Evolve(m) ==
    /\ \E r \in Sensors, v \in Vals : regs' = [regs EXCEPT ![m][r] = v]
    /\ UNCHANGED <<task, step, busy, got, outcome, done, sample>>

Next ==
    \/ \E t \in Threads : Invoke(t) \/ Apply(t) \/ Answer(t) \/ Succeed(t) \/ Fail(t)
    \/ \E m \in Motors : Evolve(m)

Spec == Init /\ [][Next]_vars
=============================================================================
