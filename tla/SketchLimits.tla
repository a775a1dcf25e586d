----------------------------- MODULE SketchLimits -----------------------------
(***************************************************************************)
(* The host's limit values for sketches and the builders that produce      *)
(* them: fuel, epoch, blob and execution limits and the compiler           *)
(* configuration.  usize arithmetic is checked: a sum or product beyond    *)
(* UsizeMax is None, which the builders turn into an error.                *)
(***************************************************************************)
EXTENDS Integers

CONSTANTS UsizeMax,         \* usize::MAX
          U32Max,           \* u32::MAX, the widest length of the guest ABI
          MaxGuestThreads,  \* MAX_GUEST_THREADS_V1
          Reservation,      \* THREADED_RUST_RESERVATION_BYTES
          MaxBytes          \* bound on the byte counts that are tried

VARIABLES made,             \* the value built so far, [of |-> its type, ...]
          error             \* the error of the last builder call, or ""

vars == <<made, error>>

Checked(n) == n <= UsizeMax

FuelValid(f) ==
    /\ f.root # 0 /\ f.child # 0
    /\ f.total >= f.root /\ f.total - f.root >= f.child
ChildSliceCapacity(f) ==
    LET n == (f.total - f.root) \div f.child IN IF n < MaxGuestThreads THEN n ELSE MaxGuestThreads

EpochValid(e) == e.deadline # 0 /\ e.tick # 0 /\ e.registrations # 0

BlobNewValid(chunk, blob, sketch) ==
    /\ chunk # 0 /\ blob >= chunk /\ sketch >= blob
    /\ Checked(3 * sketch) /\ Checked(3 * sketch + chunk)
BlobNew(chunk, blob, sketch) ==
    [of |-> "blob", chunk |-> chunk, blob |-> blob, sketch |-> sketch,
     transfer |-> 3 * sketch + chunk, idle |-> 5]

DefaultFuel == [of |-> "fuel", total |-> MaxGuestThreads + 1, root |-> 1, child |-> 1]
DefaultEpoch == [of |-> "epoch", deadline |-> 30, tick |-> 1, registrations |-> MaxGuestThreads + 1]
ExecValid(x) ==
    /\ x.memory >= Reservation /\ x.roots # 0
    /\ FuelValid(x.fuel) /\ EpochValid(x.epoch)
ExecDefault == [of |-> "exec", memory |-> Reservation, roots |-> 1,
                fuel |-> DefaultFuel, epoch |-> DefaultEpoch]

Reject(e) == error' = e /\ UNCHANGED made
Accept(v) == made' = v /\ error' = ""
Nothing == [of |-> "nothing"]

NewFuel(total, root, child) ==
    /\ made = Nothing
    /\ LET f == [of |-> "fuel", total |-> total, root |-> root, child |-> child]
       IN  IF FuelValid(f) THEN Accept(f) ELSE Reject("InvalidFuelLimits")
NewEpoch(deadline, tick, registrations) ==
    /\ made = Nothing
    /\ LET e == [of |-> "epoch", deadline |-> deadline, tick |-> tick, registrations |-> registrations]
       IN  IF EpochValid(e) THEN Accept(e) ELSE Reject("InvalidEpochLimits")
NewBlob(chunk, blob, sketch) ==
    /\ made = Nothing
    /\ IF BlobNewValid(chunk, blob, sketch) /\ chunk <= U32Max
       THEN Accept(BlobNew(chunk, blob, sketch)) ELSE Reject("InvalidExecutionLimits")
NewExec(memory, roots) ==
    /\ made = Nothing
    /\ LET x == [ExecDefault EXCEPT !.memory = memory, !.roots = roots]
       IN  IF ExecValid(x) THEN Accept(x) ELSE Reject("InvalidExecutionLimits")

WithMaximumTransferBytes(maximum) ==
    /\ made.of = "blob"
    /\ LET minimum == 2 * made.chunk + made.sketch
       IN  IF Checked(2 * made.chunk) /\ Checked(minimum) /\ maximum >= minimum
           THEN Accept([made EXCEPT !.transfer = maximum])
           ELSE Reject("InvalidExecutionLimits")
WithProgressIdleTimeout(timeout) ==
    /\ made.of = "blob"
    /\ IF timeout = 0 THEN Reject("InvalidExecutionLimits")
       ELSE Accept([made EXCEPT !.idle = timeout])
WithFuelLimits(f) ==
    /\ made.of = "exec"
    /\ IF FuelValid(f) THEN Accept([made EXCEPT !.fuel = f]) ELSE Reject("InvalidFuelLimits")
WithEpochLimits(e) ==
    /\ made.of = "exec"
    /\ IF EpochValid(e) THEN Accept([made EXCEPT !.epoch = e]) ELSE Reject("InvalidEpochLimits")
\* SketchCompilerConfig::new and with_execution_limits.
NewConfig(stack) ==
    /\ made.of = "exec"
    /\ IF stack = 0 THEN Reject("InvalidStackLimit")
       ELSE IF ~ExecValid(made) THEN Reject("InvalidExecutionLimits")
       ELSE Accept([of |-> "config", stack |-> stack, exec |-> made])
ConfigWithEpochLimits(e) ==
    /\ made.of = "config"
    /\ IF EpochValid(e) THEN Accept([made EXCEPT !.exec.epoch = e])
       ELSE Reject("InvalidEpochLimits")

Fuels == [of : {"fuel"}, total : {0, 2, 3}, root : 0..1, child : 0..2]
Epochs == [of : {"epoch"}, deadline : 0..1, tick : 0..1, registrations : 0..1]

Init == made = Nothing /\ error = ""
Next ==
    \/ \E t \in 0..UsizeMax, r \in 0..3, c \in 0..3 : NewFuel(t, r, c)
    \/ \E d \in 0..1, t \in 0..1, n \in 0..2 : NewEpoch(d, t, n)
    \/ \E c \in 0..MaxBytes, b \in 0..MaxBytes, s \in 0..MaxBytes : NewBlob(c, b, s)
    \/ \E m \in 0..(Reservation + 1), r \in 0..2 : NewExec(m, r)
    \/ \E m \in 0..UsizeMax : WithMaximumTransferBytes(m)
    \/ \E t \in 0..1 : WithProgressIdleTimeout(t)
    \/ \E f \in Fuels : WithFuelLimits(f)
    \/ \E e \in Epochs : WithEpochLimits(e) \/ ConfigWithEpochLimits(e)
    \/ \E s \in 0..1 : NewConfig(s)
Spec == Init /\ [][Next]_vars

(***************************************************************************)
(* Properties.                                                             *)
(***************************************************************************)
FuelLeavesRoom(f) ==
    /\ ChildSliceCapacity(f) \in 1..MaxGuestThreads
    /\ f.root + ChildSliceCapacity(f) * f.child <= f.total
ExecLeavesRoom(x) ==
    /\ FuelLeavesRoom(x.fuel) /\ x.memory >= Reservation
    /\ x.roots >= 1 /\ x.epoch.tick >= 1 /\ x.epoch.registrations >= 1

\* Every limit value the builders hand out leaves room to run: the fuel
\* partition never overspends its total and always holds one bounded child
\* (child_slice_capacity), a transfer budget always covers a full sketch and
\* the chunk in flight on both sides (with_maximum_transfer_bytes), and an
\* execution budget holds the whole reservation of one root.
LimitsLeaveRoom ==
    CASE made.of = "fuel" -> FuelLeavesRoom(made)
      [] made.of = "blob" -> /\ made.transfer >= made.sketch + 2 * made.chunk
                             /\ made.transfer <= UsizeMax /\ made.idle # 0
                             /\ made.chunk \in 1..U32Max
                             /\ made.chunk <= made.blob /\ made.blob <= made.sketch
      [] made.of = "exec" -> ExecLeavesRoom(made)
      [] made.of = "config" -> ExecLeavesRoom(made.exec) /\ made.stack # 0
      [] OTHER -> TRUE
===============================================================================
