---------------------------- MODULE AsyncSignals ----------------------------
(***************************************************************************)
(* The cancellation domain and the progress watch of the async engine      *)
(* (async_engine.rs).  Every waiter is a task that runs                    *)
(*     cancellable(token, progress_timeout(idle, watch, transfer))         *)
(* on one thread while cancellers and a progress reporter run on others.   *)
(* A step is what one thread does between two accesses to the shared flag, *)
(* the shared timestamp or the shared notification.                        *)
(***************************************************************************)
EXTENDS Naturals

CONSTANTS Waiters, Cancellers,
          Idle,      \* the idle budget, in ticks
          MaxTime    \* bound: the clock stops here

VARIABLES
  cancelled,   \* CancellationState.cancelled
  canceller,   \* canceller -> where its cancel() stands
  now, last,   \* the clock; ProgressState.last_progress
  reporter,    \* where report_progress stands
  ready,       \* waiters whose transfer has produced its output
  pc,          \* waiter -> the step its current poll takes next
  heard,       \* waiter -> its cancellation Notified: none, armed, woken
  felt,        \* waiter -> its progress Notified: none, armed, woken
  deadline,    \* waiter -> deadline of its progress sleep
  late,        \* waiter -> this poll began after every cancel() had returned
  verdict      \* waiter -> age of the last progress when it reported a stall

vars == <<cancelled, canceller, now, last, reporter, ready, pc, heard, felt,
          deadline, late, verdict>>

TypeOK ==
  /\ cancelled \in BOOLEAN
  /\ canceller \in [Cancellers -> {"idle", "swapped", "returned"}]
  /\ now \in 0 .. MaxTime /\ last \in 0 .. now
  /\ reporter \in {"idle", "wrote"}
  /\ ready \subseteq Waiters
  /\ pc \in [Waiters -> {"check", "register", "recheck", "await", "watch",
                         "observe", "select", "judge", "parked",
                         "Cancelled", "Output", "Stalled"}]
  /\ heard \in [Waiters -> {"none", "armed", "woken"}]
  /\ felt \in [Waiters -> {"none", "armed", "woken"}]
  /\ deadline \in [Waiters -> 0 .. MaxTime + Idle]
  /\ late \in [Waiters -> BOOLEAN]
  /\ verdict \in [Waiters -> 0 .. MaxTime + Idle]

Init ==
  /\ cancelled = FALSE /\ canceller = [c \in Cancellers |-> "idle"]
  /\ now = 0 /\ last = 0 /\ reporter = "idle" /\ ready = {}
  /\ pc = [w \in Waiters |-> "check"]
  /\ heard = [w \in Waiters |-> "none"] /\ felt = [w \in Waiters |-> "none"]
  /\ deadline = [w \in Waiters |-> 0] /\ late = [w \in Waiters |-> FALSE]
  /\ verdict = [w \in Waiters |-> Idle]

\* tokio's Notify::notify_waiters: every Notified that exists is completed,
\* and nothing is kept for one that is created later.
Notified(f) == [w \in Waiters |-> IF f[w] = "armed" THEN "woken" ELSE f[w]]

(* ------------------------------ cancelling ------------------------------ *)
\* CancellationSource::cancel: only the call whose swap turns the flag goes
\* on to notify; any other call returns at once.
Cancel(c) ==
  /\ canceller[c] = "idle" /\ cancelled' = TRUE
  /\ canceller' = [canceller EXCEPT ![c] = IF cancelled THEN "returned" ELSE "swapped"]
  /\ UNCHANGED <<now, last, reporter, ready, pc, heard, felt, deadline, late, verdict>>

CancelNotifies(c) ==
  /\ canceller[c] = "swapped"
  /\ canceller' = [canceller EXCEPT ![c] = "returned"] /\ heard' = Notified(heard)
  /\ UNCHANGED <<cancelled, now, last, reporter, ready, pc, felt, deadline, late, verdict>>

\* Every cancel() that was called has also returned.
CancelReturned == cancelled /\ \A c \in Cancellers : canceller[c] # "swapped"

(* ------------------------------- progress ------------------------------- *)
\* restart_idle_window: the timestamp is written under the mutex, then every
\* registered watch is notified; report_progress is the same call.
ReportWrites ==
  /\ reporter = "idle" /\ reporter' = "wrote" /\ last' = now
  /\ UNCHANGED <<cancelled, canceller, now, ready, pc, heard, felt, deadline, late, verdict>>

ReportNotifies ==
  /\ reporter = "wrote" /\ reporter' = "idle" /\ felt' = Notified(felt)
  /\ UNCHANGED <<cancelled, canceller, now, last, ready, pc, heard, deadline, late, verdict>>

Tick ==
  /\ now < MaxTime /\ now' = now + 1
  /\ UNCHANGED <<cancelled, canceller, last, reporter, ready, pc, heard, felt,
                 deadline, late, verdict>>

TransferReady(w) ==
  /\ w \notin ready /\ ready' = ready \cup {w}
  /\ UNCHANGED <<cancelled, canceller, now, last, reporter, pc, heard, felt,
                 deadline, late, verdict>>

(* -------------------------- CancellationToken --------------------------- *)
To(w, step) == pc' = [pc EXCEPT ![w] = step]

\* The executor polls a parked task: one of its wakers fired.  A poll resumes
\* inside cancelled(), which cancellable's biased select polls first.
Poll(w) ==
  /\ pc[w] = "parked"
  /\ \/ heard[w] = "woken" \/ felt[w] = "woken" \/ w \in ready \/ deadline[w] <= now
  /\ To(w, "await") /\ late' = [late EXCEPT ![w] = CancelReturned]
  /\ UNCHANGED <<cancelled, canceller, now, last, reporter, ready, heard, felt,
                 deadline, verdict>>

\* CancellationToken::cancelled, its first look at the flag.
CheckFlag(w) ==
  /\ pc[w] = "check" /\ To(w, IF cancelled THEN "Cancelled" ELSE "register")
  /\ UNCHANGED <<cancelled, canceller, now, last, reporter, ready, heard, felt,
                 deadline, late, verdict>>

RegisterOnly(w) ==
  /\ pc[w] = "register" /\ To(w, "await")
  /\ heard' = [heard EXCEPT ![w] = "armed"]
  /\ UNCHANGED <<cancelled, canceller, now, last, reporter, ready, felt, deadline,
                 late, verdict>>

\* notify.notified() and enable(): from here on a notification is received.
Register(w) ==
  /\ pc[w] = "register" /\ To(w, "recheck")
  /\ heard' = [heard EXCEPT ![w] = "armed"]
  /\ UNCHANGED <<cancelled, canceller, now, last, reporter, ready, felt, deadline,
                 late, verdict>>

\* The second look at the flag, after the registration.
RecheckFlag(w) ==
  /\ pc[w] = "recheck" /\ To(w, IF cancelled THEN "Cancelled" ELSE "await")
  /\ UNCHANGED <<cancelled, canceller, now, last, reporter, ready, heard, felt,
                 deadline, late, verdict>>

\* notified.await: a completed notification loops to the first check, a
\* pending one lets the select go on to poll the operation.
AwaitFlag(w) ==
  /\ pc[w] = "await"
  /\ IF heard[w] = "woken"
     THEN To(w, "check") /\ heard' = [heard EXCEPT ![w] = "none"]
     ELSE To(w, IF felt[w] = "none" THEN "watch" ELSE "select") /\ UNCHANGED heard
  /\ UNCHANGED <<cancelled, canceller, now, last, reporter, ready, felt, deadline,
                 late, verdict>>

(* ----------------------------- ProgressWatch ---------------------------- *)
\* wait_until_stalled: the Notified is created before the timestamp is read.
Watch(w) ==
  /\ pc[w] = "watch" /\ To(w, "observe") /\ felt' = [felt EXCEPT ![w] = "armed"]
  /\ UNCHANGED <<cancelled, canceller, now, last, reporter, ready, heard, deadline,
                 late, verdict>>

Observe(w) ==
  /\ pc[w] = "observe" /\ To(w, "select")
  /\ deadline' = [deadline EXCEPT ![w] = last + Idle]
  /\ UNCHANGED <<cancelled, canceller, now, last, reporter, ready, heard, felt,
                 late, verdict>>

\* progress_timeout's select and the one in wait_until_stalled poll their
\* branches in either order: any ready branch may win, none parks the task.
Select(w) ==
  /\ pc[w] = "select"
  /\ \E next \in (IF w \in ready THEN {"Output"} ELSE {})
                 \cup (IF felt[w] = "woken" THEN {"watch"} ELSE {})
                 \cup (IF deadline[w] <= now THEN {"judge"} ELSE {})
                 \cup (IF w \notin ready /\ felt[w] # "woken" /\ now < deadline[w]
                       THEN {"parked"} ELSE {}) :
        /\ To(w, next)
        /\ felt' = [felt EXCEPT ![w] = IF next = "watch" THEN "none" ELSE @]
  /\ UNCHANGED <<cancelled, canceller, now, last, reporter, ready, heard, deadline,
                 late, verdict>>

\* The sleep fired: the timestamp is read again under the mutex.
Judge(w) ==
  /\ pc[w] = "judge"
  /\ IF last + Idle <= now
     THEN To(w, "Stalled") /\ verdict' = [verdict EXCEPT ![w] = now - last]
     ELSE To(w, "watch") /\ UNCHANGED verdict
  /\ UNCHANGED <<cancelled, canceller, now, last, reporter, ready, heard, felt,
                 deadline, late>>

Next ==
  \/ Tick \/ ReportWrites \/ ReportNotifies
  \/ \E c \in Cancellers : Cancel(c) \/ CancelNotifies(c)
  \/ \E w \in Waiters :
       \/ TransferReady(w) \/ Poll(w) \/ CheckFlag(w) \/ Register(w) \/ RecheckFlag(w)
       \/ AwaitFlag(w) \/ Watch(w) \/ Observe(w) \/ Select(w) \/ Judge(w)

Spec == Init /\ [][Next]_vars

(* ------------------------------ properties ------------------------------ *)
\* CancellationToken::cancelled: once the cancel() that set the flag has
\* notified, no task sleeps without a wake-up pending for it, whatever the
\* order in which it looked at the flag, registered and looked again.
CancelledTaskIsWoken ==
  CancelReturned => \A w \in Waiters : pc[w] = "parked" => heard[w] = "woken"

\* cancellable is biased to the token: a poll that began after cancel() had
\* returned never hands out the operation's output or its idle verdict.
CancellationWins ==
  \A w \in Waiters : pc[w] \in {"Output", "Stalled"} => ~late[w]

\* wait_until_stalled reports a stall only when no progress was reported for
\* the whole idle budget, although a report may land between any two of its
\* steps; and it never sleeps past the end of the current budget.
StallIsJudgedByProgress ==
  \A w \in Waiters :
    /\ verdict[w] >= Idle
    /\ pc[w] = "parked" => deadline[w] <= last + Idle
=============================================================================
