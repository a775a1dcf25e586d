----------------------------- MODULE TaskPolling -----------------------------
(***************************************************************************)
(* What happens inside one poll of a task, in two facets.                  *)
(*                                                                         *)
(* "race": fair_race! and biased_race! (async_engine/race.rs), two to five *)
(* pinned futures polled by one task until one is ready.  The guards are   *)
(* snapshotted before the first poll; a poll visits the branches in order  *)
(* and a branch becomes ready on another thread at any moment, before or   *)
(* after its turn, waking the task if it was polled since.                 *)
(*                                                                         *)
(* "locals": task-local bindings (async_engine/task_local.rs), one         *)
(* thread-local slot per key, into which TaskLocalScope moves its value    *)
(* for the length of each poll and of its future's destruction.  One       *)
(* thread polls several scopes of the same key, nested and interleaved; a  *)
(* poll may return, stay pending or panic.                                 *)
(***************************************************************************)
EXTENDS Naturals, Sequences, FiniteSets

CONSTANTS MaxBranches,  \* bound: branches of a race (the macros take up to 5)
          Scopes,
          NoValue,      \* an empty slot or a scope whose value is installed
          MaxDepth      \* bound: nested polls

VARIABLES
  facet,
  order,      \* the branches in the order this race polls them
  enabled,    \* the guards' snapshot
  ready,      \* branches whose future is ready
  waker,      \* branches that hold this task's waker
  turn,       \* position in order of the branch polled next, 0 while parked
  woken,      \* the executor has the task scheduled
  behind,     \* enabled branches seen pending in this poll
  outcome,    \* racing, panic or won
  winner,     \* the winning branch, meaningful once won
  slot,       \* the thread-local Option<T>; scope s carries the value s
  value,      \* TaskLocalScope.value
  alive,      \* scopes whose future still exists
  stack,      \* frames on this thread: [scope, outer, why]
  borrowed    \* a with() callback is running on top of the stack

raceVars == <<order, enabled, ready, waker, turn, woken, behind, outcome, winner>>
localVars == <<slot, value, alive, stack, borrowed>>
vars == <<facet, order, enabled, ready, waker, turn, woken, behind, outcome, winner,
          slot, value, alive, stack, borrowed>>

Branches(n) == 0 .. n - 1

\* fair_start: a pseudorandom first branch, then once around the circle.
Circle(n, start) == [k \in 1 .. n |-> (start + k - 1) % n]

\* biased_race polls in written order.
Written(n) == [k \in 1 .. n |-> k - 1]

\* A future completes; it wakes the task that polled it last.
Complete(b) ==
  /\ b \in Branches(Len(order)) \ ready /\ outcome = "racing"
  /\ ready' = ready \cup {b} /\ woken' = (woken \/ b \in waker) /\ waker' = waker \ {b}
  /\ UNCHANGED <<order, enabled, turn, behind, outcome, winner>>

\* The executor polls the race; a race with every guard false panics.
PollRace ==
  /\ woken /\ turn = 0 /\ outcome = "racing" /\ woken' = FALSE /\ behind' = {}
  /\ IF enabled = {} THEN outcome' = "panic" /\ UNCHANGED turn
     ELSE turn' = 1 /\ UNCHANGED outcome
  /\ UNCHANGED <<order, enabled, ready, waker, winner>>

Wins(b) == outcome' = "won" /\ winner' = b

AfterTurn == IF turn = Len(order) THEN 0 ELSE turn + 1

\* One iteration of the loop: a disabled branch is skipped, a ready one wins,
\* a pending one keeps the task's waker.
PollBranch ==
  /\ turn > 0
  /\ LET b == order[turn] IN
     /\ IF b \in enabled /\ b \in ready THEN Wins(b) /\ turn' = 0 /\ UNCHANGED <<waker, behind>>
        ELSE /\ turn' = AfterTurn /\ UNCHANGED <<outcome, winner>>
             /\ waker' = IF b \in enabled THEN waker \cup {b} ELSE waker
             /\ behind' = IF b \in enabled THEN behind \cup {b} ELSE behind
  /\ UNCHANGED <<order, enabled, ready, woken>>

(***************************************************************************)
(* Task-local bindings.                                                    *)
(***************************************************************************)
\* TaskLocal::scope.
scope ==
  /\ slot = NoValue /\ value = [s \in Scopes |-> s] /\ alive = Scopes
  /\ stack = <<>> /\ borrowed = FALSE

OnStack(s) == \E k \in 1 .. Len(stack) : stack[k].scope = s

\* try_with: the slot is borrowed for the length of the callback.  A second
\* shared borrow inside it is allowed and changes nothing.
With ==
  /\ ~borrowed /\ slot # NoValue /\ borrowed' = TRUE
  /\ UNCHANGED <<slot, value, alive, stack>>

EndWith ==
  /\ borrowed /\ (stack = <<>> \/ stack[Len(stack)].why # "unbound") /\ borrowed' = FALSE
  /\ UNCHANGED <<slot, value, alive, stack>>

\* Future::poll: the slot is borrowed mutably before the value is taken, so a
\* poll from inside a with() callback panics with the scope intact.
Poll(s) ==
  /\ s \in alive /\ ~OnStack(s) /\ Len(stack) < MaxDepth /\ ~borrowed
  /\ slot' = value[s] /\ value' = [value EXCEPT ![s] = NoValue]
  /\ stack' = Append(stack, [scope |-> s, outer |-> slot, why |-> "poll"])
  /\ UNCHANGED <<alive, borrowed>>

\* Drop: a live future is destroyed under its own binding, or unbound when the
\* slot is borrowed.
DropScope(s) ==
  /\ s \in alive /\ ~OnStack(s) /\ Len(stack) < MaxDepth /\ alive' = alive \ {s}
  /\ IF borrowed
     THEN /\ stack' = Append(stack, [scope |-> s, outer |-> slot, why |-> "unbound"])
          /\ UNCHANGED <<slot, value>>
     ELSE /\ stack' = Append(stack, [scope |-> s, outer |-> slot, why |-> "drop"])
          /\ slot' = value[s] /\ value' = [value EXCEPT ![s] = NoValue]
  /\ UNCHANGED borrowed

Top == stack[Len(stack)]
Pop == stack' = SubSeq(stack, 1, Len(stack) - 1)

\* The future returns, stays pending or unwinds: Restore's drop puts the
\* binding back into the scope and the outer one back into the slot.
Leave ==
  /\ stack # <<>> /\ (~borrowed \/ Top.why = "unbound")
  /\ IF Top.why = "unbound" THEN UNCHANGED <<slot, value>>
     ELSE /\ value' = [value EXCEPT ![Top.scope] = slot] /\ slot' = Top.outer
  /\ Pop /\ UNCHANGED <<alive, borrowed>>

(***************************************************************************)
(* The two facets.                                                         *)
(***************************************************************************)
TypeOK ==
  /\ ready \cup waker \cup enabled \cup behind \subseteq Branches(Len(order))
  /\ turn \in 0 .. MaxBranches /\ woken \in BOOLEAN
  /\ outcome \in {"racing", "panic", "won"} /\ winner \in Branches(Len(order))
  /\ slot \in Scopes \cup {NoValue} /\ value \in [Scopes -> Scopes \cup {NoValue}]
  /\ alive \subseteq Scopes /\ Len(stack) \in 0 .. MaxDepth /\ borrowed \in BOOLEAN

Start(n, orders, guards) ==
  /\ order \in orders /\ enabled \in guards
  /\ ready = {} /\ waker = {} /\ turn = 0 /\ woken = TRUE
  /\ behind = {} /\ outcome = "racing" /\ winner = 0

Init ==
  /\ scope
  /\ \/ /\ facet = "race"
        /\ \E n \in 2 .. MaxBranches :
              Start(n, {Circle(n, start) : start \in Branches(n)} \cup {Written(n)},
                    SUBSET Branches(n))
     \/ facet = "locals" /\ Start(2, {Written(2)}, {{}})

Racing == PollRace \/ PollBranch \/ \E b \in Branches(Len(order)) : Complete(b)

Binding == With \/ EndWith \/ Leave \/ \E s \in Scopes : Poll(s) \/ DropScope(s)

Next ==
  \/ facet = "race" /\ Racing /\ UNCHANGED <<facet, localVars>>
  \/ facet = "locals" /\ Binding /\ UNCHANGED <<facet, raceVars>>

Spec == Init /\ [][Next]_vars

(* ------------------------------ properties ------------------------------ *)
\* A parked race is scheduled as soon as any enabled branch is ready, even one
\* that became ready while the poll was at another branch: no wake-up is lost
\* for any number of branches and any starting point.
ParkedRaceIsWoken ==
  turn = 0 /\ outcome = "racing" /\ enabled \cap ready # {} => woken

\* The winner was enabled and every enabled branch before it in the polling
\* order was seen pending in the same poll; a race panics exactly when all of
\* its guards are false.
WinnerIsFirstReady ==
  /\ outcome = "won" =>
       /\ winner \in enabled \cap ready
       /\ \A k \in 1 .. Len(order) :
            (\A j \in 1 .. k : order[j] # winner) /\ order[k] \in enabled
              => order[k] \in behind
  /\ outcome = "panic" => enabled = {}

Installed(k) == stack[k].why # "unbound"

\* While a scope is polled or destroyed the key reads that scope's own value,
\* however polls nest and unwind; outside every scope it is unbound, and a
\* scope that is not on the stack has its value back.
BindingFollowsTheScope ==
  /\ \A s \in Scopes : value[s] = s \/ (value[s] = NoValue /\ OnStack(s))
  /\ LET bound == {k \in 1 .. Len(stack) : Installed(k)} IN
     IF bound = {} THEN slot = NoValue
     ELSE slot = stack[CHOOSE k \in bound : \A j \in bound : j <= k].scope
=============================================================================
