----------------------------- MODULE Snapshots -----------------------------
(***************************************************************************)
(* Thread snapshots, profiles and process traces.  Independent parts, one  *)
(* per `facet`:                                                            *)
(*   signal   the Linux capture stops a sibling in a signal handler;       *)
(*   suspend  the macOS and Windows captures suspend a sibling;            *)
(*   resolve  a session's cached inventory, unwinder and unwound threads;  *)
(*   ring     a profiling session filling its bounded ring;                *)
(*   trace    the Linux ptrace supervisor of a process tree;               *)
(*   value    pure functions: unwinding, identities, attribution, exports. *)
(***************************************************************************)
EXTENDS Integers, Sequences, FiniteSets, SequencesExt

CONSTANTS Siblings,      \* threads captured besides the calling one: 1..n
          MaxRounds,     \* captures taken in a row
          MaxTicks,      \* ticks of a session
          UnwindLimit,   \* changed stacks a crash session unwinds per tick (16)
          MaxPids        \* processes and threads a trace may meet

VARIABLES facet, host, sig, sus, res, ring, trace, value

vars == <<facet, host, sig, sus, res, ring, trace, value>>

Off == [phase |-> "off"]
Others(f) ==
    /\ UNCHANGED <<facet, host, value>>
    /\ IF f = "signal" THEN TRUE ELSE UNCHANGED sig
    /\ IF f = "suspend" THEN TRUE ELSE UNCHANGED sus
    /\ IF f = "resolve" THEN TRUE ELSE UNCHANGED res
    /\ IF f = "ring" THEN TRUE ELSE UNCHANGED ring
    /\ IF f = "trace" THEN TRUE ELSE UNCHANGED trace

(***************************************************************************)
(* Linux: the probe publishes a slot, signals one thread and copies its    *)
(* stack while the handler spins.  Slot 0 is the null pointer.             *)
(***************************************************************************)
SignalSlot_new == [ready |-> FALSE, release |-> FALSE, done |-> FALSE, by |-> 0, regs |-> 0, live |-> TRUE]
FreshSignals == {[phase |-> "on", at |-> "next", round |-> 1, i |-> 0, slot |-> 0, slots |-> <<>>, ACTIVE_SLOT |-> 0, ACTIVE_TID |-> 0,
                  pending |-> [t \in Siblings |-> 0], h |-> [t \in Siblings |-> [at |-> "run", slot |-> 0]],
                  blocked |-> {}, masks |-> 1, ours |-> TRUE, sp |-> 0, late |-> FALSE, clock |-> 0,
                  samples |-> <<>>, captured |-> 0, dropped |-> 0, dead |-> FALSE]}
Sig(r) == sig' = r /\ Others("signal")

\* A thread changes its mask; once is enough for the race with the check.
ThreadMasks(t) ==
    /\ facet = "signal" /\ sig.masks > 0
    /\ Sig([sig EXCEPT !.masks = @ - 1, !.blocked = @ \cup {t}])
ThreadUnmasks(t) ==
    /\ facet = "signal" /\ t \in sig.blocked
    /\ Sig([sig EXCEPT !.blocked = @ \ {t}])
\* The application takes the reserved signal for itself.
DispositionReplaced ==
    /\ facet = "signal" /\ sig.ours /\ sig.at = "next" /\ sig.masks > 0
    /\ Sig([sig EXCEPT !.ours = FALSE, !.masks = @ - 1])

\* The handler reads the slot, compares the thread, then touches the slot.
capture_signal_handler(t) ==
    /\ facet = "signal" /\ sig.h[t].at = "run" /\ sig.pending[t] > 0 /\ t \notin sig.blocked /\ sig.ours
    /\ Sig([sig EXCEPT !.pending[t] = @ - 1,
                       !.h[t] = IF sig.ACTIVE_SLOT = 0 THEN @ ELSE [at |-> "loaded", slot |-> sig.ACTIVE_SLOT]])
registers_from_context(t) ==
    /\ facet = "signal" /\ sig.h[t].at = "loaded"
    /\ LET s == sig.h[t].slot
       IN  Sig(IF sig.ACTIVE_TID # t THEN [sig EXCEPT !.h[t] = [at |-> "run", slot |-> 0]]
               ELSE [sig EXCEPT !.h[t].at = "spin", !.clock = @ + 1, !.dead = @ \/ (~sig.slots[s].live /\ ~sig.late),
                                !.slots[s].by = t, !.slots[s].regs = sig.clock + 1, !.slots[s].ready = TRUE])
HandlerReleased(t) ==
    /\ facet = "signal" /\ sig.h[t].at = "spin" /\ sig.slots[sig.h[t].slot].release
    /\ LET s == sig.h[t].slot
       IN  Sig([sig EXCEPT !.slots[s].done = TRUE, !.h[t] = [at |-> "run", slot |-> 0],
                           !.dead = @ \/ (~sig.slots[s].live /\ ~sig.late)])

\* The tids were listed and sorted once; each is tried in turn.
NextTid == CHOOSE t \in Siblings : t > sig.i /\ \A u \in Siblings : u > sig.i => t <= u
Drop(s) == [s EXCEPT !.at = "next", !.dropped = @ + 1, !.slot = 0]
CaptureLinux ==
    /\ facet = "signal" /\ sig.at = "next" /\ \E t \in Siblings : t > sig.i
    /\ LET t == NextTid
       IN  Sig(IF ~sig.ours \/ t \in sig.blocked THEN Drop([sig EXCEPT !.i = t])
               ELSE [sig EXCEPT !.i = t, !.at = "store", !.slots = Append(@, SignalSlot_new), !.slot = Len(sig.slots) + 1,
                                !.ACTIVE_TID = t, !.late = @ \/ sig.pending[t] > 0 \/ sig.h[t].at # "run"])
StoreSlot ==
    /\ facet = "signal" /\ sig.at = "store"
    /\ Sig([sig EXCEPT !.at = "send", !.ACTIVE_SLOT = sig.slot])
\* The thread may have exited: nothing is sent then.
TgkillTo(sent) ==
    /\ facet = "signal" /\ sig.at = "send"
    /\ Sig(IF sent THEN [sig EXCEPT !.at = "wait", !.pending[sig.i] = @ + 1] ELSE [sig EXCEPT !.at = "abandon"])
wait_until_ready ==
    /\ facet = "signal" /\ sig.at = "wait"
    /\ \/ sig.slots[sig.slot].ready /\ Sig([sig EXCEPT !.at = "copy", !.sp = sig.slots[sig.slot].regs])
       \/ ~sig.slots[sig.slot].ready /\ Sig([sig EXCEPT !.at = "abandon"])
AbandonSlot ==
    /\ facet = "signal" /\ sig.at = "abandon"
    /\ Sig(Drop([sig EXCEPT !.ACTIVE_SLOT = 0, !.ACTIVE_TID = 0, !.slots[sig.slot].release = TRUE,
                            !.slots[sig.slot].live = ~sig.slots[sig.slot].done]))
\* The bounded copy is made while the thread spins; then it is released.
CopyAndRelease ==
    /\ facet = "signal" /\ sig.at = "copy"
    /\ Sig([sig EXCEPT !.at = "released", !.slots[sig.slot].release = TRUE])
\* The other registers are read once the handler has finished.
TakeSample ==
    /\ facet = "signal" /\ sig.at = "released" /\ sig.slots[sig.slot].done
    /\ Sig([sig EXCEPT !.at = "next", !.ACTIVE_SLOT = 0, !.ACTIVE_TID = 0, !.captured = @ + 1, !.slot = 0, !.slots[sig.slot].live = FALSE,
                       !.samples = Append(@, [tid |-> sig.i, by |-> sig.slots[sig.slot].by, sp |-> sig.sp,
                                              ip |-> sig.slots[sig.slot].regs, late |-> sig.late])])
NextRound ==
    /\ facet = "signal" /\ sig.at = "next" /\ \A t \in Siblings : t <= sig.i
    /\ sig.round < MaxRounds /\ sig.ours
    /\ Sig([sig EXCEPT !.round = @ + 1, !.i = 0, !.captured = 0, !.dropped = 0, !.samples = <<>>])
SignalNext ==
    \/ \E t \in Siblings : ThreadMasks(t) \/ ThreadUnmasks(t) \/ capture_signal_handler(t) \/ registers_from_context(t) \/ HandlerReleased(t)
    \/ DispositionReplaced \/ CaptureLinux \/ StoreSlot \/ wait_until_ready \/ AbandonSlot \/ CopyAndRelease \/ TakeSample \/ NextRound
    \/ \E sent \in BOOLEAN : TgkillTo(sent)

(***************************************************************************)
(* macOS and Windows: suspend, read, resume.  Thread 0 is the caller.  A   *)
(* region object is a port the copy hands back for later release.          *)
(***************************************************************************)
Listed == {0} \cup Siblings
FreshSuspends == {[phase |-> "on", at |-> "list", i |-> 0, alive |-> Listed, count |-> [t \in Listed |-> 0], samePort |-> p,
                   ports |-> {}, handles |-> {}, objects |-> 0, regs |-> FALSE, copied |-> 0, got |-> FALSE, stuck |-> {},
                   todo |-> {}, total |-> 0, captured |-> 0, dropped |-> 0, result |-> "none"] : p \in BOOLEAN}
Sus(r) == sus' = r /\ Others("suspend")
\* A live thread answers with its identity; an exited one does not.
os_thread_id(t) == IF t \in sus.alive THEN <<t>> ELSE <<>>
siblings == {t \in Listed : os_thread_id(t) # os_thread_id(0)}
sibling_thread_ids == Siblings

ThreadExits(t) ==
    /\ facet = "suspend" /\ t \in sus.alive /\ sus.count[t] = 0 /\ Cardinality(sus.alive) = Cardinality(Listed)
    /\ Sus([sus EXCEPT !.alive = @ \ {t}])
ThreadList_enumerate ==
    /\ facet = "suspend" /\ sus.at = "list" /\ host = "macos"
    /\ Sus([sus EXCEPT !.at = "next", !.ports = Listed \cup {99}, !.todo = siblings, !.total = Cardinality(siblings)])
EnumerateWindows ==
    /\ facet = "suspend" /\ sus.at = "list" /\ host = "windows"
    /\ Sus([sus EXCEPT !.at = "next", !.todo = sibling_thread_ids, !.total = Cardinality(sibling_thread_ids)])
Missed(s) == [s EXCEPT !.at = "next", !.dropped = @ + 1, !.handles = {}]
\* Opening or identifying the thread, then suspending it.
OpenAndSuspend(ok) ==
    /\ facet = "suspend" /\ sus.at = "next" /\ sus.todo # {}
    /\ \E t \in sus.todo :
          LET s == [sus EXCEPT !.todo = @ \ {t}, !.i = t, !.regs = FALSE, !.got = FALSE, !.copied = 0]
          IN  Sus(IF os_thread_id(t) = <<>> \/ ~ok THEN Missed(s)
                  ELSE [s EXCEPT !.at = "regs", !.count[t] = @ + 1, !.handles = IF host = "windows" THEN {t} ELSE {}])
\* macOS: the registers may be refused; the region query may fail, the copy too.
thread_registers(ok) ==
    /\ facet = "suspend" /\ sus.at = "regs"
    /\ Sus([sus EXCEPT !.at = IF ok THEN "copy" ELSE "resume", !.regs = ok])
copy_stack(out) ==
    /\ facet = "suspend" /\ sus.at = "copy" /\ host = "macos"
    /\ Sus([sus EXCEPT !.at = "resume", !.got = out # "none", !.copied = IF out = "bytes" THEN 1 ELSE 0,
                       !.objects = IF out = "none" THEN 0 ELSE 1])
committed_stack_top(committed) ==
    /\ facet = "suspend" /\ sus.at = "copy" /\ host = "windows"
    /\ Sus([sus EXCEPT !.at = "resume", !.copied = IF committed THEN 1 ELSE 0])
\* A failed resume is the caller's error; the guard tries once more as it goes.
Suspension_drop(s, again) == IF again THEN [s EXCEPT !.count[s.i] = @ - 1] ELSE [s EXCEPT !.stuck = @ \cup {s.i}]
ResumeMac(ok, again) ==
    /\ facet = "suspend" /\ sus.at = "resume" /\ host = "macos"
    /\ IF ok THEN again /\ Sus([sus EXCEPT !.at = "after", !.count[sus.i] = @ - 1])
             ELSE Sus([Suspension_drop(sus, again) EXCEPT !.at = "return", !.result = "Mach"])
ResumeWindows(ok) ==
    /\ facet = "suspend" /\ sus.at = "resume" /\ host = "windows"
    /\ LET s == [sus EXCEPT !.handles = {}, !.count[sus.i] = IF ok THEN @ - 1 ELSE @, !.stuck = IF ok THEN @ ELSE @ \cup {sus.i}]
       IN  Sus(IF ~sus.regs THEN Missed(s) ELSE [s EXCEPT !.at = "next", !.captured = @ + 1])
AfterMac ==
    /\ facet = "suspend" /\ sus.at = "after"
    /\ LET s == [sus EXCEPT !.objects = 0]
       IN  Sus(IF ~sus.regs \/ ~sus.got \/ sus.copied = 0 THEN Missed(s) ELSE [s EXCEPT !.at = "next", !.captured = @ + 1])
SuspendReturns ==
    /\ facet = "suspend" /\ sus.at = "next" /\ sus.todo = {}
    /\ Sus([sus EXCEPT !.at = "return", !.result = "Ok"])
\* However it ends, the list gives back every thread port, the array and its own.
ThreadList_drop ==
    /\ facet = "suspend" /\ sus.at = "return"
    /\ Sus([sus EXCEPT !.at = "end", !.ports = {}])
SuspendNext ==
    \/ \E t \in Siblings : ThreadExits(t)
    \/ ThreadList_enumerate \/ EnumerateWindows \/ AfterMac \/ SuspendReturns \/ ThreadList_drop
    \/ \E ok \in BOOLEAN : \/ OpenAndSuspend(ok) \/ thread_registers(ok) \/ committed_stack_top(ok) \/ ResumeWindows(ok)
                           \/ \E again \in BOOLEAN : ResumeMac(ok, again)
    \/ \E out \in {"none", "empty", "bytes"} : copy_stack(out)

(***************************************************************************)
(* A session's resolver.  A stack is the module its innermost frame lies   *)
(* in; it unwinds to its caller only with that module's tables.  `torn`    *)
(* records that images changed between the digest and the enumeration.     *)
(***************************************************************************)
Images == 1..2
Threads == 1..3
FreshResolvers == {[phase |-> "on", at |-> "idle", images |-> {1}, stacks |-> [t \in Threads |-> 1], changes |-> 2, churn |-> 3, ticks |-> 0,
                    built |-> FALSE, signature |-> {}, modules |-> {}, cached |-> [t \in {} |-> 0], next |-> 0, seen |-> {},
                    sample |-> [t \in {} |-> 0], frames |-> [t \in {} |-> 0], torn |-> FALSE, mid |-> FALSE,
                    age |-> [t \in Threads |-> 0], limit |-> l] : l \in {0, UnwindLimit}}
Res(r) == res' = r /\ Others("resolve")
ImageLoads(m) ==
    /\ facet = "resolve" /\ res.churn > 0 /\ m # 1
    /\ Res([res EXCEPT !.churn = @ - 1, !.images = IF m \in @ THEN @ \ {m} ELSE @ \cup {m}, !.mid = @ \/ res.at = "signed"])
ThreadMoves(t) ==
    /\ facet = "resolve" /\ res.changes > 0 /\ res.at = "idle"
    /\ \E m \in Images \ {res.stacks[t]} : Res([res EXCEPT !.changes = @ - 1, !.stacks[t] = m])
CaptureThreads ==
    /\ facet = "resolve" /\ res.at = "idle" /\ res.ticks < MaxTicks
    /\ Res([res EXCEPT !.at = "captured", !.ticks = @ + 1, !.sample = res.stacks])
\* The digest is read first, so a later load makes the next digest differ.
loaded_image_signature ==
    /\ facet = "resolve" /\ res.at = "captured"
    /\ Res([res EXCEPT !.at = "signed", !.seen = res.images, !.mid = FALSE])
Unchanged == res.built /\ res.seen = res.signature
refresh ==
    /\ facet = "resolve" /\ res.at = "signed"
    /\ \/ Unchanged /\ Res([res EXCEPT !.at = "ready"])
       \/ ~Unchanged /\ Res([res EXCEPT !.at = "ready", !.built = TRUE, !.modules = res.images, !.signature = res.seen,
                                        !.cached = [t \in {} |-> 0], !.next = 0, !.torn = res.mid, !.age = [t \in Threads |-> 0]])
\* Enumerating fails: the tick is lost, the old inventory stays.
RefreshFails ==
    /\ facet = "resolve" /\ res.at = "signed" /\ ~Unchanged /\ res.churn > 0
    /\ Res([res EXCEPT !.at = "idle", !.built = TRUE, !.churn = @ - 1, !.frames = [t \in {} |-> 0]])
unwind_sample(stack, mods) == <<stack>> \o IF stack \in mods THEN <<10 + stack>> ELSE <<>>
CachedThread(stack, frames, fresh) == [stack |-> stack, frames |-> frames, fresh |-> fresh]
\* The window of threads that may be unwound rotates; the others show their IP.
InWindow(k, start, n) == res.limit = 0 \/ (k - 1 + n - start) % n < res.limit
resolve_with_limit ==
    /\ facet = "resolve" /\ res.at = "ready"
    /\ LET n == Cardinality(Threads)
           start == res.next % n
           same(t) == t \in DOMAIN res.cached /\ res.cached[t].fresh /\ res.cached[t].stack = res.sample[t]
           fresh(t) == same(t) \/ InWindow(t, start, n)
           f == [t \in Threads |-> IF same(t) THEN res.cached[t].frames
                                   ELSE IF InWindow(t, start, n) THEN unwind_sample(res.sample[t], res.modules)
                                   ELSE <<res.sample[t]>>]
       IN  Res([res EXCEPT !.at = "idle", !.frames = f, !.cached = [t \in Threads |-> CachedThread(res.sample[t], f[t], fresh(t))],
                           !.next = (start + IF res.limit = 0 THEN n ELSE res.limit) % n,
                           !.age = [t \in Threads |-> IF fresh(t) THEN 0 ELSE @[t] + 1]])
ResolveNext ==
    \/ \E m \in Images : ImageLoads(m)
    \/ \E t \in Threads : ThreadMoves(t)
    \/ CaptureThreads \/ loaded_image_signature \/ refresh \/ RefreshFails \/ resolve_with_limit

(***************************************************************************)
(* A profiling session.  Each tick captures some threads, some of them     *)
(* without frames, and offers each stack to the ring.                      *)
(***************************************************************************)
MinHz == 2
MaxHz == 4
MaxDuration == 2
clamped(r) == [hz |-> IF r.hz < MinHz THEN MinHz ELSE IF r.hz > MaxHz THEN MaxHz ELSE r.hz,
               duration |-> IF r.duration > MaxDuration THEN MaxDuration ELSE r.duration]
was_clamped(r) == clamped(r) # r
period(r) == 12 \div clamped(r).hz
FreshRings == {[phase |-> "on", at |-> "test", requested |-> q, request |-> clamped(q), cap |-> c, held |-> <<>>, accepted |-> 0, dropped |-> 0,
                offered |-> 0, drained |-> 0, time |-> 0, next |-> 0, stop |-> FALSE, todo |-> <<>>, captures |-> 0, fullAt |-> 0,
                buffer_full |-> FALSE, seen |-> {}, total |-> 0, metrics |-> Off] :
               q \in {[hz |-> 3, duration |-> 1], [hz |-> 9, duration |-> 5]}, c \in 0..3}
Ring(r) == ring' = r /\ Others("ring")
is_full(r) == Len(r.held) >= r.cap
push(r, t) == IF is_full(r) THEN [r EXCEPT !.dropped = @ + 1, !.offered = @ + 1]
              ELSE [r EXCEPT !.held = Append(@, t), !.accepted = @ + 1, !.offered = @ + 1]
ProfileMetrics(r) == [samples_captured |-> r.accepted, samples_dropped |-> r.dropped, threads_seen |-> Cardinality(r.seen),
                      duration |-> r.time, hz |-> r.request.hz, clamped |-> was_clamped(r.requested), buffer_full |-> r.buffer_full]
Finish(r) == [r EXCEPT !.at = "done", !.metrics = ProfileMetrics(r)]
\* Time is counted in twelfths of a second, so every period is a whole number.
StopRequested ==
    /\ facet = "ring" /\ ~ring.stop /\ ring.at # "done"
    /\ Ring([ring EXCEPT !.stop = TRUE])
LoopTest ==
    /\ facet = "ring" /\ ring.at = "test"
    /\ Ring(IF ring.time >= 12 * ring.request.duration \/ ring.stop THEN Finish(ring)
            ELSE IF is_full(ring) THEN Finish([ring EXCEPT !.buffer_full = TRUE, !.fullAt = ring.captures])
            ELSE [ring EXCEPT !.at = "capture", !.next = @ + period(ring.request)])
\* A stack is a thread, or -thread when it could not be walked.
CaptureTick(stacks, ok) ==
    /\ facet = "ring" /\ ring.at = "capture" /\ ring.captures < MaxTicks
    /\ Ring(IF ~ok THEN [ring EXCEPT !.at = "tested", !.captures = @ + 1]
            ELSE [ring EXCEPT !.at = "push", !.captures = @ + 1, !.todo = stacks,
                              !.total = IF Len(stacks) > @ THEN Len(stacks) ELSE @])
PushOne ==
    /\ facet = "ring" /\ ring.at = "push"
    /\ Ring(IF ring.todo = <<>> THEN [ring EXCEPT !.at = "tested"]
            ELSE LET t == Head(ring.todo)
                     r == [ring EXCEPT !.todo = Tail(@)]
                 IN  IF t < 0 THEN r ELSE push([r EXCEPT !.seen = @ \cup {t}], t))
\* A tick may be late: the schedule skips ahead instead of bursting.
SleepUntil(cost) ==
    /\ facet = "ring" /\ ring.at = "tested"
    /\ LET now == ring.time + cost
       IN  Ring(IF is_full(ring) THEN Finish([ring EXCEPT !.buffer_full = TRUE, !.fullAt = ring.captures, !.time = now])
                ELSE IF ring.next > now THEN [ring EXCEPT !.at = "test", !.time = ring.next]
                ELSE [ring EXCEPT !.at = "test", !.time = now, !.next = now])
\* The ring is shared: its owner may drain it while the session runs.
drain ==
    /\ facet = "ring" /\ ring.held # <<>> /\ ring.drained = 0
    /\ Ring([ring EXCEPT !.drained = @ + Len(ring.held), !.held = <<>>])
RingNext ==
    \/ StopRequested \/ LoopTest \/ PushOne \/ drain
    \/ \E stacks \in {<<>>, <<1>>, <<1, -2, 3>>, <<1, 2, 3>>}, ok \in BOOLEAN : CaptureTick(stacks, ok)
    \/ \E cost \in {1, 7} : SleepUntil(cost)

(***************************************************************************)
(* The ptrace supervisor.  `k` is the kernel's view of each task: running, *)
(* stopped with an event, a zombie to be waited for, or gone.              *)
(***************************************************************************)
Pids == 1..MaxPids
Task(st, ev, leader, child) == [st |-> st, ev |-> ev, leader |-> leader, child |-> child]
FreshTraces == {[phase |-> "on", at |-> "execStop", k |-> [p \in Pids |-> IF p = 1 THEN Task("stopped", "init", TRUE, 0) ELSE Task("none", "none", FALSE, 0)],
                 tracees |-> [p \in {} |-> FALSE], sequence |-> 1, events |-> <<>>, setup |-> "none", code |-> "none", error |-> FALSE,
                 completed |-> 0, budget |-> 3]}
Trace(r) == trace' = r /\ Others("trace")
Alive(p) == trace.k[p].st \in {"run", "stopped"}
\* What the traced programs do.
TraceeStops(p, ev) ==
    /\ facet = "trace" /\ trace.k[p].st = "run" /\ trace.budget > 0
    /\ IF ev \in {"fork", "clone", "cloneProcess"}
       THEN \E q \in {x \in Pids : trace.k[x].st = "none"} :
               Trace([trace EXCEPT !.budget = @ - 1, !.k[p].st = "stopped", !.k[p].ev = ev, !.k[p].child = q,
                                   !.k[q] = Task("stopped", "init", ev # "clone", 0)])
       ELSE Trace([trace EXCEPT !.budget = @ - 1, !.k[p].st = "stopped", !.k[p].ev = ev])
TraceeEnds(p) ==
    /\ facet = "trace" /\ Alive(p) /\ trace.k[p].leader /\ trace.budget > 0
    /\ Trace([trace EXCEPT !.budget = @ - 1, !.k[p].st = "zombie"])
LeaderEnds ==
    /\ facet = "trace" /\ \E p \in Pids : trace.k[p].st = "run" /\ trace.k[p].leader /\ Trace([trace EXCEPT !.k[p].st = "zombie"])
\* A thread of a process that exits or executes disappears without a report.
ThreadVanishes(p) ==
    /\ facet = "trace" /\ trace.k[p].st = "run" /\ ~trace.k[p].leader
    /\ Trace([trace EXCEPT !.k[p].st = "gone"])

cleanup_failed_setup(r) == [r EXCEPT !.k[1].st = "gone", !.at = "done", !.setup = "Err"]
StartTrace(ok, options, continues) ==
    /\ facet = "trace" /\ trace.at = "execStop"
    /\ Trace(IF ~ok \/ trace.k[1].st # "stopped" \/ ~options \/ ~continues THEN cleanup_failed_setup(trace)
             ELSE [trace EXCEPT !.at = "loop", !.setup = "Ok", !.tracees = [p \in {1} |-> TRUE], !.k[1] = [@ EXCEPT !.st = "run", !.ev = "none"]])
event_for(r, p, kind) == [r EXCEPT !.events = Append(@, [seq |-> r.sequence, pid |-> p, kind |-> kind]), !.sequence = @ + 1]
emit_loss(r, p) == [r EXCEPT !.events = Append(@, [seq |-> r.sequence, pid |-> p, kind |-> "Loss"])]
abort_runtime_trace(r, p) ==
    [emit_loss(r, p) EXCEPT !.k = [q \in Pids |-> IF q \in DOMAIN r.tracees \cup {1} THEN [r.k[q] EXCEPT !.st = "gone"] ELSE r.k[q]],
                            !.error = TRUE, !.completed = @ + 1, !.at = "done"]
finish_root(r, st) == [r EXCEPT !.code = st]
Untrack(r, p) == [r EXCEPT !.tracees = [q \in DOMAIN @ \ {p} |-> @[q]]]
Continue(r, p) == [r EXCEPT !.k[p].st = "run", !.k[p].ev = "none"]
Track(r, p, leader) == [r EXCEPT !.tracees = [q \in DOMAIN @ \cup {p} |-> IF q = p THEN leader ELSE @[q]]]

\* A wait that answers with an end.
ReapTracee(p) ==
    /\ facet = "trace" /\ trace.at = "loop" /\ p \in DOMAIN trace.tracees /\ trace.k[p].st = "zombie"
    /\ LET r == Untrack([trace EXCEPT !.k[p].st = "gone"], p)
       IN  Trace(IF ~trace.tracees[p] THEN r ELSE IF p = 1 THEN finish_root(r, "exit") ELSE event_for(r, p, "Exit"))
\* Ownership of the wait is lost: harmless for a thread, fatal for a leader.
WaitFails(p) ==
    /\ facet = "trace" /\ trace.at = "loop" /\ p \in DOMAIN trace.tracees /\ trace.k[p].st = "gone"
    /\ Trace(IF trace.tracees[p] THEN abort_runtime_trace(trace, p) ELSE Untrack(trace, p))
\* A fork or clone: the parent continues, the child is waited for and continues,
\* and only then is the event delivered.
SpawnStop(p, read, classified, parentOk, childOk) ==
    /\ facet = "trace" /\ trace.at = "loop" /\ p \in DOMAIN trace.tracees
    /\ trace.k[p].st = "stopped" /\ trace.k[p].ev \in {"fork", "clone", "cloneProcess"}
    /\ LET q == trace.k[p].child
           leader == trace.k[q].leader
           known == Track(trace, q, leader)
           cont == Continue(known, p)
       IN  Trace(IF ~read THEN abort_runtime_trace(trace, p)
                 ELSE IF trace.k[p].ev # "fork" /\ ~classified THEN abort_runtime_trace(Track(trace, q, TRUE), q)
                 ELSE IF ~parentOk THEN abort_runtime_trace(known, p)
                 ELSE IF trace.k[q].st # "stopped" \/ ~childOk THEN abort_runtime_trace(cont, q)
                 ELSE IF leader THEN event_for(Continue(cont, q), q, "Spawn") ELSE Continue(cont, q))
ExecStop(p, ok) ==
    /\ facet = "trace" /\ trace.at = "loop" /\ p \in DOMAIN trace.tracees /\ trace.k[p].st = "stopped" /\ trace.k[p].ev = "exec"
    /\ Trace(IF ~ok THEN abort_runtime_trace(trace, p)
             ELSE IF trace.tracees[p] THEN event_for(Continue(trace, p), p, "Exec") ELSE Continue(trace, p))
OtherStop(p, ok) ==
    /\ facet = "trace" /\ trace.at = "loop" /\ p \in DOMAIN trace.tracees
    /\ trace.k[p].st = "stopped" /\ trace.k[p].ev \in {"exit", "signal"}
    /\ Trace(IF ok THEN Continue(trace, p) ELSE abort_runtime_trace(trace, p))
TraceEnds ==
    /\ facet = "trace" /\ trace.at = "loop" /\ DOMAIN trace.tracees = {}
    /\ Trace([trace EXCEPT !.at = "done", !.completed = @ + 1])
\* What the control handle says of the root.
try_wait_code(r) == IF r.error THEN "Err" ELSE r.code
TraceNext ==
    \/ \E p \in Pids : \/ \E ev \in {"fork", "clone", "cloneProcess", "exec", "exit", "signal"} : TraceeStops(p, ev)
                       \/ TraceeEnds(p) \/ ThreadVanishes(p) \/ ReapTracee(p) \/ WaitFails(p)
                       \/ \E ok \in BOOLEAN : ExecStop(p, ok) \/ OtherStop(p, ok)
                       \/ \E a, b, c, d \in BOOLEAN : SpawnStop(p, a, b, c, d)
    \/ \E ok, options, continues \in BOOLEAN : StartTrace(ok, options, continues)
    \/ LeaderEnds \/ TraceEnds

(***************************************************************************)
(* Pure functions.  A stack copy is a sequence of words; the word at       *)
(* position i has address 2 * i, so an odd address is not aligned.         *)
(* Addresses from 100 on are executable.                                   *)
(***************************************************************************)
MaxFrames == 3
Smaller(a, b) == IF a <= b THEN a ELSE b
Larger(a, b) == IF a >= b THEN a ELSE b
arch_regs(arch, s) == IF arch = "x86_64" THEN s.ip ELSE IF s.lr # 0 THEN s.lr ELSE s.ip
contains_executable(a) == a >= 100
Chain(stack) == LET c[fp \in 0..40, k \in 0..MaxFrames] ==
                        IF k = 0 \/ fp < 2 \/ fp % 2 # 0 \/ fp \div 2 + 1 > Len(stack) THEN <<>>
                        ELSE LET previous == stack[fp \div 2]
                                 return == stack[fp \div 2 + 1]
                             IN  IF return = 0 \/ ~contains_executable(return) THEN <<>>
                                 ELSE <<return>> \o IF previous <= fp \/ previous > 40 THEN <<>> ELSE c[previous, k - 1]
                IN  c
frame_pointer_fallback(stack, fp) == Chain(stack)[fp, MaxFrames]

replace_suspect_callers(frames, from, recovered) ==
    LET valid == Smaller(from, Len(frames))
        callers == IF valid = 0 THEN 0 ELSE valid - 1
        fits == {n \in 1..Smaller(callers, Len(recovered)) : SubSeq(frames, valid - n + 1, valid) = SubSeq(recovered, 1, n)}
        overlap == IF fits = {} THEN 0 ELSE CHOOSE n \in fits : \A m \in fits : m <= n
    IN  SubSeq(frames, 1, valid)
        \o IF callers = 0 \/ overlap # 0 THEN SubSeq(recovered, overlap + 1, Len(recovered)) ELSE <<>>
\* Where the metadata stops making sense, counted from the second frame on.
suspect_from(frames) ==
    LET bad == {i \in 2..Len(frames) : ~contains_executable(frames[i])}
    IN  IF bad # {} THEN (CHOOSE i \in bad : \A j \in bad : i <= j) - 1 ELSE IF Len(frames) <= 1 THEN Len(frames) ELSE -1
Unwound(frames, stack, fp) ==
    IF suspect_from(frames) = -1 THEN frames ELSE replace_suspect_callers(frames, suspect_from(frames), frame_pointer_fallback(stack, fp))

\* ELF notes: name and descriptor are padded to four bytes; `len` bytes are mapped.
Aligned(n) == 4 * ((n + 3) \div 4)
NoteWalk(notes, len) == LET w[i \in 1..(Len(notes) + 1), at \in 0..120] ==
                              IF i > Len(notes) \/ len - at < 12 THEN <<>>
                              ELSE LET n == notes[i]
                                       next == 12 + Aligned(n.name) + Aligned(n.desc)
                                   IN  IF next > len - at THEN <<>>
                                       ELSE IF n.kind = 3 /\ n.gnu /\ n.desc > 0 THEN <<i>>
                                       ELSE w[i + 1, at + next]
                        IN  w
gnu_build_id_from_notes(notes, len) == NoteWalk(notes, len)[1, 0]
Notes == {[name |-> 4, desc |-> d, kind |-> k, gnu |-> g] : d \in {0, 3, 4}, k \in {1, 3}, g \in BOOLEAN}

\* Mach-O load commands: each declares its size; the UUID command needs 24 bytes.
CommandWalk(cmds, len) == LET w[i \in 1..(Len(cmds) + 1), at \in 0..120] ==
                                IF i > Len(cmds) \/ at + 8 > len THEN <<>>
                                ELSE LET c == cmds[i]
                                     IN  IF c.size < 8 \/ at + c.size > len THEN <<>>
                                         ELSE IF c.uuid /\ c.size >= 24 THEN <<i>> ELSE w[i + 1, at + c.size]
                          IN  w
loaded_macho_uuid(cmds, len) == CommandWalk(cmds, len)[1, 0]
Commands == [uuid : BOOLEAN, size : {4, 8, 24}]
\* Windows: the first usable CodeView record of the debug directory.
loaded_pe_debug_info(entries, image) ==
    LET usable == {i \in DOMAIN entries : entries[i].codeview /\ entries[i].size >= 24 /\ entries[i].rva + entries[i].size <= image /\ entries[i].rsds}
    IN  IF usable = {} THEN <<>>
        ELSE LET i == CHOOSE i \in usable : \A j \in usable : i <= j
             IN  IF entries[i].name \in {"", ".", "..", "a:b"} THEN <<>> ELSE <<i>>
DebugEntries == {[codeview |-> c, rsds |-> r, size |-> s, rva |-> v, name |-> n] :
                 c \in BOOLEAN, r \in BOOLEAN, s \in {20, 24}, v \in {0, 10}, n \in {"a", ".."}}

\* Which mapped images enter the inventory.  `mapped` is the build in memory.
enumerate_linux(i) == /\ ~i.deleted /\ i.opens /\ i.inode /\ ~i.large /\ i.parses
                      /\ i.mapped # "none" /\ i.file = i.mapped
enumerate_macos(i) == i.mapped # "none" /\ i.opens /\ ~i.large /\ i.parses /\ i.file = i.mapped
MappedImages == {[deleted |-> d, opens |-> o, inode |-> n, large |-> l, parses |-> p, mapped |-> m, file |-> f] :
                 d \in BOOLEAN, o \in BOOLEAN, n \in BOOLEAN, l \in BOOLEAN, p \in BOOLEAN, m \in {"A", "none"}, f \in {"A", "B", "none"}}

\* Modules occupy ranges with holes; a frame is an offset from its module's base.
ModuleContains(m, a) == IF m.ranges = {} THEN m.base <= a /\ a < m.base + m.size ELSE \E r \in m.ranges : r[1] <= a /\ a < r[2]
module_for_address(mods, a) ==
    LET hits == {i \in DOMAIN mods : ModuleContains(mods[i], a)} IN IF hits = {} THEN 0 ELSE CHOOSE i \in hits : \A j \in hits : i <= j
FirstReference(mods, frames) ==
    FoldLeft(LAMBDA out, a : LET i == module_for_address(mods, a) IN IF i = 0 \/ mods[i].base \in ToSet(out) THEN out ELSE Append(out, mods[i].base),
             <<>>, frames)
attribute(mods, frames) ==
    LET listed == FirstReference(mods, frames)
    IN  [modules |-> listed,
         frames |-> [k \in DOMAIN frames |->
            LET i == module_for_address(mods, frames[k])
            IN  IF i = 0 THEN [module |-> 0, relative |-> frames[k]]
                ELSE [module |-> CHOOSE j \in DOMAIN listed : listed[j] = mods[i].base, relative |-> frames[k] - mods[i].base]]]
unattributed_frames(c) == Cardinality({k \in DOMAIN c.frames : c.frames[k].module = 0})
ModuleLists == {<<[base |-> 10, size |-> 4, ranges |-> {}]>>, <<[base |-> 10, size |-> 8, ranges |-> {<<10, 12>>, <<15, 18>>}], [base |-> 12, size |-> 3, ranges |-> {}]>>, <<>>}

\* Exports.  A name is a sequence of characters; ";" separates frames.
ReplaceSeparator(n) == [i \in DOMAIN n |-> IF n[i] = ";" THEN ":" ELSE n[i]]
folded(samples) ==
    LET stacks == {Reverse(s) : s \in {x \in ToSet(samples) : x # <<>>}}
    IN  {[stack |-> s, count |-> Cardinality({i \in DOMAIN samples : Reverse(samples[i]) = s})] : s \in stacks}
JoinRaw(stack) == IF stack = <<>> THEN <<>> ELSE FoldLeft(LAMBDA acc, n : acc \o <<";">> \o n, Head(stack), Tail(stack))
JoinFrames(stack) == JoinRaw([i \in DOMAIN stack |-> ReplaceSeparator(stack[i])])
Separators(line) == Cardinality({i \in DOMAIN line : line[i] = ";"})
\* An interning table: positions are given in the order of first use.
intern(table, x) == IF x \in ToSet(table) THEN table ELSE Append(table, x)
IndexOf(table, x) == CHOOSE i \in DOMAIN table : table[i] = x
Ordered(f) == SetToSeq(f)
StringTable_new == <<<<>>>>
build_functions(f) == FoldLeft(LAMBDA t, e : FoldLeft(intern, t, Reverse(e.stack)), <<>>, f)
build(f) == LET functions == build_functions(f)
            IN  [strings |-> FoldLeft(intern, FoldLeft(intern, StringTable_new, <<<<"s">>, <<"n">>>>), functions), functions |-> functions,
                 samples |-> [i \in DOMAIN f |-> [location |-> [j \in DOMAIN f[i].stack |-> IndexOf(functions, Reverse(f[i].stack)[j])],
                                                  value |-> <<f[i].count, f[i].count * 4>>]]]
\* The Firefox stack table: a row is a prefix row and a frame; 0 is no prefix.
StackRows(f) ==
    FoldLeft(LAMBDA rows, e :
                 LET add(acc, name) == LET row == <<acc.prefix, name>>
                                           t == intern(acc.rows, row)
                                       IN  [rows |-> t, prefix |-> IndexOf(t, row)]
                 IN  FoldLeft(add, [rows |-> rows, prefix |-> 0], e.stack).rows, <<>>, f)
LeafRow(rows, stack) == FoldLeft(LAMBDA p, name : IndexOf(rows, <<p, name>>), 0, stack)
StackOf(rows) == LET w[p \in 0..Len(rows)] == IF p = 0 THEN <<>> ELSE Append(w[rows[p][1]], rows[p][2]) IN w
to_firefox_value(f) == [rows |-> StackRows(f), stack |-> [i \in DOMAIN f |-> LeafRow(StackRows(f), f[i].stack)],
                        time |-> [i \in DOMAIN f |-> FoldLeft(LAMBDA a, e : a + e.count, 0, SubSeq(f, 1, i - 1))]]

\* The console subscription: metadata and statistics arrive separately, the last
\* statistics of a task win, and idle time is what is left of its life.
lifetime(s, now) == IF s.created = 0 THEN 0 ELSE Larger((IF s.dropped # 0 THEN s.dropped ELSE now) - s.created, 0)
LastStats(updates, id) ==
    LET at == {i \in DOMAIN updates : updates[i].kind = "stat" /\ updates[i].id = id}
    IN  updates[CHOOSE i \in at : \A j \in at : j <= i]
Tracked(updates) == {updates[i].id : i \in {j \in DOMAIN updates : updates[j].kind = "stat"}}
InternalTasks(updates) == {u.id : u \in {x \in ToSet(updates) : x.kind = "task" /\ x.internal}}
join(updates, now) ==
    {[id |-> id, busy |-> LastStats(updates, id).busy, idle |-> Larger(lifetime(LastStats(updates, id), now) - LastStats(updates, id).busy, 0)] :
     id \in Tracked(updates) \ InternalTasks(updates)}
subscribe(updates, now) == IF updates = <<>> THEN "NoData" ELSE join(updates, now)
Updates == [kind : {"task"}, id : 1..2, internal : BOOLEAN] \cup [kind : {"stat"}, id : 1..2, busy : {0, 3}, created : {0, 2}, dropped : {0, 4}]

StackWords == {0, 2, 6, 101, 50}
FreshValues ==
    {[phase |-> "chain", stack |-> s, fp |-> fp] : s \in [1..4 -> StackWords] \cup [1..1 -> StackWords], fp \in {0, 2, 3, 6, 8}}
    \cup {[phase |-> "suspect", frames |-> f, stack |-> s] : f \in UNION {[1..n -> {100, 101, 50}] : n \in 0..3}, s \in {<<>>, <<6, 101, 8, 101, 0, 102>>, <<0, 101>>}}
    \cup {[phase |-> "notes", notes |-> n, len |-> l] : n \in UNION {[1..k -> Notes] : k \in 0..2}, l \in {0, 19, 20, 36, 40}}
    \cup {[phase |-> "commands", cmds |-> c, len |-> l] : c \in UNION {[1..k -> Commands] : k \in 0..2}, l \in {0, 8, 24, 32}}
    \cup {[phase |-> "pe", entries |-> e, image |-> 34] : e \in UNION {[1..k -> DebugEntries] : k \in 0..1}}
    \cup {[phase |-> "image", image |-> i] : i \in MappedImages}
    \cup {[phase |-> "attribute", modules |-> m, frames |-> f] : m \in ModuleLists, f \in UNION {[1..k -> {5, 10, 13, 16}] : k \in 0..3}}
    \cup {[phase |-> "export", samples |-> s] : s \in UNION {[1..k -> {<<>>, <<<<"a">>>>, <<<<"b">>, <<"a">>>>, <<<<"a", ";">>, <<"a">>>>, <<<<"a">>, <<"b">>>>}] : k \in 0..3}}
    \cup {[phase |-> "join", updates |-> u] : u \in UNION {[1..k -> Updates] : k \in 0..2}}
    \cup {[phase |-> "regs", arch |-> a, s |-> [ip |-> 100, lr |-> l]] : a \in {"x86_64", "aarch64"}, l \in {0, 101}}

Init ==
    /\ facet \in {"signal", "suspend", "resolve", "ring", "trace", "value"}
    /\ host \in IF facet = "suspend" THEN {"macos", "windows"} ELSE {"linux"}
    /\ sig \in IF facet = "signal" THEN FreshSignals ELSE {Off}
    /\ sus \in IF facet = "suspend" THEN FreshSuspends ELSE {Off}
    /\ res \in IF facet = "resolve" THEN FreshResolvers ELSE {Off}
    /\ ring \in IF facet = "ring" THEN FreshRings ELSE {Off}
    /\ trace \in IF facet = "trace" THEN FreshTraces ELSE {Off}
    /\ value \in IF facet = "value" THEN FreshValues ELSE {Off}
Next == SignalNext \/ SuspendNext \/ ResolveNext \/ RingNext \/ TraceNext
Spec == Init /\ [][Next]_vars

(***************************************************************************)
(* Properties                                                              *)
(***************************************************************************)
\* A thread stopped in the capture handler is either the one being copied or has
\* been released; a sample's registers were written by the thread it names, all
\* in one delivery when no earlier delivery was outstanding, and then no freed
\* slot is touched; every listed thread is captured or counted as dropped.
StoppedThreadIsReleased ==
    facet = "signal" =>
        /\ \A t \in Siblings : sig.h[t].at = "spin" => sig.slots[sig.h[t].slot].release \/ sig.h[t].slot = sig.slot
        /\ ~sig.dead
        /\ \A s \in ToSet(sig.samples) : s.by = s.tid /\ (s.late \/ s.sp = s.ip)
        /\ sig.at = "next" => sig.captured + sig.dropped = Cardinality({t \in Siblings : t <= sig.i})

\* Whatever fails inside a suspend window, no thread stays suspended unless the
\* kernel refused to resume it, the caller never suspends itself, and at the end
\* no thread handle, list port or region object is kept, except the object of a
\* window whose resume failed.
SuspensionEnds ==
    facet = "suspend" =>
        /\ sus.count[0] = 0
        /\ \A t \in Listed : sus.at \notin {"regs", "copy", "resume"} \/ t # sus.i => sus.count[t] = IF t \in sus.stuck THEN 1 ELSE 0
        /\ sus.at = "end" => sus.ports = {} /\ sus.handles = {} /\ (sus.result = "Ok" => sus.objects = 0)
        /\ sus.at = "end" /\ sus.result = "Ok" => sus.captured + sus.dropped = sus.total

\* Frames handed out describe the sample just taken: reused frames are what the
\* current unwinder would compute, a thread outside the window shows its own
\* instruction pointer, the inventory is the one the digest was read for unless
\* images changed while it was built, and no thread waits longer than one
\* rotation of the window.
FramesDescribeTheSample ==
    facet = "resolve" =>
        /\ res.at = "idle" => \A t \in DOMAIN res.frames :
                                 res.frames[t] \in {unwind_sample(res.sample[t], res.modules), <<res.sample[t]>>}
        /\ res.at = "ready" /\ ~res.torn => res.modules = res.seen
        /\ \A t \in DOMAIN res.cached : res.cached[t].fresh => res.cached[t].frames = unwind_sample(res.cached[t].stack, res.modules)
        /\ res.limit = UnwindLimit => \A t \in Threads : res.age[t] <= (Cardinality(Threads) + UnwindLimit - 1) \div UnwindLimit - 1

\* The ring never holds more than its capacity and accounts for every stack
\* offered; a session that says its buffer filled stopped sampling right there,
\* and one that ended otherwise lost nothing before its last tick.
SessionIsBounded ==
    facet = "ring" =>
        /\ Len(ring.held) <= ring.cap
        /\ ring.accepted + ring.dropped = ring.offered /\ ring.accepted = Len(ring.held) + ring.drained
        /\ ring.at = "done" =>
               /\ ring.metrics.buffer_full => ring.captures = ring.fullAt
               /\ ring.metrics.clamped <=> ring.requested # ring.request
               /\ ring.metrics.samples_dropped > 0 /\ ring.drained = 0 => ring.metrics.buffer_full
               /\ ring.metrics.hz \in MinHz..MaxHz

\* However supervision ends, no task the supervisor knew is left behind in a
\* ptrace stop, the completion callback ran exactly once if the launch was
\* reported as successful, and the root's fate is then known; events are numbered
\* without gaps and a child's Spawn precedes everything else said about it.
TraceLeavesNothing ==
    facet = "trace" =>
        /\ trace.at = "done" => /\ \A p \in DOMAIN trace.tracees \cup {1} : trace.k[p].st = "gone"
                                /\ trace.completed = IF trace.setup = "Ok" THEN 1 ELSE 0
                                /\ trace.setup = "Ok" => try_wait_code(trace) # "none"
        /\ \A i \in DOMAIN trace.events : trace.events[i].seq = i
        /\ \A i, j \in DOMAIN trace.events :
              trace.events[j].kind = "Spawn" /\ trace.events[i].pid = trace.events[j].pid => j <= i

\* A recovered chain contains only executable return addresses and never exceeds
\* its cap; repairing a stack keeps the trusted prefix and invents no frame; an
\* identity is taken only from inside the mapped bytes; an image whose file is
\* another build is left out; attribution loses no address and names only the
\* containing module; every export counts the same stacks.
ProfileValuesAgree ==
    facet = "value" =>
        CASE value.phase = "chain" ->
                 LET r == frame_pointer_fallback(value.stack, value.fp)
                 IN  /\ Len(r) <= MaxFrames /\ 2 * Len(r) <= Len(value.stack)
                     /\ \A i \in DOMAIN r : contains_executable(r[i]) /\ r[i] \in ToSet(value.stack)
          [] value.phase = "suspect" ->
                 LET r == Unwound(value.frames, value.stack, 2)
                     rec == frame_pointer_fallback(value.stack, 2)
                     good == IF suspect_from(value.frames) = -1 THEN Len(value.frames) ELSE suspect_from(value.frames)
                 IN  /\ SubSeq(r, 1, good) = SubSeq(value.frames, 1, good)
                     /\ \A i \in 2..Len(r) : contains_executable(r[i])
                     /\ Len(r) > good /\ good > 1 => \E n \in 1..Len(rec) : SubSeq(r, good - n + 1, Len(r)) = rec
          [] value.phase = "notes" ->
                 LET r == gnu_build_id_from_notes(value.notes, value.len)
                     End(i) == FoldLeft(LAMBDA a, n : a + 12 + Aligned(n.name) + Aligned(n.desc), 0, SubSeq(value.notes, 1, i))
                     good == {i \in DOMAIN value.notes : value.notes[i].kind = 3 /\ value.notes[i].gnu /\ value.notes[i].desc > 0 /\ End(i) <= value.len}
                 IN  r = IF good = {} THEN <<>> ELSE <<CHOOSE i \in good : \A j \in good : i <= j>>
          [] value.phase = "commands" ->
                 LET r == loaded_macho_uuid(value.cmds, value.len)
                     End(i) == FoldLeft(LAMBDA a, c : a + c.size, 0, SubSeq(value.cmds, 1, i))
                 IN  r # <<>> => /\ End(r[1]) <= value.len /\ value.cmds[r[1]].uuid
                                 /\ \A i \in 1..(r[1] - 1) : value.cmds[i].size >= 8
          [] value.phase = "pe" ->
                 LET r == loaded_pe_debug_info(value.entries, value.image)
                 IN  r # <<>> => value.entries[r[1]].rva + value.entries[r[1]].size <= value.image /\ value.entries[r[1]].name = "a"
          [] value.phase = "image" ->
                 /\ enumerate_linux(value.image) => value.image.file = value.image.mapped
                 /\ enumerate_macos(value.image) => value.image.file = value.image.mapped
          [] value.phase = "attribute" ->
                 LET c == attribute(value.modules, value.frames)
                 IN  /\ \A k \in DOMAIN value.frames :
                           value.frames[k] = c.frames[k].relative + IF c.frames[k].module = 0 THEN 0 ELSE c.modules[c.frames[k].module]
                     /\ unattributed_frames(c) = Cardinality({k \in DOMAIN value.frames : \A m \in ToSet(value.modules) : ~ModuleContains(m, value.frames[k])})
                     /\ \A i \in DOMAIN c.modules : \E k \in DOMAIN c.frames : c.frames[k].module = i
          [] value.phase = "export" ->
                 LET f == Ordered(folded(value.samples))
                     p == build(f)
                     x == to_firefox_value(f)
                 IN  /\ FoldLeft(LAMBDA a, e : a + e.count, 0, f) = Cardinality({i \in DOMAIN value.samples : value.samples[i] # <<>>})
                     /\ \A e \in ToSet(f) : Separators(JoinFrames(e.stack)) = Len(e.stack) - 1
                     /\ p.strings[1] = <<>> /\ IsInjective(p.strings)
                     /\ \A i \in DOMAIN f : /\ [j \in DOMAIN f[i].stack |-> p.functions[p.samples[i].location[j]]] = Reverse(f[i].stack)
                                            /\ StackOf(x.rows)[x.stack[i]] = f[i].stack
          [] value.phase = "join" ->
                 value.updates # <<>> => \A t \in subscribe(value.updates, 9) : t.idle >= 0 /\ t.id \notin InternalTasks(value.updates)
          [] OTHER -> arch_regs(value.arch, value.s) # 0
=============================================================================
