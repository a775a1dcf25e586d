----------------------------- MODULE CrashSinks -----------------------------
(***************************************************************************)
(* What surrounds the armed crash handler (crash/mod.rs, crash/spool.rs).  *)
(* Facet "chain": the SIGABRT wrappers of Windows and macOS, their          *)
(* publication, their readers and the predecessor they chain to.  Facet     *)
(* "sinks": the spool directory shared by several processes, with the reap  *)
(* of abandoned sinks.  Facet "fork": a child that inherits an armed        *)
(* Runtime.  Facet "value": the record codec and the other pure functions.  *)
(***************************************************************************)
EXTENDS Integers, Sequences, FiniteSets

CONSTANTS Deliveries,   \* SIGABRT deliveries
          MaxRounds,    \* attachments of the handler
          Insts,        \* processes over time
          Pids          \* process ids of the host

VARIABLES facet, host, ch, sk, fk, value

vars == <<facet, host, ch, sk, fk, value>>

(***************************************************************************)
(* Abort chains.  Dispositions of SIGABRT: dfl, app and ext (predecessors), *)
(* shim (crash-handler's own), ours.  A Shared is named by its generation.  *)
(***************************************************************************)
IdleDelivery == [at |-> "idle", shared |-> 0, prev |-> 0, quiet |-> TRUE, wrote |-> FALSE]
FreshChain(d) ==
    [pc |-> "idle", round |-> 0, gen |-> 0, disp |-> d, pred |-> d, queried |-> d, saved |-> d,
     prev |-> 0, box |-> [b \in 0 .. (MaxRounds + 1) |-> "none"], retired |-> 0, why |-> "none",
     shared |-> 0, alive |-> {}, attached |-> FALSE, readers |-> 0, span |-> FALSE, failed |-> FALSE, freed |-> FALSE, ended |-> FALSE,
     k |-> [d0 \in Deliveries |-> IdleDelivery]]
InFlight(s) == {k \in Deliveries : s.k[k].at \notin {"idle", "done"}}
Win == host = "windows"
\* A step of the thread that owns HANDLER_TRANSITION.
Owner(pc, s) ==
    /\ facet = "chain" /\ ~ch.ended /\ ch.pc = pc
    /\ ch' = [s EXCEPT !.span = @ \/ InFlight(ch) # {},
                       !.k = [k \in Deliveries |-> IF k \in InFlight(ch) THEN [s.k[k] EXCEPT !.quiet = FALSE] ELSE s.k[k]]]
    /\ UNCHANGED <<facet, host, sk, fk, value>>

\* Runtime::new makes a Shared; resume_handler attaches the one there is.
Install == ch.round < MaxRounds /\ Owner("idle", [ch EXCEPT !.pc = "query", !.gen = @ + 1, !.alive = @ \cup {ch.gen + 1}])
Resume == ch.round < MaxRounds /\ Owner("bare", [ch EXCEPT !.pc = "query", !.why = "suspend"])
\* windows_previous_abort_handler swaps to the default and back.
windows_previous_abort_handler == Win /\ Owner("query", [ch EXCEPT !.queried = ch.disp, !.disp = "dfl", !.pc = "restore"])
QueryRestores == Win /\ Owner("restore", [ch EXCEPT !.disp = ch.queried, !.pc = "attach"])
macos_previous_abort_action == ~Win /\ Owner("query", [ch EXCEPT !.queried = ch.disp, !.pc = "attach"])
\* At most one attachment fails; it leaves a Runtime without handler, or none at all.
AttachFailed(s) ==
    LET t == [s EXCEPT !.failed = TRUE, !.attached = FALSE] IN
    IF s.why = "suspend" THEN [t EXCEPT !.pc = "bare"] ELSE [t EXCEPT !.pc = "idle", !.alive = @ \ {s.gen}]
CrashHandler_attach ==
    \/ Owner("attach", [ch EXCEPT !.saved = ch.disp, !.disp = "shim", !.attached = TRUE, !.pc = "publish"])
    \/ ~ch.failed /\ Owner("attach", AttachFailed(ch))
\* install_windows_abort_chain: predecessor, Shared, wrapper.
WinPublishesPrevious == Win /\ Owner("publish", [ch EXCEPT !.box[0] = ch.queried, !.pc = "share"])
Shares == Owner("share", [ch EXCEPT !.shared = ch.gen, !.pc = "signal"])
Armed(s) == [s EXCEPT !.disp = "ours", !.why = "none", !.round = @ + 1, !.pc = "armed"]
install_windows_abort_chain ==
    /\ Win
    /\ \/ Owner("signal", Armed(ch))
       \/ ~ch.failed /\ Owner("signal", AttachFailed([ch EXCEPT !.shared = 0, !.disp = ch.saved]))
NextBox == ch.round + IF ch.failed THEN 2 ELSE 1
\* install_macos_abort_chain: publish the new action, drain, free the old one.
MacSwaps == ~Win /\ Owner("publish", [ch EXCEPT !.prev = NextBox, !.box[NextBox] = ch.queried, !.retired = ch.prev, !.pc = "retire"])
MacRetires == ~Win /\ ch.readers = 0 /\ Owner("retire", [ch EXCEPT !.box[ch.retired] = "none", !.pc = "share"])
install_macos_abort_chain ==
    /\ ~Win
    /\ \/ Owner("signal", Armed(ch))
       \/ ~ch.failed /\ Owner("signal", [ch EXCEPT !.shared = 0, !.pc = "refused"])
MacRefused == ~Win /\ ch.readers = 0 /\ Owner("refused", AttachFailed([ch EXCEPT !.disp = ch.saved]))

\* suspend_handler and Runtime::drop uninstall the chain, then detach.
Leave(why) ==
    /\ ch.pc = "armed" \/ (why = "drop" /\ ch.pc = "bare")
    /\ Owner(ch.pc, [ch EXCEPT !.why = why, !.pc = "uninstall"])
WinNulls == Win /\ Owner("uninstall", [ch EXCEPT !.shared = 0, !.pc = "drain"])
\* Zero is both no predecessor and SIG_DFL: neither is put back here.
uninstall_windows_abort_chain ==
    /\ Win /\ ch.readers = 0
    /\ Owner("drain", [ch EXCEPT !.disp = IF ch.box[0] \in {"none", "dfl"} THEN @ ELSE ch.box[0], !.box[0] = "none", !.pc = "detach"])
MacRestores == ~Win /\ Owner("uninstall", [ch EXCEPT !.disp = IF ch.prev = 0 THEN @ ELSE ch.box[ch.prev], !.pc = "null"])
MacNulls == ~Win /\ Owner("null", [ch EXCEPT !.shared = 0, !.pc = "drain"])
uninstall_macos_abort_chain == ~Win /\ ch.readers = 0 /\ Owner("drain", [ch EXCEPT !.pc = "detach"])
\* crash-handler puts back what it found, if it is attached.
Detach ==
    Owner("detach", [ch EXCEPT !.disp = IF ch.attached THEN ch.saved ELSE @, !.attached = FALSE,
                               !.alive = IF ch.why = "drop" THEN @ \ {ch.gen} ELSE @,
                               !.pc = IF ch.why = "drop" THEN "idle" ELSE "suspended",
                               !.why = IF ch.why = "drop" THEN "none" ELSE @])
\* with_handler_suspended: the caller installs its own handler, or does not.
ExternalInstalls(d) == ch.round < MaxRounds /\ Owner("suspended", [ch EXCEPT !.disp = d, !.pred = d, !.pc = "query"])

\* windows_abort_handler and macos_abort_handler, on the aborting thread.
Handler(k, at, s) ==
    /\ facet = "chain" /\ ~ch.ended /\ ch.k[k].at = at /\ ch' = s
    /\ UNCHANGED <<facet, host, sk, fk, value>>
\* The Windows CRT resets the disposition as it delivers.
Deliver(k) == ch.disp = "ours" /\ Handler(k, "idle", [ch EXCEPT !.k[k] = [IdleDelivery EXCEPT !.at = "enter", !.quiet = (ch.pc = "armed")], !.disp = IF Win THEN "dfl" ELSE @])
Enters(k) == Handler(k, "enter", [ch EXCEPT !.readers = @ + 1, !.k[k].at = IF Win THEN "shared" ELSE "previous"])
MacLoadsPrevious(k) == Handler(k, "previous", [ch EXCEPT !.k[k].prev = ch.prev, !.k[k].at = "shared"])
LoadsShared(k) == Handler(k, "shared", [ch EXCEPT !.k[k].shared = ch.shared, !.k[k].at = "handle"])
\* Shared::handle_abort; a Shared that is gone would be read after its end.
handle_abort(k) ==
    LET g == ch.k[k].shared IN
    Handler(k, "handle", [ch EXCEPT !.freed = @ \/ (g # 0 /\ g \notin ch.alive), !.k[k].wrote = (g # 0),
                                    !.k[k].at = IF Win THEN "leave" ELSE "chain"])
Leaves(k) == Handler(k, "leave", [ch EXCEPT !.readers = @ - 1, !.k[k].at = IF Win THEN "chain" ELSE "raise"])
windows_abort_handler(k) ==
    Win /\ Handler(k, "chain", [ch EXCEPT !.disp = IF ch.box[0] = "none" THEN "dfl" ELSE ch.box[0], !.k[k].at = "raise"])
macos_abort_handler(k) ==
    ~Win /\ Handler(k, "chain", [ch EXCEPT !.freed = @ \/ ch.box[ch.k[k].prev] = "none", !.disp = ch.box[ch.k[k].prev], !.k[k].at = "leave"])
\* The predecessor ends the process or returns; Windows then arms again.
Raises(k) ==
    \/ ch.disp \in {"dfl", "app", "ext", "none", "shim"} /\ Handler(k, "raise", [ch EXCEPT !.ended = TRUE])
    \/ ch.disp \in {"app", "ext", "shim"} /\ Handler(k, "raise", [ch EXCEPT !.k[k].at = IF Win THEN "rearm" ELSE "done"])
    \/ ch.disp = "ours" /\ Handler(k, "raise", [ch EXCEPT !.k[k].at = "enter"])
Rearms(k) == Handler(k, "rearm", [ch EXCEPT !.disp = "ours", !.k[k].at = "done"])

ChainNext ==
    \/ Install \/ Resume \/ windows_previous_abort_handler \/ QueryRestores \/ macos_previous_abort_action
    \/ CrashHandler_attach \/ WinPublishesPrevious \/ Shares \/ install_windows_abort_chain
    \/ MacSwaps \/ MacRetires \/ install_macos_abort_chain \/ MacRefused
    \/ (\E why \in {"suspend", "drop"} : Leave(why)) \/ WinNulls \/ uninstall_windows_abort_chain
    \/ MacRestores \/ MacNulls \/ uninstall_macos_abort_chain \/ Detach
    \/ (\E d \in {ch.disp, "ext"} : ExternalInstalls(d))
    \/ \E k \in Deliveries :
          Deliver(k) \/ Enters(k) \/ MacLoadsPrevious(k) \/ LoadsShared(k) \/ handle_abort(k) \/ Leaves(k)
          \/ windows_abort_handler(k) \/ macos_abort_handler(k) \/ Raises(k) \/ Rearms(k)

(***************************************************************************)
(* The spool directory.  A sink is named by the process instance that made *)
(* it; its name carries that instance's pid.                               *)
(***************************************************************************)
NoReap == [at |-> "idle", todo |-> {}, cur |-> 0, dead |-> {}, short |-> {}, sure |-> TRUE]
FreshSinks ==
    [pid |-> [i \in Insts |-> 0], st |-> [i \in Insts |-> "none"], file |-> [i \in Insts |-> "none"],
     reap |-> [i \in Insts |-> NoReap], lost |-> {}, cut |-> {}, erased |-> {}]
InSinks(s) == facet = "sinks" /\ sk' = s /\ UNCHANGED <<facet, host, ch, fk, value>>
Alive(s, p) == \E i \in Insts : s.pid[i] = p /\ s.st[i] \in {"started", "reaping", "armed"}
Start(i, p) ==
    /\ sk.st[i] = "none" /\ ~Alive(sk, p) /\ \A j \in Insts : j < i => sk.st[j] # "none"
    /\ InSinks([sk EXCEPT !.pid[i] = p, !.st[i] = "started"])
Short(s, f) == s.file[f] \in {"empty", "part"}
\* create_sink_in: the directory must be private, then the listing of the reap.
create_sink_in(i, private) ==
    /\ sk.st[i] = "started"
    /\ LET listed == {f \in Insts : sk.file[f] \in {"empty", "part", "whole"}} IN
       InSinks(IF ~private THEN [sk EXCEPT !.st[i] = "refused"]
               ELSE [sk EXCEPT !.st[i] = "reaping",
                               !.reap[i] = [NoReap EXCEPT !.at = "next", !.todo = listed,
                                                          !.dead = {f \in listed : ~Alive(sk, sk.pid[f])},
                                                          !.short = {f \in listed : Short(sk, f)}]])
ReapNext(i, f) ==
    /\ sk.st[i] = "reaping" /\ sk.reap[i].at = "next" /\ f \in sk.reap[i].todo
    /\ InSinks([sk EXCEPT !.reap[i].todo = @ \ {f}, !.reap[i].cur = f, !.reap[i].at = "liveness"])
\* Gone only when no process has the number; the host may decline to say.
owner_is_gone(i, answers) ==
    /\ sk.st[i] = "reaping" /\ sk.reap[i].at = "liveness"
    /\ LET gone == answers /\ ~Alive(sk, sk.pid[sk.reap[i].cur]) IN
       InSinks([sk EXCEPT !.reap[i].at = IF gone THEN "size" ELSE "next", !.reap[i].sure = @ /\ (gone \/ sk.reap[i].cur \notin sk.reap[i].dead)])
\* Only now is the size meaningful: nothing more can be appended.
reap_abandoned_sinks(i) ==
    /\ sk.st[i] = "reaping" /\ sk.reap[i].at = "size"
    /\ InSinks([sk EXCEPT !.reap[i].at = IF Short(sk, sk.reap[i].cur) THEN "remove" ELSE "next"])
Remove(s, f) == [s EXCEPT !.file[f] = IF @ = "drained" THEN @ ELSE "gone",
                          !.lost = IF s.file[f] = "whole" \/ (s.st[f] = "armed") THEN @ \cup {f} ELSE @,
                          !.cut = IF s.file[f] = "part" THEN @ \cup {f} ELSE @]
ReapRemoves(i) ==
    /\ sk.st[i] = "reaping" /\ sk.reap[i].at = "remove"
    /\ InSinks([Remove(sk, sk.reap[i].cur) EXCEPT !.reap[i].at = "next"])
\* The walk ends and the new sink is created, empty.
SinkCreated(i) ==
    /\ sk.st[i] = "reaping" /\ sk.reap[i].at = "next" /\ sk.reap[i].todo = {}
    /\ InSinks([sk EXCEPT !.file[i] = "empty", !.st[i] = "armed", !.reap[i].at = "done"])
\* The fatal callback writes once; a write may be partial.  A predecessor may let
\* the process live on.
write_once(i, size, survives) ==
    /\ sk.st[i] = "armed" /\ sk.file[i] = "empty"
    /\ InSinks([sk EXCEPT !.file[i] = size, !.st[i] = IF survives THEN @ ELSE "dead"])
\* process::exit runs no CrashGuard::drop.
Exits(i) == sk.st[i] \in {"started", "armed", "refused", "closed"} /\ InSinks([sk EXCEPT !.st[i] = "dead"])
Runtime_drop(i) == sk.st[i] = "armed" /\ InSinks([sk EXCEPT !.file[i] = "gone", !.st[i] = "closed", !.erased = IF sk.file[i] = "whole" THEN @ \cup {i} ELSE @])
\* A reader takes a whole record away under a name the reap does not match.
Drains(f) == sk.file[f] = "whole" /\ InSinks([sk EXCEPT !.file[f] = "drained"])
SinksNext ==
    \E i \in Insts :
        \/ (\E p \in Pids : Start(i, p)) \/ (\E b \in BOOLEAN : create_sink_in(i, b)) \/ (\E f \in Insts : ReapNext(i, f))
        \/ (\E b \in BOOLEAN : owner_is_gone(i, b)) \/ reap_abandoned_sinks(i) \/ ReapRemoves(i) \/ SinkCreated(i)
        \/ (\E size \in {"part", "whole"}, b \in BOOLEAN : write_once(i, size, b))
        \/ Exits(i) \/ Runtime_drop(i) \/ Drains(i)

(***************************************************************************)
(* A fork copies the statics, the guard and the Runtime, not the threads.  *)
(***************************************************************************)
MaxTries == 6    \* calls and faults in the fork facet
Processes == {"parent", "child"}
NoMemory == [owner |-> "none", rt |-> "none", guards |-> 0, locked |-> FALSE, reply |-> "none", stuck |-> FALSE]
FreshFork == [mem |-> [p \in Processes |-> NoMemory], forked |-> FALSE, by |-> {}, tries |-> 0]
InFork(p, s) ==
    /\ facet = "fork" /\ fk.tries < MaxTries /\ (p = "child" => fk.forked) /\ ~fk.mem[p].stuck
    /\ fk' = [s EXCEPT !.tries = @ + 1] /\ UNCHANGED <<facet, host, ch, sk, value>>
Replies(p, r) == [fk EXCEPT !.mem[p].reply = r]
\* install: OWNER_PID, then the Runtime that is there or a new one.
install(p) ==
    LET me == fk.mem[p] IN
    IF me.owner \notin {"none", p} THEN InFork(p, Replies(p, "ForkedProcess"))
    ELSE /\ ~me.locked
         /\ InFork(p, [Replies(p, "Ok") EXCEPT !.mem[p].owner = p, !.mem[p].guards = @ + 1,
                                               !.mem[p].rt = IF me.guards = 0 THEN p ELSE @])
with_handler_suspended(p) ==
    LET foreign == fk.mem[p].owner \notin {"none", p} IN
    InFork(p, Replies(p, IF foreign THEN "ForkedProcess" ELSE "Ok"))
\* Another thread of the parent holds the registrations at the fork, or none does.
Fork(held) ==
    /\ ~fk.forked
    /\ InFork("parent", [fk EXCEPT !.forked = TRUE, !.mem["child"] = [fk.mem["parent"] EXCEPT !.locked = held, !.reply = "none"]])
\* CrashGuard::drop takes the registrations lock; the last guard ends the Runtime,
\* which an inheriting process only forgets.  `by` pairs who touched a sink with
\* the process it belongs to.
CrashGuard_drop(p) ==
    LET me == fk.mem[p]
        last == me.guards = 1 IN
    /\ me.guards > 0
    /\ InFork(p, IF me.locked THEN [fk EXCEPT !.mem[p].stuck = TRUE]
                 ELSE [fk EXCEPT !.mem[p].guards = @ - 1,
                                 !.by = IF last /\ me.rt = p THEN @ \cup {<<p, me.rt>>} ELSE @])
\* handle_crash and handle_abort: the callback is gated by the pid.
Faults(p) ==
    LET me == fk.mem[p] IN
    /\ me.guards > 0
    /\ InFork(p, [fk EXCEPT !.by = IF me.rt = p THEN @ \cup {<<p, me.rt>>} ELSE @])
is_armed(p) == fk.mem[p].guards > 0 /\ fk.mem[p].rt = p
ForkNext ==
    \/ \E p \in Processes : install(p) \/ with_handler_suspended(p) \/ CrashGuard_drop(p) \/ Faults(p)
    \/ \E b \in BOOLEAN : Fork(b)

(***************************************************************************)
(* The record codec, small: texts are sequences of "a" and "0" (a NUL).    *)
(***************************************************************************)
TextSize == 2        \* TEXT_SIZE, CWD_SIZE, MODULE_SIZE
MaxModules == 1
MaxThreads == 1
MaxFrames == 1
MaxRawContext == 1   \* MAX_RAW_CONTEXT; a version 1 record had room for more
V1MaxRawContext == 2
Unattributed == 9    \* u32::MAX
KnownFlags == {"threads", "context", "modules"}
First(n, q) == SubSeq(q, 1, IF Len(q) < n THEN Len(q) ELSE n)
put_text_sized(t) == First(TextSize - 1, t)
get_text_sized(t) ==
    LET nul == {i \in 1 .. Len(t) : t[i] = "0"} IN
    IF nul = {} THEN t ELSE First((CHOOSE i \in nul : \A j \in nul : i <= j) - 1, t)
initialize == [len |-> "RECORD_SIZE", magic |-> TRUE, version |-> 2, name |-> <<>>, cwd |-> <<>>, flags |-> {},
               modules |-> <<>>, threads |-> <<>>, raw |-> 0]
put_metadata(r, meta) == [r EXCEPT !.name = put_text_sized(meta.name), !.cwd = put_text_sized(meta.cwd)]
Attributable(frames, n) == SelectSeq(frames, LAMBDA f : f = Unattributed \/ f < n)
put_sample(r, modules, threads) ==
    LET n == Len(First(MaxModules, modules))
        kept == [i \in 1 .. Len(First(MaxThreads, threads)) |-> First(MaxFrames, Attributable(threads[i], n))] IN
    [r EXCEPT !.modules = [i \in 1 .. n |-> put_text_sized(modules[i])], !.threads = kept,
              !.flags = (IF Len(modules) > n \/ \E i \in 1 .. n : Len(modules[i]) >= TextSize THEN {"modules"} ELSE {})
                        \cup (IF Len(threads) > Len(kept) \/ \E i \in 1 .. Len(kept) : Len(threads[i]) > Len(kept[i]) THEN {"threads"} ELSE {})]
put_crash(r, raw) ==
    [r EXCEPT !.raw = IF raw > MaxRawContext THEN MaxRawContext ELSE raw,
              !.flags = IF raw > MaxRawContext THEN @ \cup {"context"} ELSE @]
encode(report) == put_crash(put_sample(put_metadata(initialize, report), report.modules, report.threads), report.raw)
InRange(r) ==
    /\ r.len = "RECORD_SIZE" /\ r.magic /\ r.version \in {1, 2} /\ r.flags \subseteq KnownFlags
    /\ Len(r.modules) <= MaxModules /\ Len(r.threads) <= MaxThreads
    /\ r.raw <= IF r.version = 1 THEN V1MaxRawContext ELSE MaxRawContext
    /\ \A i \in 1 .. Len(r.threads) :
          /\ Len(r.threads[i]) <= MaxFrames
          /\ \A j \in 1 .. Len(r.threads[i]) : r.threads[i][j] = Unattributed \/ r.threads[i][j] < Len(r.modules)
parse(r) ==
    IF ~InRange(r) THEN [ok |-> FALSE]
    ELSE [ok |-> TRUE, name |-> get_text_sized(r.name), cwd |-> IF r.version = 1 THEN <<>> ELSE get_text_sized(r.cwd),
          modules |-> [i \in 1 .. Len(r.modules) |-> get_text_sized(r.modules[i])], threads |-> r.threads, raw |-> r.raw,
          truncated |-> r.flags # {}]

\* A file name as its parts; the pid segment as spelled.
Names == [prefix : BOOLEAN, suffix : {"rpcrash", "draining", "none"}, dash : BOOLEAN,
          pid : [chars : {"none", "digits", "plus"}, value : {0, 7}, fits : BOOLEAN]]
sink_owner_pid(n) ==
    IF n.prefix /\ n.suffix = "rpcrash" /\ n.dash /\ n.pid.chars = "digits" /\ n.pid.fits THEN n.pid.value ELSE 0
default_owner_root(e) ==
    CASE e.host = "windows" -> "temp" [] e.xdg = "absolute" -> "xdg" [] OTHER -> "temp-uid"
spool_dir(e) == IF e.override THEN "override" ELSE default_owner_root(e)
create_private_dir(d) == d.host # "windows" => ~d.symlink /\ d.dir /\ d.mine /\ ~d.open
env_opted_out(v) == v \in {"1", "true", "yes"}
\* install_with_sampler_config before it touches the process.
Admits(c) ==
    CASE c.off \/ env_opted_out(c.env) -> "inert" [] c.interval = 0 \/ c.max < c.interval -> "InvalidSamplerConfig" [] OTHER -> "arms"
\* The cadence after one tick that took `spent`, of a sample seen before or not.
Larger(x, y) == IF x < y THEN y ELSE x
Duty == 2            \* 100 in the code
next_cadence(c) == Larger(IF c.same THEN (IF 2 * c.cadence < c.max THEN 2 * c.cadence ELSE c.max) ELSE c.interval, Duty * c.spent)
\* with_platform_fields, by host: where the raw context comes from.
linux_fields(x) == [tid |-> x.tid, raw |-> "context", address |-> "fault"]
windows_fields(x) ==
    [tid |-> x.tid, raw |-> IF x.pointers /\ x.registers THEN "registers" ELSE "wrapper",
     address |-> IF x.pointers /\ x.record THEN "fault" ELSE "zero"]
macos_fields(x) ==
    [tid |-> IF x.identified THEN x.tid ELSE "port", raw |-> IF x.registers THEN "registers" ELSE "none",
     address |-> IF x.record THEN "fault" ELSE "zero"]
capture_sample(a) == [identity |-> IF a.path # <<>> THEN a.path ELSE a.name, frames |-> a.frames]

SeqsUpTo(S, n) == UNION {[1 .. l -> S] : l \in 0 .. n}
Texts == SeqsUpTo({"a", "0"}, 2)
Values ==
    {[kind |-> "meta", name |-> a, cwd |-> b, modules |-> <<>>, threads |-> <<>>, raw |-> 0] : a \in Texts, b \in Texts}
    \cup {[kind |-> "sample", name |-> <<>>, cwd |-> <<>>, modules |-> ms, threads |-> ts, raw |-> n] :
              ms \in SeqsUpTo({<<"a">>, <<"a", "a">>}, 2), ts \in SeqsUpTo(SeqsUpTo({0, 1, Unattributed}, 2), 2), n \in 0 .. 2}
    \cup {[kind |-> "record", r |-> [initialize EXCEPT !.len = l, !.version = v, !.cwd = <<"a">>, !.flags = f, !.modules = ms, !.threads = ts, !.raw = n]] :
              l \in {"RECORD_SIZE", "short"}, v \in 0 .. 3, f \in {{}, {"context"}, {"unknown"}}, ms \in SeqsUpTo({<<"a">>}, 2),
              ts \in SeqsUpTo(SeqsUpTo({0, 1, Unattributed}, 2), 1), n \in 0 .. 3}
    \cup {[kind |-> "name", n |-> n] : n \in Names}
    \cup {[kind |-> "dir", e |-> e] : e \in [host : {"linux", "windows"}, override : BOOLEAN, xdg : {"none", "relative", "absolute"}]}
    \cup {[kind |-> "private", d |-> d] : d \in [host : {"linux", "windows"}, symlink : BOOLEAN, dir : BOOLEAN, mine : BOOLEAN, open : BOOLEAN]}
    \cup {[kind |-> "config", c |-> c] : c \in [off : BOOLEAN, env : {"none", "1", "true", "0"}, interval : 0 .. 2, max : 0 .. 2]}
    \cup {[kind |-> "cadence", c |-> c] : c \in [cadence : 1 .. 8, same : BOOLEAN, interval : {1}, max : {4}, spent : 0 .. 4]}
    \cup {[kind |-> "fields", x |-> x] : x \in [tid : {"tid"}, pointers : BOOLEAN, registers : BOOLEAN, record : BOOLEAN, identified : BOOLEAN]}
    \cup {[kind |-> "capture", a |-> a] : a \in [path : Texts, name : Texts, frames : SeqsUpTo({0, Unattributed}, 2)]}

Init ==
    /\ facet \in {"chain", "sinks", "fork", "value"}
    /\ host \in IF facet = "chain" THEN {"windows", "macos"} ELSE {"linux"}
    /\ ch \in {FreshChain(d) : d \in IF facet = "chain" THEN {"dfl", "app"} ELSE {"dfl"}}
    /\ sk = FreshSinks /\ fk = FreshFork
    /\ value \in IF facet = "value" THEN Values ELSE {[kind |-> "off"]}
Next == ChainNext \/ SinksNext \/ ForkNext
Spec == Init /\ [][Next]_vars

(***************************************************************************)
(* Properties.                                                             *)
(***************************************************************************)
\* An abort that is being handled never reads a Shared or a predecessor action that
\* was freed, whatever installs, suspends or tears down meanwhile; one that no
\* transition overlaps leaves a record; and a teardown that no abort overlaps gives
\* SIGABRT back to whoever held it last.  The error path of the Windows install, which
\* drains nobody, is left out (uninstall_*_abort_chain, install_macos_abort_chain).
AbortChainIsSound ==
    /\ ch.freed => Win /\ ch.failed
    /\ \A k \in Deliveries : ch.k[k].at = "done" /\ ch.k[k].quiet => ch.k[k].wrote
    /\ ch.pc = "idle" /\ ~ch.span /\ ~ch.failed => ch.disp = ch.pred

\* The reap of abandoned sinks never removes a whole record nor the sink of a process
\* that can still write it, and after a reap to which the host answered, no short sink
\* of a process dead at the listing is left (reap_abandoned_sinks, owner_is_gone).
ReapIsTimid ==
    /\ sk.lost = {}
    /\ \A i \in Insts : sk.reap[i].at = "done" /\ sk.reap[i].sure =>
          \A f \in sk.reap[i].dead \cap sk.reap[i].short : sk.file[f] = "gone"

\* A process that inherited an armed Runtime through fork writes no record into its
\* parent's sink, never removes it, is not armed and is refused a registration
\* (OWNER_PID, the pid checks of handle_crash and Runtime::drop).
ForkedChildIsInert ==
    /\ \A t \in fk.by : t[1] = t[2]
    /\ fk.forked /\ fk.mem["child"].owner = "parent" => ~is_armed("child") /\ fk.mem["child"].reply # "Ok"

\* What the handler writes, the daemon reads: parse accepts every encoded report and
\* returns its fields up to their bounds, flagging what was cut from modules, threads
\* and context; no record with a field out of range or a frame of an unknown module
\* is accepted; only this crate's own sink names are reaped; raw context is never a
\* pointer-only structure on macOS; sampling keeps its duty cycle.
CrashValuesAgree ==
    CASE value.kind \in {"meta", "sample"} ->
            LET got == parse(encode(value)) IN
            /\ got.ok
            /\ got.name = get_text_sized(First(TextSize - 1, value.name)) /\ got.cwd = get_text_sized(First(TextSize - 1, value.cwd))
            /\ got.truncated <=>
                  \/ Len(value.modules) > Len(got.modules) \/ (\E i \in 1 .. Len(got.modules) : value.modules[i] # got.modules[i])
                  \/ Len(value.threads) > Len(got.threads) \/ (\E i \in 1 .. Len(got.threads) : value.threads[i] # got.threads[i])
                  \/ value.raw # got.raw
      [] value.kind = "record" ->
            LET got == parse(value.r) IN
            got.ok => /\ \A i \in 1 .. Len(got.threads) : \A j \in 1 .. Len(got.threads[i]) : got.threads[i][j] \in {Unattributed} \cup 0 .. (Len(got.modules) - 1)
                      /\ got.raw > MaxRawContext => value.r.version = 1 /\ got.cwd = <<>>
                      /\ got.truncated <=> value.r.flags # {}
      [] value.kind = "name" -> sink_owner_pid(value.n) # 0 => value.n.suffix # "draining" /\ value.n.pid.chars = "digits" /\ value.n.pid.value # 0
      [] value.kind = "dir" -> spool_dir(value.e) = "xdg" => ~value.e.override /\ value.e.xdg = "absolute"
      [] value.kind = "private" -> value.d.host = "linux" /\ create_private_dir(value.d) => value.d.mine /\ ~value.d.open /\ ~value.d.symlink
      [] value.kind = "config" -> Admits(value.c) = "arms" => value.c.interval > 0 /\ ~value.c.off
      [] value.kind = "cadence" -> next_cadence(value.c) >= value.c.interval /\ next_cadence(value.c) >= Duty * value.c.spent
                                   /\ (Duty * value.c.spent <= value.c.max => next_cadence(value.c) <= value.c.max)
      [] value.kind = "fields" ->
            /\ macos_fields(value.x).raw # "wrapper" /\ (value.x.registers /\ value.x.pointers => windows_fields(value.x).raw = "registers")
            /\ linux_fields(value.x).tid = windows_fields(value.x).tid
      [] value.kind = "capture" -> Len(capture_sample(value.a).frames) = Len(value.a.frames)
      [] OTHER -> TRUE

=============================================================================
