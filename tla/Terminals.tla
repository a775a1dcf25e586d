----------------------------- MODULE Terminals -----------------------------
(***************************************************************************)
(* Terminals.  Independent parts, one per behaviour (`facet`):             *)
(*   console  two capture cores of a Windows console, their worker threads *)
(*            and the threads that wait for input;                         *)
(*   tty      two raw or key sessions and a graphics probe on one Unix     *)
(*            terminal;                                                    *)
(*   keys     the key decoder fed by chunks, with its expiry;              *)
(*   pty      a session on a Unix pseudo-terminal whose child may stop     *)
(*            reading, and a shared writer with an interrupting thread;    *)
(*   conpty   the handles of a Windows pseudo-console and its child's job; *)
(*   sidecar  processes that fetch the same redistributable;               *)
(*   value    pure functions: key translation, quoting, payloads.          *)
(* A byte is one of the tokens the code tells apart.                       *)
(***************************************************************************)
EXTENDS Integers, Sequences, FiniteSets, SequencesExt

CONSTANTS MaxEvents,    \* events a capture queue holds (256)
          MaxQueued,    \* bytes a capture queue holds (65536)
          MaxRepeat,    \* repeats of a captured key (1024)
          MaxPending,   \* parameter bytes of a control sequence (128)
          MaxConsumed,  \* bytes of one key (65536)
          MaxRecords,   \* console records the environment produces
          MaxStarts,    \* captures the environment starts
          Room          \* bytes the pseudo-terminal's input queue holds

VARIABLES facet, host, console, tty, keys, pty, conpty, sidecar, value

vars == <<facet, host, console, tty, keys, pty, conpty, sidecar, value>>

Off == [phase |-> "off"]
Others(f) ==
    /\ UNCHANGED <<facet, host, value>>
    /\ IF f = "console" THEN TRUE ELSE UNCHANGED console
    /\ IF f = "tty" THEN TRUE ELSE UNCHANGED tty
    /\ IF f = "keys" THEN TRUE ELSE UNCHANGED keys
    /\ IF f = "pty" THEN TRUE ELSE UNCHANGED pty
    /\ IF f = "conpty" THEN TRUE ELSE UNCHANGED conpty
    /\ IF f = "sidecar" THEN TRUE ELSE UNCHANGED sidecar

(***************************************************************************)
(* Console capture.  `owned` is the process-wide input lease.              *)
(***************************************************************************)
\* Core 1 has input and a waiting thread; core 2 competes for the lease.
Cores == {1, 2}
OriginalMode == {"ECHO", "LINE", "PROCESSED", "QUICK_EDIT"}
native_terminal_input_mode(mode) ==
    (mode \cup {"EXTENDED", "WINDOW"}) \ {"ECHO", "LINE", "PROCESSED", "QUICK_EDIT"}
ActiveMode(mode, keep) == native_terminal_input_mode(mode) \cup (IF keep THEN mode \cap {"PROCESSED"} ELSE {})

TerminalInputCore ==
    [worker |-> "none", stop |-> FALSE, capturing |-> FALSE, closed |-> TRUE, failure |-> "none",
     events |-> <<>>, batch |-> <<>>, lease |-> FALSE, original |-> {}, stopping |-> FALSE,
     waiter |-> "idle", got |-> <<>>]
FreshConsole == [phase |-> "on", owned |-> FALSE, mode |-> OriginalMode, unrestored |-> FALSE, read |-> 0, starts |-> 0,
                 cores |-> [c \in Cores |-> TerminalInputCore]]
Core(c) == console.cores[c]
QueuedBytes(q) == FoldLeft(LAMBDA n, e : n + e.bytes, 0, q)
CanPush(q, bytes) == Len(q) < MaxEvents /\ bytes <= MaxQueued - QueuedBytes(q)
Notified(w) == IF w = "parked" THEN "woken" ELSE w
Set(c, core) == console' = [console EXCEPT !.cores[c] = core]

\* The lease is taken before the mode is read; any failure after it drops it.
start_with_signal_keys(c, keep) ==
    /\ facet = "console" /\ ~Core(c).stopping /\ Core(c).worker = "none" /\ ~console.owned /\ console.starts < MaxStarts
    /\ console' = [console EXCEPT !.owned = TRUE, !.starts = @ + 1, !.mode = ActiveMode(@, keep),
                      !.cores[c] = [@ EXCEPT !.worker = "runs", !.stop = FALSE, !.capturing = TRUE,
                                             !.events = <<>>, !.failure = "none", !.closed = FALSE,
                                             !.lease = TRUE, !.original = console.mode]]
    /\ Others("console")

\* The stop flag is looked at between batches only.
Records == [down : BOOLEAN, repeat : {1, MaxRepeat + 1}, bytes : {1, 2}]
ReadConsoleInput(c) ==
    /\ facet = "console" /\ c = 1 /\ Core(c).worker = "runs" /\ Core(c).batch = <<>> /\ ~Core(c).stop
    /\ console.read < MaxRecords
    /\ \E r \in Records : \E more \in {<<>>, <<[down |-> TRUE, repeat |-> 1, bytes |-> 1]>>} :
          console' = [console EXCEPT !.read = @ + 1, !.cores[c].batch = <<r>> \o more]
    /\ Others("console")
WorkerFails(c) ==
    /\ facet = "console" /\ Core(c).worker = "runs" /\ Core(c).batch = <<>> /\ ~Core(c).stop
    /\ Set(c, [Core(c) EXCEPT !.failure = "Native", !.worker = "exits"])
    /\ Others("console")
WorkerSeesStop(c) ==
    /\ facet = "console" /\ Core(c).worker = "runs" /\ Core(c).batch = <<>> /\ Core(c).stop
    /\ Set(c, [Core(c) EXCEPT !.worker = "exits"])
    /\ Others("console")

translate_captured_key_event(r) ==
    IF ~r.down THEN "ignored" ELSE IF r.repeat > MaxRepeat THEN "Overflow" ELSE "event"
\* One record: translated outside the lock, then queued or turned into a failure.
TranslateRecord(c) ==
    /\ facet = "console" /\ Core(c).worker = "runs" /\ Core(c).batch # <<>>
    /\ LET r == Head(Core(c).batch)
           rest == [Core(c) EXCEPT !.batch = Tail(@)]
           overflow == [Core(c) EXCEPT !.batch = <<>>, !.failure = "Overflow", !.worker = "exits"]
       IN  Set(c, CASE translate_captured_key_event(r) = "ignored" -> rest
                    [] translate_captured_key_event(r) = "Overflow" -> overflow
                    [] OTHER -> IF CanPush(Core(c).events, r.bytes)
                                THEN [rest EXCEPT !.events = Append(@, [id |-> console.read, bytes |-> r.bytes]),
                                                  !.waiter = Notified(@)]
                                ELSE overflow)
    /\ Others("console")
Ended(core) == [core EXCEPT !.worker = "ended", !.capturing = FALSE, !.closed = TRUE,
                            !.events = IF core.failure = "none" THEN @ ELSE <<>>]
WorkerEnds(c) ==
    /\ facet = "console" /\ Core(c).worker = "exits"
    /\ Set(c, [Ended(Core(c)) EXCEPT !.waiter = Notified(@)])
    /\ Others("console")

\* stop_impl keeps the worker mutex: it joins, restores the mode, then lets the
\* lease go and closes the queue.
StopBegins(c) ==
    /\ facet = "console" /\ ~Core(c).stopping
    /\ Set(c, [Core(c) EXCEPT !.stopping = TRUE, !.stop = TRUE])
    /\ Others("console")
stop_impl(c) ==
    /\ facet = "console" /\ Core(c).stopping /\ Core(c).worker \in {"none", "ended"}
    /\ \E restored \in BOOLEAN :
          console' = [console EXCEPT
              !.owned = @ /\ ~Core(c).lease,
              !.mode = IF Core(c).lease /\ restored THEN Core(c).original ELSE @,
              !.unrestored = @ \/ (Core(c).lease /\ ~restored),
              !.cores[c] = [@ EXCEPT !.worker = "none", !.stopping = FALSE, !.capturing = FALSE, !.lease = FALSE,
                                     !.closed = TRUE, !.waiter = Notified(@)]]
    /\ Others("console")

\* One pass of the wait loop: a failure first, then input, then the end.
wait_for_terminal_input_event(c) ==
    /\ facet = "console" /\ c = 1 /\ Core(c).waiter \in {"idle", "woken"}
    /\ Set(c, CASE Core(c).failure # "none" -> [Core(c) EXCEPT !.waiter = "failed"]
                [] Core(c).failure = "none" /\ Core(c).events # <<>> ->
                       [Core(c) EXCEPT !.waiter = "idle", !.got = Append(@, Head(Core(c).events).id),
                                       !.events = Tail(@)]
                [] Core(c).failure = "none" /\ Core(c).events = <<>> /\ Core(c).closed ->
                       [Core(c) EXCEPT !.waiter = "closed"]
                [] OTHER -> [Core(c) EXCEPT !.waiter = "parked"])
    /\ Others("console")
WaitTimesOut(c) ==
    /\ facet = "console" /\ Core(c).waiter = "parked"
    /\ Set(c, [Core(c) EXCEPT !.waiter = "idle"])
    /\ Others("console")
drain_events(c) ==
    /\ facet = "console" /\ Core(c).events # <<>>
    /\ Set(c, [Core(c) EXCEPT !.got = @ \o [i \in DOMAIN Core(c).events |-> Core(c).events[i].id], !.events = <<>>])
    /\ Others("console")

(***************************************************************************)
(* Unix sessions and the graphics probe on one terminal.  Users 1 and 2    *)
(* are sessions, user 3 is the probe.                                      *)
(***************************************************************************)
Users == {1, 2, 3}
Canonical == {"ICANON", "ECHO", "ECHONL", "ISIG", "OPOST", "ICRNL"}
FreshTty == [phase |-> "on", owned |-> FALSE, mode |-> Canonical,
             users |-> [u \in Users |-> [at |-> "idle", saved |-> {}]]]
User(u) == tty.users[u]
new_with_mode(raw, mode) == IF raw THEN {} ELSE mode \ {"ICANON", "ECHO", "ECHONL"}
ProbeMode(mode) == mode \ {"ICANON", "ECHO"}

InputLease_acquire(u) ==
    /\ facet = "tty" /\ User(u).at = "idle" /\ ~tty.owned
    /\ tty' = [tty EXCEPT !.owned = TRUE, !.users[u].at = "leased"]
    /\ Others("tty")
InputLease_drop(u) ==
    /\ facet = "tty" /\ User(u).at \in {"leased", "saved", "restored"}
    /\ tty' = [tty EXCEPT !.owned = FALSE, !.users[u].at = "idle"]
    /\ Others("tty")
tcgetattr(u) ==
    /\ facet = "tty" /\ User(u).at = "leased"
    /\ tty' = [tty EXCEPT !.users[u] = [at |-> "saved", saved |-> tty.mode]]
    /\ Others("tty")
SetSessionMode(u) ==
    /\ facet = "tty" /\ u # 3 /\ User(u).at = "saved"
    /\ \E raw \in BOOLEAN :
          tty' = [tty EXCEPT !.mode = new_with_mode(raw, User(u).saved), !.users[u].at = "open"]
    /\ Others("tty")
active_graphics_probe(u) ==
    /\ facet = "tty" /\ u = 3 /\ User(u).at = "saved"
    /\ tty' = [tty EXCEPT !.mode = ProbeMode(User(u).saved), !.users[u].at = "open"]
    /\ Others("tty")
\* Drop's body restores the mode; the lease is a field and goes after it.
TerminalInputSession_drop(u) ==
    /\ facet = "tty" /\ User(u).at = "open"
    /\ tty' = [tty EXCEPT !.mode = User(u).saved, !.users[u].at = "restored"]
    /\ Others("tty")

(***************************************************************************)
(* The key decoder.  Tokens stand for bytes; the sets are the ranges the   *)
(* code matches.  "lead2" and "lead3" start UTF-8 sequences.               *)
(***************************************************************************)
Params == {"sp", "0", "1", "2", "3", "4", "5", "6", "7", "8", ";"}
Finals == {"~", "a", "A", "B", "C", "D", "F", "H", "M", "O", "P", "Z", "[", "]", "\\", "u", "@"}
Controls == {"ctl", "tab", "bs", "bel"}
Leads == {"lead2", "lead3"}
Key(k, byte, control, alt) == [key |-> k, byte |-> byte, control |-> control, alt |-> alt]
FreshDecoder == [state |-> "Ground", pending |-> <<>>, consumed |-> 0, alt |-> FALSE, matched |-> 0,
                 bell |-> FALSE, escape |-> FALSE]
Result(d, out, err) == [d |-> d, out |-> out, err |-> err]
Failure(d) == Result([d EXCEPT !.state = "Failed", !.pending = <<>>], <<>>, TRUE)
Event(d, key) == Result([d EXCEPT !.state = "Ground", !.pending = <<>>, !.consumed = 0], <<key>>, FALSE)
Pending(d) == Result(d, <<>>, FALSE)

character(d, b, alt) ==
    CASE b \in {"cr", "lf"} -> Event(d, Key("Enter", "", FALSE, alt))
      [] b \in Controls -> Event(d, Key("Character", b, TRUE, alt))
      [] b \in Params \cup Finals -> Event(d, Key("Character", b, FALSE, alt))
      [] b = "nul" -> Event(d, Key("Other", "", FALSE, alt))
      [] b \in Leads -> Pending([d EXCEPT !.state = "Utf8", !.pending = Append(@, b), !.alt = alt])
      [] OTHER -> Failure(d)

PasteEnd == <<"esc", "[", "2", "0", "1", "~">>
EscapeByte(d, b) ==
    CASE b = "[" -> Pending([d EXCEPT !.state = "Csi"])
      [] b = "O" -> Pending([d EXCEPT !.state = "Ss3"])
      [] b = "esc" -> LET r == Event(d, Key("Escape", "", FALSE, FALSE))
                      IN  [r EXCEPT !.d.state = "Escape", !.d.consumed = 1]
      [] b \in {"]", "P"} -> Pending([d EXCEPT !.state = "String", !.bell = (b = "]"), !.escape = FALSE])
      [] b = "sp" -> Pending([d EXCEPT !.state = "EscapeIntermediate"])
      [] OTHER -> character(d, b, TRUE)
Utf8Byte(d, b) ==
    LET p == Append(d.pending, b)
        length == IF p[1] = "lead2" THEN 2 ELSE 3
    IN  CASE Len(p) < length -> Pending([d EXCEPT !.pending = p])
          [] \A i \in 2..Len(p) : p[i] = "cont" -> Event(d, Key("Character", p[1], FALSE, d.alt))
          [] OTHER -> Failure(d)
ControlByte(d, b) ==
    LET p == Append(d.pending, b)
        csi == d.state = "Csi"
    IN  CASE Len(d.pending) >= MaxPending -> Failure(d)
          [] b \in Params -> Pending([d EXCEPT !.pending = p])
          [] csi /\ p = <<"2", "0", "0", "~">> -> Pending([d EXCEPT !.pending = <<>>, !.state = "Paste", !.matched = 0])
          [] csi /\ p = <<"M">> -> Failure(d)
          [] b \in Finals -> Event(d, Key("Other", "", FALSE, FALSE))
          [] OTHER -> Failure(d)
PasteByte(d, b) ==
    LET m == IF b = PasteEnd[d.matched + 1] THEN d.matched + 1 ELSE IF b = "esc" THEN 1 ELSE 0
    IN  IF m = Len(PasteEnd) THEN Event(d, Key("Other", "", FALSE, FALSE)) ELSE Pending([d EXCEPT !.matched = m])
StringByte(d, b) ==
    IF (d.bell /\ b = "bel") \/ (d.escape /\ b = "\\") THEN Event(d, Key("Other", "", FALSE, FALSE))
    ELSE Pending([d EXCEPT !.escape = (b = "esc")])

\* One byte; a byte too many fails whatever the state.
push(d0, b) ==
    LET d == [d0 EXCEPT !.consumed = @ + 1]
    IN  CASE d.consumed > MaxConsumed \/ d.state = "Failed" -> Failure(d)
          [] d.state = "Ground" /\ b = "esc" -> Pending([d EXCEPT !.state = "Escape"])
          [] d.state = "Ground" /\ b # "esc" -> character(d, b, FALSE)
          [] d.state = "Escape" -> EscapeByte(d, b)
          [] d.state = "EscapeIntermediate" ->
                 IF b = "sp" /\ d.consumed <= MaxPending THEN Pending(d)
                 ELSE IF b \in Finals \/ b \in Params \ {"sp"} THEN Event(d, Key("Other", "", FALSE, FALSE))
                 ELSE Failure(d)
          [] d.state = "Utf8" -> Utf8Byte(d, b)
          [] d.state \in {"Csi", "Ss3"} -> ControlByte(d, b)
          [] d.state = "Paste" -> PasteByte(d, b)
          [] d.state = "String" -> StringByte(d, b)
finish_pending(d) ==
    CASE d.state = "Ground" -> Pending(d)
      [] d.state = "Escape" -> Event(d, Key("Escape", "", FALSE, FALSE))
      [] OTHER -> Failure(d)

(***************************************************************************)
(* The input is a sequence of items, each with the keys it means; "err"    *)
(* ends the meaning of everything after it.                                *)
(***************************************************************************)
Plain(b) == Key("Character", b, FALSE, FALSE)
Opaque == <<Key("Other", "", FALSE, FALSE)>>
Item(bytes, means, err) == [bytes |-> bytes, means |-> means, err |-> err]
Paste(text) == Item(<<"esc", "[", "2", "0", "0", "~">> \o text \o PasteEnd, Opaque, FALSE)
Items ==
    {Item(<<"a">>, <<Plain("a")>>, FALSE), Item(<<"sp">>, <<Plain("sp")>>, FALSE),
     Item(<<"cr">>, <<Key("Enter", "", FALSE, FALSE)>>, FALSE), Item(<<"nul">>, Opaque, FALSE),
     Item(<<"ctl">>, <<Key("Character", "ctl", TRUE, FALSE)>>, FALSE),
     Item(<<"lead2", "cont">>, <<Plain("lead2")>>, FALSE), Item(<<"lead3", "cont", "cont">>, <<Plain("lead3")>>, FALSE),
     Item(<<"lead2", "a">>, <<>>, TRUE), Item(<<"cont">>, <<>>, TRUE),
     Item(<<"esc", "[", "A">>, Opaque, FALSE), Item(<<"esc", "[", "1", ";", "5", "A">>, Opaque, FALSE),
     Item(<<"esc", "[", "1", ";", "2", "0", "0", "A">>, <<>>, TRUE), Item(<<"esc", "O", "P">>, Opaque, FALSE),
     Item(<<"esc", "[", "M">>, <<>>, TRUE), Item(<<"esc", "sp", "a">>, Opaque, FALSE),
     Item(<<"esc", "]", "a", "bel">>, Opaque, FALSE), Item(<<"esc", "P", "bel", "esc", "esc", "\\">>, Opaque, FALSE),
     Item(<<"esc", "a">>, <<Key("Character", "a", FALSE, TRUE)>>, FALSE),
     Item(<<"esc", "lead2", "cont">>, <<Key("Character", "lead2", FALSE, TRUE)>>, FALSE),
     Item(<<"esc", "esc", "[", "A">>, <<Key("Escape", "", FALSE, FALSE)>> \o Opaque, FALSE),
     Paste(<<>>), Paste(<<"a">>), Paste(<<"esc">>), Paste(<<"esc", "[", "2">>),
     Item(<<"esc", "[", "2", "0", "0", "~", "a", "a", "a", "a">> \o PasteEnd, <<>>, TRUE)}
Expected(x, y) == x.means \o (IF x.err THEN <<>> ELSE y.means)

FreshKeys(x, y) == [phase |-> "on", input |-> x.bytes \o y.bytes, means |-> Expected(x, y),
                    bad |-> x.err \/ y.err, bytes |-> <<>>, d |-> FreshDecoder, out |-> <<>>, err |-> FALSE,
                    partial |-> FALSE, expired |-> FALSE]
Absorb(k, r) == [k EXCEPT !.d = r.d, !.out = @ \o r.out, !.err = @ \/ r.err]

\* read_chunk returns what the terminal holds, never more than is there.
read_chunk ==
    /\ facet = "keys" /\ keys.bytes = <<>> /\ keys.input # <<>> /\ ~keys.err
    /\ \E n \in 1..Len(keys.input) :
          keys' = [keys EXCEPT !.bytes = SubSeq(keys.input, 1, n), !.input = SubSeq(@, n + 1, Len(@))]
    /\ Others("keys")
poll ==
    /\ facet = "keys" /\ keys.bytes # <<>> /\ ~keys.err
    /\ LET r == push(keys.d, Head(keys.bytes))
       IN  keys' = [Absorb(keys, r) EXCEPT !.bytes = Tail(@), !.partial = r.d.state # "Ground"]
    /\ Others("keys")
\* An incomplete key older than the limit is settled before anything is read.
PollExpired ==
    /\ facet = "keys" /\ keys.bytes = <<>> /\ keys.partial /\ ~keys.err
    /\ keys' = [Absorb(keys, finish_pending(keys.d)) EXCEPT !.partial = FALSE, !.expired = TRUE]
    /\ Others("keys")

(***************************************************************************)
(* A session on a Unix pseudo-terminal.  `flags` belong to the open file   *)
(* description that every duplicate shares.                                *)
(***************************************************************************)
FreshPty == [phase |-> "session", queue |-> 0, reads |-> TRUE, alive |-> TRUE, flags |-> "block", saved |-> "block",
             at |-> "idle", lock |-> "free", intr |-> "idle", isaved |-> "block"]
SharedPty == [FreshPty EXCEPT !.phase = "shared"]
Pty(r) == pty' = r /\ Others("pty")
Full == pty.queue >= Room

ChildReads == facet = "pty" /\ pty.alive /\ pty.reads /\ pty.queue > 0 /\ Pty([pty EXCEPT !.queue = @ - 1])
ChildStopsReading == facet = "pty" /\ pty.alive /\ pty.reads /\ Pty([pty EXCEPT !.reads = FALSE])

\* write_all on a blocking description parks while the queue is full.
PtySession_write ==
    /\ facet = "pty" /\ pty.phase = "session" /\ pty.at \in {"idle", "parked"}
    /\ Pty(IF Full THEN [pty EXCEPT !.at = "parked"] ELSE [pty EXCEPT !.at = "idle", !.queue = @ + 1])
fd_flags ==
    /\ facet = "pty" /\ pty.phase = "session" /\ pty.at = "idle"
    /\ Pty([pty EXCEPT !.at = "window", !.saved = pty.flags])
set_fd_flags ==
    /\ facet = "pty" /\ pty.at = "window"
    /\ Pty([pty EXCEPT !.at = "bounded", !.flags = "nonblock"])
\* As much as the queue takes, or nothing once the timeout elapses or the write fails.
write_bounded ==
    /\ facet = "pty" /\ pty.at = "bounded"
    /\ \E n \in 0..(Room - pty.queue) : Pty([pty EXCEPT !.at = "written", !.queue = @ + n])
write_available ==
    /\ facet = "pty" /\ pty.at = "written"
    /\ Pty([pty EXCEPT !.at = "idle", !.flags = pty.saved])

\* The child is killed and reaped, the description is made non-blocking, and only
\* then does the writer's own drop send its two bytes.
PtySession_drop ==
    /\ facet = "pty" /\ pty.phase = "session" /\ pty.at = "idle"
    /\ Pty([pty EXCEPT !.at = "reaped", !.alive = FALSE])
prepare_for_teardown ==
    /\ facet = "pty" /\ pty.at = "reaped"
    /\ Pty([pty EXCEPT !.at = "closing", !.flags = "nonblock"])
WriterDrops ==
    /\ facet = "pty" /\ pty.at = "closing" /\ (pty.flags = "nonblock" \/ ~Full)
    /\ Pty([pty EXCEPT !.at = "gone"])

\* A thread that writes under the shared mutex, and one that interrupts.
SharedWriterLocks ==
    /\ facet = "pty" /\ pty.phase = "shared" /\ pty.lock = "free"
    /\ Pty([pty EXCEPT !.lock = "writer"])
SharedWriterWrites ==
    /\ facet = "pty" /\ pty.lock = "writer" /\ ~Full
    /\ Pty([pty EXCEPT !.lock = "free", !.queue = @ + 1])
\* try_lock: a busy writer means the interrupt is dropped, not that it waits.
interrupt_target ==
    /\ facet = "pty" /\ pty.phase = "shared" /\ pty.intr = "idle" /\ pty.lock = "free"
    /\ Pty([pty EXCEPT !.lock = "interrupt", !.intr = "window", !.isaved = pty.flags])
EnterWindow ==
    /\ facet = "pty" /\ pty.intr = "window"
    /\ Pty([pty EXCEPT !.intr = "write", !.flags = "nonblock"])
\* A full queue drops the byte; the flags go back on every path.
write_nonblocking_byte ==
    /\ facet = "pty" /\ pty.intr = "write"
    /\ Pty([pty EXCEPT !.intr = "restore", !.queue = IF Full THEN @ ELSE @ + 1])
RestoreFlags ==
    /\ facet = "pty" /\ pty.intr = "restore"
    /\ Pty([pty EXCEPT !.intr = "idle", !.flags = pty.isaved, !.lock = IF @ = "interrupt" THEN "free" ELSE @])

(***************************************************************************)
(* A Windows pseudo-console: who still holds which handle.                 *)
(***************************************************************************)
FreshConpty == [phase |-> "open", open |-> {}, hpc |-> FALSE, master |-> FALSE, slave |-> FALSE, attr |-> FALSE,
                child |-> "none", job |-> "none", member |-> FALSE]
Con(r) == conpty' = r /\ Others("conpty")
\* Locals are dropped when a step fails: everything opened so far goes.
Unwound == [conpty EXCEPT !.phase = "failed", !.open = {}, !.hpc = FALSE, !.master = FALSE, !.slave = FALSE,
                          !.attr = FALSE]

create_pipe ==
    /\ facet = "conpty" /\ conpty.phase = "open"
    /\ LET d == IF conpty.open = {} THEN {"inHost", "inChild"} ELSE {"outHost", "outChild"}
       IN  Con([conpty EXCEPT !.open = @ \cup d, !.phase = IF conpty.open = {} THEN @ ELSE "pipes"])
PseudoConsole_new ==
    /\ facet = "conpty" /\ conpty.phase = "pipes"
    /\ Con([conpty EXCEPT !.phase = "created", !.hpc = TRUE])
\* The console duplicated its ends: the host's copies are closed at once.
openpty ==
    /\ facet = "conpty" /\ conpty.phase = "created"
    /\ Con([conpty EXCEPT !.phase = "ready", !.master = TRUE, !.slave = TRUE, !.open = @ \ {"inChild", "outChild"}])
OpenFails ==
    /\ facet = "conpty" /\ conpty.phase \in {"open", "pipes"}
    /\ Con(Unwound)
ProcThreadAttributeList ==
    /\ facet = "conpty" /\ conpty.phase = "ready" /\ conpty.slave
    /\ Con([conpty EXCEPT !.phase = "spawning", !.attr = TRUE])
\* The slave is consumed by spawn on every path, and its share of the console
\* with it; the attribute list is deleted after the process was created.
ConPtySlave_spawn ==
    /\ facet = "conpty" /\ conpty.phase = "spawning"
    /\ Con([conpty EXCEPT !.phase = "running", !.attr = FALSE, !.slave = FALSE, !.hpc = conpty.master,
                          !.child = "alive"])
SpawnFails ==
    /\ facet = "conpty" /\ conpty.phase \in {"ready", "spawning"} /\ conpty.slave
    /\ Con(Unwound)
ConPtyMaster_drop ==
    /\ facet = "conpty" /\ conpty.phase \in {"ready", "running"} /\ conpty.master
    /\ Con([conpty EXCEPT !.master = FALSE, !.hpc = conpty.slave])
HandleDropped(e) ==
    /\ facet = "conpty" /\ conpty.phase = "running" /\ e \in conpty.open
    /\ Con([conpty EXCEPT !.open = @ \ {e}])
\* The job kills its members when its last handle closes; an error after the
\* assignment closes it as well.
prepare_conpty_child ==
    /\ facet = "conpty" /\ conpty.phase = "running" /\ conpty.child = "alive" /\ conpty.job = "none"
    /\ \E step \in {"create", "configure", "assign", "priority", "ok"} :
          Con(CASE step = "create" -> conpty
                [] step \in {"configure", "assign"} -> [conpty EXCEPT !.job = "closed"]
                [] step = "priority" -> [conpty EXCEPT !.job = "closed", !.member = TRUE, !.child = "exited"]
                [] OTHER -> [conpty EXCEPT !.job = "held", !.member = TRUE])
PtyProcessGuard_drop ==
    /\ facet = "conpty" /\ conpty.job = "held"
    /\ Con([conpty EXCEPT !.job = "closed", !.child = IF conpty.member THEN "exited" ELSE @])
ConPtyChild_kill ==
    /\ facet = "conpty" /\ conpty.phase = "running" /\ conpty.child = "alive"
    /\ Con([conpty EXCEPT !.child = "exited"])

(***************************************************************************)
(* The redistributable.  Two processes share the cache directory; each     *)
(* tries once and remembers how it went.                                   *)
(***************************************************************************)
Procs == {1, 2}
Whole == {"conpty.dll", "OpenConsole.exe"}
FreshSidecar == [cache : {{}, {"conpty.dll"}, Whole}, phase : {"on"}, offline : BOOLEAN, expected : BOOLEAN,
                 procs : {[p \in Procs |-> [at |-> "start", tmp |-> {}, dir |-> FALSE, source |-> "none"]]}]
Proc(p) == sidecar.procs[p]
Side(p, r) == sidecar' = [sidecar EXCEPT !.procs[p] = r] /\ Others("sidecar")
Gives(p, ok) == [Proc(p) EXCEPT !.at = IF ok THEN "ok" ELSE "err", !.tmp = {}, !.dir = FALSE]

ensure_in_dir(p) ==
    /\ facet = "sidecar" /\ Proc(p).at = "start"
    /\ Side(p, IF sidecar.cache = Whole THEN Gives(p, TRUE)
               ELSE IF sidecar.offline THEN Gives(p, FALSE) ELSE [Proc(p) EXCEPT !.at = "fetch"])
\* A build without a recorded hash does not fetch; bytes that do not match it
\* are discarded before anything is written.
fetch_and_extract(p) ==
    /\ facet = "sidecar" /\ Proc(p).at = "fetch"
    /\ \/ Side(p, Gives(p, FALSE))
       \/ sidecar.expected /\ Side(p, [Proc(p) EXCEPT !.at = "extract", !.dir = TRUE])
extract_tar_zst(p) ==
    /\ facet = "sidecar" /\ Proc(p).at = "extract"
    /\ \E files \in {{}, {"conpty.dll"}, Whole} :
          Side(p, IF files = Whole THEN [Proc(p) EXCEPT !.at = "rename", !.tmp = files] ELSE Gives(p, FALSE))
\* The directory appears whole or not at all; a rename that fails because
\* another process was first is accepted only if both files are there.
RenameIntoCache(p) ==
    /\ facet = "sidecar" /\ Proc(p).at = "rename"
    /\ sidecar' = [sidecar EXCEPT !.cache = IF @ = {} THEN Proc(p).tmp ELSE @,
                                  !.procs[p] = Gives(p, sidecar.cache \in {{}, Whole})]
    /\ Others("sidecar")
\* A process that dies leaves its own temporary directory and nothing else.
ProcessDies(p) ==
    /\ facet = "sidecar" /\ Proc(p).at \in {"fetch", "extract", "rename"}
    /\ Side(p, [Proc(p) EXCEPT !.at = "dead"])
try_load_sidecar(p, staged) == Proc(p).at = "ok" \/ staged
resolve_production(p) ==
    /\ facet = "sidecar" /\ Proc(p).at \in {"ok", "err"} /\ Proc(p).source = "none"
    /\ \E loads \in BOOLEAN :
          Side(p, [Proc(p) EXCEPT !.source = IF loads /\ try_load_sidecar(p, FALSE) THEN "Sidecar" ELSE "Kernel32"])

(***************************************************************************)
(* Pure functions.                                                         *)
(***************************************************************************)
KeyRecords ==
    {e \in [down : BOOLEAN, vk : {"BACK", "TAB", "RETURN", "ESCAPE", "UP", "END", "INSERT", "NEXT", "F1", "character"},
            unicode : {"none", "a", "@", "cr", "surrogate"}, shift : BOOLEAN, ctrl : BOOLEAN, alt : BOOLEAN, repeat : 0..2] :
        e.unicode \in IF e.vk = "character" THEN {"a", "@", "surrogate"} ELSE IF e.vk = "RETURN" THEN {"none", "cr"} ELSE {"none"}}
Repeated(chunk, n) == FoldLeft(LAMBDA acc, i : acc \o chunk, <<>>, [i \in 1..(IF n = 0 THEN 1 ELSE n) |-> i])
Digit(n) == <<"0", "1", "2", "3", "4", "5", "6", "7", "8">>[n + 1]
terminal_input_modifier_parameter(e) ==
    1 + (IF e.shift THEN 1 ELSE 0) + (IF e.alt THEN 2 ELSE 0) + (IF e.ctrl THEN 4 ELSE 0)
Modified(e) == terminal_input_modifier_parameter(e) > 1
repeated_modified_sequence(final, e) ==
    Repeated(IF Modified(e) THEN <<"esc", "[", "1", ";", Digit(terminal_input_modifier_parameter(e)), final>>
             ELSE <<"esc", "[", final>>, e.repeat)
repeated_tilde_sequence(number, e) ==
    Repeated(IF Modified(e) THEN <<"esc", "[", number, ";", Digit(terminal_input_modifier_parameter(e)), "~">>
             ELSE <<"esc", "[", number, "~">>, e.repeat)
control_character_for_unicode(u) == CASE u = "a" -> <<"ctl">> [] u = "@" -> <<"nul">> [] OTHER -> <<>>

NoBytes == <<"none">>
VirtualKey(e) ==
    CASE e.vk = "BACK" -> Repeated(<<"bs">>, e.repeat)
      [] e.vk = "TAB" -> Repeated(IF e.shift THEN <<"esc", "[", "Z">> ELSE <<"tab">>, e.repeat)
      [] e.vk = "RETURN" -> Repeated(<<"cr">>, e.repeat)
      [] e.vk = "ESCAPE" -> Repeated(<<"esc">>, e.repeat)
      [] e.vk = "UP" -> repeated_modified_sequence("A", e)
      [] e.vk = "END" -> repeated_modified_sequence("F", e)
      [] e.vk = "INSERT" -> repeated_tilde_sequence("2", e)
      [] e.vk = "NEXT" -> repeated_tilde_sequence("6", e)
      [] OTHER -> NoBytes
Unicode(e) ==
    LET c == IF e.ctrl THEN control_character_for_unicode(e.unicode) ELSE <<>>
    IN  IF c # <<>> THEN Repeated(c, e.repeat)
        ELSE IF e.unicode \in {"none", "surrogate"} THEN <<>> ELSE Repeated(<<e.unicode>>, e.repeat)
\* Shift+Enter has a sequence of its own; otherwise the text of the key counts
\* before its virtual code, and Alt is one escape in front of what is no sequence.
translate_console_key_event(e) ==
    IF ~e.down THEN NoBytes
    ELSE IF e.shift /\ ~e.ctrl /\ ~e.alt /\ e.vk = "RETURN"
    THEN Repeated(<<"esc", "[", "1", "3", ";", "2", "u">>, e.repeat)
    ELSE LET data == IF Unicode(e) # <<>> THEN Unicode(e) ELSE VirtualKey(e)
         IN  IF e.alt /\ data # NoBytes /\ ~(Len(data) > 1 /\ data[1] = "esc" /\ data[2] \in {"[", "O"})
             THEN <<"esc">> \o data ELSE data
Submits(e) == e.vk = "RETURN" /\ ~e.shift
Decoded(bytes) ==
    LET all == FoldLeft(LAMBDA r, b : LET s == push(r.d, b) IN Result(s.d, r.out \o s.out, r.err \/ s.err),
                        Pending(FreshDecoder), bytes)
        end == finish_pending(all.d)
    IN  Result(end.d, all.out \o end.out, all.err \/ end.err)

\* Backslashes count only in front of a quote: they are doubled there and at the end.
QuoteStep(q, c) ==
    CASE c = "\\" -> [out |-> Append(q.out, c), slashes |-> q.slashes + 1]
      [] c = "\"" -> [out |-> q.out \o [i \in 1..(q.slashes + 1) |-> "\\"] \o <<"\"">>, slashes |-> 0]
      [] OTHER -> [out |-> Append(q.out, c), slashes |-> 0]
quote_argument(arg) ==
    LET q == FoldLeft(QuoteStep, [out |-> <<"\"">>, slashes |-> 0], arg)
    IN  IF arg = <<>> THEN <<"\"", "\"">>
        ELSE IF \A i \in DOMAIN arg : arg[i] \notin {"sp", "\""} THEN arg
        ELSE q.out \o [i \in 1..q.slashes |-> "\\"] \o <<"\"">>
build_command_line(args) == quote_argument(args[1]) \o <<"sp">> \o quote_argument(args[2])

\* How the C runtime splits a command line (external).
CutStep(s, c) ==
    LET half == [i \in 1..(s.slashes \div 2) |-> "\\"]
        all == [i \in 1..s.slashes |-> "\\"]
    IN  CASE c = "\\" -> [s EXCEPT !.slashes = @ + 1, !.word = TRUE]
          [] c = "\"" /\ s.slashes % 2 = 1 -> [s EXCEPT !.arg = @ \o half \o <<"\"">>, !.slashes = 0, !.word = TRUE]
          [] c = "\"" /\ s.slashes % 2 = 0 -> [s EXCEPT !.arg = @ \o half, !.slashes = 0, !.quoted = ~@, !.word = TRUE]
          [] c = "sp" /\ ~s.quoted ->
                 IF s.word THEN [s EXCEPT !.args = Append(@, s.arg \o all), !.arg = <<>>, !.slashes = 0, !.word = FALSE] ELSE s
          [] OTHER -> [s EXCEPT !.arg = @ \o all \o <<c>>, !.slashes = 0, !.word = TRUE]
CommandLineToArgvW(line) ==
    FoldLeft(CutStep, [args |-> <<>>, arg |-> <<>>, slashes |-> 0, quoted |-> FALSE, word |-> FALSE], Append(line, "sp")).args

PayloadStep(p, c) ==
    CASE c = "cr" -> [out |-> Append(p.out, "cr"), cr |-> TRUE]
      [] c = "lf" /\ p.cr -> [out |-> Append(p.out, "lf"), cr |-> FALSE]
      [] c = "lf" /\ ~p.cr -> [out |-> Append(p.out, "cr"), cr |-> FALSE]
      [] OTHER -> [out |-> Append(p.out, c), cr |-> FALSE]
input_payload(data) == FoldLeft(PayloadStep, [out |-> <<>>, cr |-> FALSE], data).out
apply_priority(nice) ==
    CASE nice >= 15 -> "IDLE" [] nice \in 1..14 -> "BELOW_NORMAL" [] nice <= -15 -> "HIGH"
      [] nice \in -14..-1 -> "ABOVE_NORMAL" [] OTHER -> "unchanged"

\* Descendants in the order the stack yields them, reversed, then the root.
Pids == 1..4
Visit(parent, s) ==
    LET cur == s.stack[Len(s.stack)]
        direct == SetToSortSeq({p \in Pids : p # 1 /\ parent[p] = cur}, <)
    IN  IF s.stack = <<>> THEN s
        ELSE [found |-> s.found \o direct, stack |-> SubSeq(s.stack, 1, Len(s.stack) - 1) \o direct]
descendant_pids(parent) ==
    FoldLeft(LAMBDA s, i : Visit(parent, s), [found |-> <<>>, stack |-> <<1>>], [i \in Pids |-> i]).found
signal_pty_tree(parent) == Append(Reverse(descendant_pids(parent)), 1)
SeqsUpTo(S, n) == UNION {[1..k -> S] : k \in 0..n}

FreshValues ==
    [phase : {"key"}, e : KeyRecords]
    \cup [phase : {"quote"}, args : SeqsUpTo({"a", "\\", "\"", "sp"}, 3) \X SeqsUpTo({"\\", "sp"}, 2)]
    \cup [phase : {"payload"}, data : SeqsUpTo({"cr", "lf", "a"}, 4)]
    \cup [phase : {"tree"}, parent : {f \in [Pids -> Pids] : f[1] = 1 /\ \A p \in 2..4 : f[p] < p}]
    \cup [phase : {"nice"}, n : -16..16]

(***************************************************************************)
(* The specification                                                       *)
(***************************************************************************)
Facets == {"console", "tty", "keys", "pty", "conpty", "sidecar", "value"}
Init ==
    /\ facet \in Facets
    /\ host \in IF facet \in {"console", "conpty", "sidecar"} THEN {"windows"}
                ELSE IF facet \in {"tty", "pty"} THEN {"unix"} ELSE {"any"}
    /\ console \in IF facet = "console" THEN {FreshConsole} ELSE {Off}
    /\ tty \in IF facet = "tty" THEN {FreshTty} ELSE {Off}
    /\ keys \in IF facet = "keys" THEN {FreshKeys(x, y) : x \in Items, y \in Items} ELSE {Off}
    /\ pty \in IF facet = "pty" THEN {FreshPty, SharedPty} ELSE {Off}
    /\ conpty \in IF facet = "conpty" THEN {FreshConpty} ELSE {Off}
    /\ sidecar \in IF facet = "sidecar" THEN FreshSidecar ELSE {Off}
    /\ value \in IF facet = "value" THEN FreshValues ELSE {Off}

ConsoleNext ==
    \E c \in Cores :
        \/ \E keep \in BOOLEAN : start_with_signal_keys(c, keep)
        \/ ReadConsoleInput(c) \/ WorkerFails(c) \/ WorkerSeesStop(c) \/ TranslateRecord(c) \/ WorkerEnds(c)
        \/ StopBegins(c) \/ stop_impl(c) \/ wait_for_terminal_input_event(c) \/ WaitTimesOut(c) \/ drain_events(c)
TtyNext ==
    \E u \in Users : InputLease_acquire(u) \/ InputLease_drop(u) \/ tcgetattr(u) \/ SetSessionMode(u)
                     \/ active_graphics_probe(u) \/ TerminalInputSession_drop(u)
KeysNext == read_chunk \/ poll \/ PollExpired
PtyNext ==
    \/ ChildReads \/ ChildStopsReading \/ PtySession_write \/ fd_flags \/ set_fd_flags \/ write_bounded
    \/ write_available \/ PtySession_drop \/ prepare_for_teardown \/ WriterDrops
    \/ SharedWriterLocks \/ SharedWriterWrites \/ interrupt_target \/ EnterWindow \/ write_nonblocking_byte \/ RestoreFlags
ConptyNext ==
    \/ create_pipe \/ PseudoConsole_new \/ openpty \/ OpenFails \/ ProcThreadAttributeList \/ ConPtySlave_spawn
    \/ SpawnFails \/ ConPtyMaster_drop \/ (\E e \in {"inHost", "outHost"} : HandleDropped(e))
    \/ prepare_conpty_child \/ PtyProcessGuard_drop \/ ConPtyChild_kill
SidecarNext ==
    \E p \in Procs : ensure_in_dir(p) \/ fetch_and_extract(p) \/ extract_tar_zst(p) \/ RenameIntoCache(p)
                     \/ ProcessDies(p) \/ resolve_production(p)
Next == ConsoleNext \/ TtyNext \/ KeysNext \/ PtyNext \/ ConptyNext \/ SidecarNext

Spec == Init /\ [][Next]_vars

(***************************************************************************)
(* Properties                                                              *)
(***************************************************************************)
\* Console capture is accountable: the console has its original mode whenever
\* nobody owns the input, unless a restore failed and said so; a waiting thread
\* is never left parked beside input or after the end; a failed capture hands
\* out nothing more; input arrives once and in order (TerminalInputCore,
\* InputLease, native_terminal_input_worker).
CaptureIsAccountable ==
    facet = "console" =>
        /\ ~console.owned /\ ~console.unrestored => console.mode = OriginalMode
        /\ Cardinality({c \in Cores : Core(c).lease}) = (IF console.owned THEN 1 ELSE 0)
        /\ \A c \in Cores :
              /\ Core(c).waiter = "parked" => Core(c).events = <<>> /\ ~Core(c).closed
              /\ Core(c).worker = "ended" /\ Core(c).failure # "none" => Core(c).events = <<>>
              /\ Len(Core(c).events) <= MaxEvents /\ QueuedBytes(Core(c).events) <= MaxQueued
              /\ \A i, j \in DOMAIN Core(c).got : i < j => Core(c).got[i] <= Core(c).got[j]

\* A Unix terminal is changed only by the owner of the input lease, and it is
\* back in the mode it had before the lease can be taken again
\* (TerminalInputSession, active_graphics_probe).
ModeBelongsToTheLease ==
    facet = "tty" =>
        /\ ~tty.owned => tty.mode = Canonical
        /\ Cardinality({u \in Users : User(u).at # "idle"}) <= 1

\* However the bytes are cut into chunks, a stream means its keys in order and
\* nothing else: pasted or quoted text never becomes keys, a malformed sequence
\* silences everything after it, and an incomplete one expires to an error or
\* to the lone Escape (KeyDecoder, TerminalKeys::poll).
KeysMeanTheirBytes ==
    facet = "keys" /\ ~keys.expired =>
        /\ IsPrefix(keys.out, keys.means)
        /\ keys.err => keys.bad
        /\ keys.input = <<>> /\ keys.bytes = <<>> => keys.out = keys.means /\ keys.err = keys.bad

\* Nothing that must return waits for a full input queue: a bounded write and
\* the writer's last bytes happen on a non-blocking description, ordinary and
\* shared writes on a blocking one (PtySession, interrupt_target).
PtyNeverHangs ==
    facet = "pty" =>
        /\ pty.at \in {"bounded", "closing"} => pty.flags = "nonblock"
        /\ pty.at \in {"idle", "parked"} /\ pty.lock # "interrupt" => pty.flags = "block"

\* The pseudo-console lives exactly as long as its master or its slave, no
\* child end of a pipe stays open in the host after the console was made, and a
\* child that was put in a job does not survive the job (openpty,
\* ConPtySlave::spawn, prepare_conpty_child).
ConsoleHandlesAreHeld ==
    facet = "conpty" =>
        /\ conpty.phase \in {"ready", "spawning", "running"} =>
               /\ conpty.hpc <=> conpty.master \/ conpty.slave
               /\ conpty.open \cap {"inChild", "outChild"} = {}
        /\ conpty.attr => conpty.hpc
        /\ conpty.phase = "failed" => conpty.open = {} /\ ~conpty.hpc
        /\ conpty.job \in {"none", "held", "closed"}
        /\ conpty.job = "closed" /\ conpty.member => conpty.child = "exited"

\* A process that reports the redistributable finds both of its files, although
\* several fetch it at once and any of them may die, and a finished process
\* leaves no temporary directory (ensure_cached_sidecar, fetch_and_extract).
SidecarIsWhole ==
    facet = "sidecar" =>
        \A p \in Procs :
            /\ Proc(p).at = "ok" => sidecar.cache = Whole
            /\ Proc(p).at \in {"ok", "err"} => Proc(p).tmp = {} /\ ~Proc(p).dir

\* A key without Alt means as many keys as it repeats once the decoder reads
\* it back; the child splits a command line into the arguments it was given;
\* every line end of a payload is one carriage return; a tree is signalled
\* leaves first (translate_console_key_event, quote_argument, input_payload,
\* signal_pty_tree).
Ends(data) == Cardinality({i \in DOMAIN data : data[i] = "cr" \/ (data[i] = "lf" /\ ~(i > 1 /\ data[i - 1] = "cr"))})
TerminalValuesAgree ==
    facet = "value" =>
        CASE value.phase = "key" ->
                 LET e == value.e
                     b == translate_console_key_event(e)
                     r == Decoded(b)
                 IN  b # NoBytes /\ ~e.alt =>
                         /\ ~r.err /\ Len(r.out) = (IF e.repeat = 0 THEN 1 ELSE e.repeat)
                         /\ Submits(e) /\ ~e.ctrl /\ e.unicode \in {"none", "cr"} => \A i \in DOMAIN r.out : r.out[i].key = "Enter"
          [] value.phase = "quote" -> CommandLineToArgvW(build_command_line(value.args)) = value.args
          [] value.phase = "payload" ->
                 Cardinality({i \in DOMAIN input_payload(value.data) : input_payload(value.data)[i] = "cr"}) = Ends(value.data)
          [] value.phase = "tree" ->
                 LET t == signal_pty_tree(value.parent)
                 IN  /\ ToSet(t) = Pids /\ Len(t) = 4
                     /\ \A i, j \in DOMAIN t : value.parent[t[i]] = t[j] /\ t[i] # 1 => i < j
          [] OTHER -> apply_priority(value.n) = "unchanged" <=> value.n = 0
=============================================================================
