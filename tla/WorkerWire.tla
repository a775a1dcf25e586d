------------------------------ MODULE WorkerWire ------------------------------
(***************************************************************************)
(* The private v1 framing between the supervisor and the one-request       *)
(* worker (src/wasm/worker_protocol.rs), the worker's request sequence     *)
(* (src/bin/kernal-wasm-worker.rs) and the two conversions that meet at    *)
(* the wire: a host policy that becomes metadata and a policy again, and an *)
(* execution result that becomes a terminal and a result again.            *)
(*                                                                         *)
(* A frame is a sequence of cells.  A cell stands for one field of the     *)
(* header or of the payload, or for one byte of a text, a path or a module. *)
(***************************************************************************)
EXTENDS Integers, Sequences, SequencesExt

CONSTANTS MaxFramePayload, MaxTrace, MaxDiagnostic, MaxModuleBytes, MaxUrl, MaxPath

VARIABLES
  sent,     \* the message handed to write_message
  frame,    \* what it put on the pipe, as the reader finds it
  got,      \* what read_message made of it
  asm,      \* a ModuleAssembler
  log,      \* the messages it accepted
  policy,   \* the host policy of a contained execution
  worker,   \* the worker's request sequence: at, what it assembled, what it answered
  parent    \* the upload the parent has still to write, and the terminal it reports

vars == <<sent, frame, got, asm, log, policy, worker, parent>>

Magic == 75
Version == 7
NoStatusCode == -8            \* i32::MIN
StatusCodes == {-8, -1, 5}    \* what a guest may pass to proc_exit
Bad == 0                      \* a byte no text may hold: NUL, not printable, not UTF-8
HeaderLen == 4

Kinds == <<"Hello", "HelloAck", "ExecuteStart", "ModuleChunk", "ExecuteEnd", "Cancel", "Terminal", "ExecuteAck", "Trace">>

TerminalKinds == <<"Completed", "Cancelled", "DeadlineExceeded", "OutOfFuel", "Trapped", "NonzeroExit", "ChildFailure", "ProtocolFailure", "WorkerFailure", "ForcedContainment">>

RootOutcomes == <<"None", "Started", "Exited", "StartedWithThreadRejections", "ExitedWithThreadRejections">>

Number(names, name) == CHOOSE i \in DOMAIN names : names[i] = name

Ok(value) == [ok |-> TRUE, value |-> value]
Err(error) == [ok |-> FALSE, value |-> error]

\* The first condition that holds names the error; none leaves the value.
Judge(checks, value) ==
  LET failing == {i \in DOMAIN checks : checks[i][1]} IN
  IF failing = {} THEN Ok(value) ELSE Err(checks[CHOOSE i \in failing : \A j \in failing : i <= j][2])

-----------------------------------------------------------------------------
(* Payloads.                                                               *)

NoDetail == [root |-> "None", rejections |-> 0, status |-> <<>>]

Rejecting == {"StartedWithThreadRejections", "ExitedWithThreadRejections"}

\* The combinations of outcome, rejection counts and status a terminal may carry.
Validate(kind, d) ==
  CASE kind = "Completed"    -> d.root # "None" /\ d.status = <<>> /\ (d.rejections # 0 <=> d.root \in Rejecting)
    [] kind = "NonzeroExit"  -> d.root = "None" /\ d.rejections = 0 /\ d.status # <<>>
    [] kind = "ChildFailure" -> d.root = "None" /\ d.rejections = 0
    [] OTHER                 -> d = NoDetail

ValidTrace(text) == text # <<>> /\ Len(text) <= MaxTrace /\ ~Contains(text, Bad)

\* An absolute path starts with cell 1; Tag is the byte that names the platform.
Tag == 2
PathFits(path) == path = <<>> \/ (path[1] = 1 /\ ~Contains(path, Bad) /\ Len(path) <= MaxPath)
PutPath(path) == IF path = <<>> THEN <<0>> ELSE <<Len(path), Tag>> \o path

UrlFits(url) == Len(url) <= MaxUrl /\ ~Contains(url, Bad)
PutUrl(url) == <<Len(url)>> \o url

\* The limits of the policy are one cell each where a conversion tells them apart:
\* seconds and nanoseconds of the idle budget, tick and deadline in milliseconds, the
\* module bound, and one cell for those that are copied.
PutMetadata(meta) ==
  PutUrl(meta.url) \o PutPath(meta.path) \o <<meta.secs, meta.nanos, meta.copied, meta.deadline, meta.tick, meta.maxModule>>

Payload(m) ==
  CASE m.kind = "Trace"        -> <<m.id>> \o m.text
    [] m.kind = "ExecuteStart" -> <<m.id, m.len>> \o PutMetadata(m.meta)
    [] m.kind = "ModuleChunk"  -> <<m.id, m.sequence>> \o m.bytes
    [] m.kind = "Terminal"     ->
         <<m.id, Number(TerminalKinds, m.terminal), Number(RootOutcomes, m.detail.root), m.detail.rejections,
           IF m.detail.status = <<>> THEN NoStatusCode ELSE m.detail.status[1]>>
         \o <<Len(m.text)>> \o m.text \o <<m.counters>>
    [] OTHER                   -> <<m.id>>

Header(kind, length) == <<Magic, Version, Number(Kinds, kind), length>>

Encode(m) ==
  Judge(<< <<m.id = 0, "InvalidRequestId">>,
           <<m.kind = "Trace" /\ ~ValidTrace(m.text), "InvalidPayload">>,
           <<m.kind = "ExecuteStart" /\ ~(UrlFits(m.meta.url) /\ PathFits(m.meta.path)), "InvalidPayload">>,
           <<m.kind = "Terminal" /\ ~Validate(m.terminal, m.detail), "InvalidTerminal">>,
           <<m.kind = "Terminal" /\ Len(m.text) > MaxDiagnostic, "DiagnosticTooLarge">>,
           <<Len(Payload(m)) > MaxFramePayload, "FrameTooLarge">> >>,
        Header(m.kind, Len(Payload(m))) \o Payload(m))

-----------------------------------------------------------------------------
(* Decoding.  `At(f, i)` is the cell a take_* reads: none is the value no   *)
(* field has when the input is too short.                                  *)

At(f, i) == IF i \in DOMAIN f THEN f[i] ELSE -99

Short == -99

\* A text of n bytes after position i and the position that follows it.
Nothing(f) == [text |-> <<Bad>>, next |-> Len(f) + 9]

Take(f, i, n) == IF n < 0 \/ i + n > Len(f) THEN Nothing(f) ELSE [text |-> SubSeq(f, i + 1, i + n), next |-> i + n + 1]

TakeUrl(f, i) == IF At(f, i) > MaxUrl THEN Nothing(f) ELSE Take(f, i, At(f, i))

TakePath(f, i) ==
  CASE At(f, i) = 0                                     -> [text |-> <<>>, next |-> i + 1]
    [] At(f, i) > MaxPath \/ At(f, i + 1) # Tag         -> Nothing(f)
    [] OTHER                                            -> Take(f, i + 1, At(f, i))

TakeMetadata(f, i, url, path) ==
  [url |-> url.text, path |-> path.text, secs |-> At(f, i), nanos |-> At(f, i + 1), copied |-> At(f, i + 2),
   deadline |-> At(f, i + 3), tick |-> At(f, i + 4), maxModule |-> At(f, i + 5)]

DecodeStart(f, id) ==
  LET url  == TakeUrl(f, 7)
      path == TakePath(f, url.next)
      meta == TakeMetadata(f, path.next, url, path)
  IN Judge(<< <<~UrlFits(url.text) \/ ~PathFits(path.text), "InvalidPayload">>,
              <<Len(f) < path.next + 5, "Truncated">>,
              <<At(f, 6) > MaxModuleBytes \/ At(f, 6) > meta.maxModule, "ModuleTooLarge">>,
              <<Len(f) > path.next + 5, "TrailingBytes">> >>,
           [kind |-> "ExecuteStart", id |-> id, len |-> At(f, 6), meta |-> meta])

DecodeTerminal(f, id) ==
  LET known  == At(f, 6) \in DOMAIN TerminalKinds /\ At(f, 7) \in DOMAIN RootOutcomes
      kind   == TerminalKinds[At(f, 6)]
      detail == [root |-> RootOutcomes[At(f, 7)], rejections |-> At(f, 8), status |-> IF At(f, 9) = NoStatusCode THEN <<>> ELSE <<At(f, 9)>>]
      text   == Take(f, 10, At(f, 10))
  IN IF Len(f) < 9 THEN Err("Truncated")
     ELSE IF ~known \/ ~Validate(kind, detail) THEN Err("InvalidTerminal")
     ELSE Judge(<< <<At(f, 10) > MaxDiagnostic, "DiagnosticTooLarge">>,
                   <<Contains(text.text, Bad), "InvalidPayload">>,
                   <<Len(f) < text.next, "Truncated">>,
                   <<Len(f) > text.next, "TrailingBytes">> >>,
                [kind |-> "Terminal", id |-> id, terminal |-> kind, detail |-> detail, text |-> text.text, counters |-> At(f, text.next)])

\* The payload of a frame whose header was accepted.
DecodePayload(f) ==
  LET kind == Kinds[f[3]]
      id   == At(f, 5)
      rest == SubSeq(f, 6, Len(f))
  IN IF id = Short THEN Err("Truncated")
     ELSE IF id = 0 THEN Err("InvalidRequestId")
     ELSE CASE kind = "Trace"        -> Judge(<< <<~ValidTrace(rest), "InvalidPayload">> >>, [kind |-> kind, id |-> id, text |-> rest])
            [] kind = "ExecuteStart" -> DecodeStart(f, id)
            [] kind = "ModuleChunk"  -> Judge(<< <<rest = <<>>, "Truncated">> >>,
                                              [kind |-> kind, id |-> id, sequence |-> At(f, 6), bytes |-> SubSeq(f, 7, Len(f))])
            [] kind = "Terminal"     -> DecodeTerminal(f, id)
            [] OTHER                 -> Judge(<< <<rest # <<>>, "TrailingBytes">> >>, [kind |-> kind, id |-> id])

Decode(f) ==
  LET header == Judge(<< <<Len(f) < HeaderLen, "Truncated">>,
                         <<At(f, 1) # Magic, "BadMagic">>,
                         <<At(f, 2) # Version, "UnsupportedVersion">>,
                         <<At(f, 3) \notin DOMAIN Kinds, "UnknownKind">>,
                         <<At(f, 4) > MaxFramePayload, "FrameTooLarge">>,
                         <<Len(f) < HeaderLen + At(f, 4), "Truncated">>,
                         <<Len(f) > HeaderLen + At(f, 4), "TrailingBytes">> >>, f)
  IN IF header.ok THEN DecodePayload(f) ELSE header

\* read_message takes exactly the frame the header announces from the pipe: what
\* follows stays for the next read, and a trace that is too long is refused before it
\* is allocated.
ReadMessage(pipe) ==
  LET long == At(pipe, 4) > MaxFramePayload \/ (At(pipe, 3) = Number(Kinds, "Trace") /\ At(pipe, 4) > MaxTrace + 1)
      total == HeaderLen + At(pipe, 4)
      header == Decode(SubSeq(pipe, 1, IF Len(pipe) < HeaderLen THEN Len(pipe) ELSE HeaderLen))
  IN IF Len(pipe) < HeaderLen \/ header.value \in {"BadMagic", "UnsupportedVersion", "UnknownKind"} THEN header
     ELSE IF long THEN Err("FrameTooLarge")
     ELSE IF Len(pipe) < total THEN Err("Truncated")
     ELSE Decode(SubSeq(pipe, 1, total))

-----------------------------------------------------------------------------
(* ModuleAssembler.                                                        *)

NoAssembler == [id |-> 0]

\* ModuleAssembler::start.
StartAssembler(id, len, callerMax) ==
  Judge(<< <<id = 0, "InvalidRequestId">>, <<len > MaxModuleBytes \/ len > callerMax, "ModuleTooLarge">> >>,
        [id |-> id, declared |-> len, callerMax |-> callerMax, next |-> 0, ended |-> FALSE, terminal |-> FALSE, module |-> <<>>])

\* A mutant: the chunk's number is not compared.
AcceptChunkAnyOrder(a, m) ==
  Judge(<< <<a.ended \/ Len(m.bytes) > MaxFramePayload - 2, "Sequence">>,
           <<Len(a.module) + Len(m.bytes) > a.declared \/ Len(a.module) + Len(m.bytes) > a.callerMax, "ModuleTooLarge">> >>,
        [a EXCEPT !.module = @ \o m.bytes, !.next = @ + 1])

\* The answer of accept, the assembler after it, and whether it handed the module over.
AcceptChunk(a, m) ==
  Judge(<< <<a.ended \/ m.sequence # a.next \/ Len(m.bytes) > MaxFramePayload - 2, "Sequence">>,
           <<Len(a.module) + Len(m.bytes) > a.declared \/ Len(a.module) + Len(m.bytes) > a.callerMax, "ModuleTooLarge">> >>,
        [a EXCEPT !.module = @ \o m.bytes, !.next = @ + 1])

AcceptEnd(a) == Judge(<< <<a.ended \/ Len(a.module) # a.declared, "UnexpectedMessage">> >>, [a EXCEPT !.ended = TRUE])

AcceptTerminal(a) ==
  Judge(<< <<~a.ended, "UnexpectedMessage">>, <<a.terminal, "DuplicateTerminal">> >>, [a EXCEPT !.terminal = TRUE])

Accept(a, m) ==
  CASE m.id # a.id             -> Err("WrongRequestId")
    [] m.kind = "ModuleChunk"  -> AcceptChunk(a, m)
    [] m.kind = "ExecuteEnd"   -> AcceptEnd(a)
    [] m.kind = "Terminal"     -> AcceptTerminal(a)
    [] OTHER                   -> Err("UnexpectedMessage")

-----------------------------------------------------------------------------
(* The conversions on either side of the wire.  Times of a policy are in   *)
(* half milliseconds; nanoseconds are counted up to NanosPerSecond.         *)

NanosPerSecond == 10

\* metadata, with what is left until the deadline; the grants are added by supervise.
Metadata(p, remaining) ==
  [url |-> p.url, path |-> p.path, secs |-> p.secs, nanos |-> p.nanos, copied |-> p.copied,
   deadline |-> (IF remaining < 2 THEN 2 ELSE remaining) \div 2, tick |-> p.tick \div 2, maxModule |-> p.maxModule]

Reconstruct(meta) ==
  Judge(<< <<meta.nanos >= NanosPerSecond, "blob-idle-timeout-nanos-invalid">>,
           <<meta.secs = 0 /\ meta.nanos = 0, "InvalidBlobLimits">>,
           <<meta.deadline = 0 \/ meta.tick = 0, "InvalidEpochLimits">> >>,
        [secs |-> meta.secs, nanos |-> meta.nanos, copied |-> meta.copied, tick |-> 2 * meta.tick, maxModule |-> meta.maxModule])

\* Hello, then write_upload: the start, the chunks of at most a frame, the end.
Chunks(source, size) ==
  [i \in 1 .. (Len(source) + size - 1) \div size |->
     [kind |-> "ModuleChunk", id |-> 1, sequence |-> i - 1,
      bytes |-> SubSeq(source, size * (i - 1) + 1, IF size * i < Len(source) THEN size * i ELSE Len(source))]]

WriteUpload(p, remaining) ==
  << [kind |-> "ExecuteStart", id |-> 1, len |-> Len(p.source), meta |-> Metadata(p, remaining)] >>
  \o Chunks(p.source, MaxFramePayload - 2) \o << [kind |-> "ExecuteEnd", id |-> 1] >>

\* What execute_threaded_root returns: an outcome with its rejections, or an error.
Results ==
  {[is |-> o, n |-> 0] : o \in {"Started", "Exited"}} \cup {[is |-> o, n |-> 1] : o \in Rejecting}
  \cup {[is |-> e, n |-> 0] : e \in {"Cancelled", "DeadlineExceeded", "OutOfFuel", "Trapped", "ChildTrapped", "ChildPanicked", "ChildOutcomes", "OtherError"}}
  \cup {[is |-> e, n |-> c] : e \in {"NonzeroExit", "ChildNonzeroExit"}, c \in StatusCodes}

MapResult(r) ==
  CASE r.is \in ToSet(RootOutcomes)  -> [terminal |-> "Completed", detail |-> [NoDetail EXCEPT !.root = r.is, !.rejections = r.n]]
    [] r.is \in {"Cancelled", "DeadlineExceeded", "OutOfFuel", "Trapped"} -> [terminal |-> r.is, detail |-> NoDetail]
    [] r.is = "NonzeroExit"          -> [terminal |-> r.is, detail |-> [NoDetail EXCEPT !.status = <<r.n>>]]
    [] r.is = "ChildNonzeroExit"     -> [terminal |-> "ChildFailure", detail |-> [NoDetail EXCEPT !.status = <<r.n>>]]
    [] r.is \in {"ChildTrapped", "ChildPanicked", "ChildOutcomes"} -> [terminal |-> "ChildFailure", detail |-> NoDetail]
    [] OTHER                         -> [terminal |-> "WorkerFailure", detail |-> NoDetail]

\* A Terminal: bound cuts the diagnostic.
TerminalMessage(mapped, text, counters) ==
  [kind |-> "Terminal", id |-> 1, terminal |-> mapped.terminal, detail |-> mapped.detail,
   text |-> SubSeq(text, 1, IF Len(text) < MaxDiagnostic THEN Len(text) ELSE MaxDiagnostic), counters |-> counters]

\* Counters that are not zero turn any result into a failure of the worker.
Answer(r, counters) ==
  TerminalMessage(IF counters = 0 THEN MapResult(r) ELSE [terminal |-> "WorkerFailure", detail |-> NoDetail], <<65, 65, 65>>, counters)

ProtocolTerminal == TerminalMessage([terminal |-> "ProtocolFailure", detail |-> NoDetail], <<65>>, 0)

Failure(is) == [is |-> is, n |-> 0]

\* map_terminal of what the reader thread forwards.
MapTerminal(read) ==
  LET m == read.value IN
  IF ~read.ok \/ m.kind # "Terminal" THEN Failure("Protocol")
  ELSE CASE m.counters # 0                -> Failure("Protocol")
         [] m.terminal = "Completed"      -> [is |-> m.detail.root, n |-> m.detail.rejections]
         [] m.terminal = "NonzeroExit"    -> [is |-> "NonzeroExit", n |-> m.detail.status[1]]
         [] m.terminal = "ChildFailure"   -> IF m.detail.status = <<>> THEN Failure("ChildFailure") ELSE [is |-> "ChildNonzeroExit", n |-> m.detail.status[1]]
         [] m.terminal = "WorkerFailure"  -> Failure("WorkerReportedFailure")
         [] m.terminal = "ProtocolFailure" -> Failure("Protocol")
         [] OTHER                         -> Failure(m.terminal)

-----------------------------------------------------------------------------
(* What the codec, the assembler and a contained run are given.             *)

Texts == {<<>>, <<65>>, <<65, 65>>, <<65, Bad>>, <<65, 65, 65>>}

Metas ==
  {[url |-> u, path |-> p, secs |-> 0, nanos |-> 3, copied |-> 1, deadline |-> 1, tick |-> 1, maxModule |-> 1] :
     u \in {<<>>, <<5>>, <<Bad>>, <<5, 5>>}, p \in {<<>>, <<1>>, <<3>>, <<1, Bad>>, <<1, 4>>, <<1, 4, 4>>}}

Messages ==
  {[kind |-> k, id |-> i] : k \in {"Hello", "HelloAck", "ExecuteAck", "ExecuteEnd", "Cancel"}, i \in 0 .. 1}
  \cup {[kind |-> "Trace", id |-> 1, text |-> t] : t \in Texts}
  \cup {[kind |-> "ExecuteStart", id |-> 1, len |-> n, meta |-> meta] : n \in 0 .. 2, meta \in Metas}
  \cup {[kind |-> "ModuleChunk", id |-> 1, sequence |-> n, bytes |-> [i \in 1 .. b |-> i]] : n \in 0 .. 1, b \in {0, 1, MaxFramePayload - 2, MaxFramePayload - 1}}
  \cup {[kind |-> "Terminal", id |-> 1, terminal |-> k, detail |-> [root |-> r, rejections |-> j, status |-> c], text |-> t, counters |-> n] :
          k \in ToSet(TerminalKinds), r \in ToSet(RootOutcomes), j \in 0 .. 1, c \in {<<>>} \cup {<<c>> : c \in StatusCodes}, t \in Texts \ {<<65, Bad>>}, n \in 0 .. 1}

\* A pipe whose other end dies, or another program's bytes: the frame is cut, followed
\* by more, or one of its cells is another.
Faulty(f) ==
  {SubSeq(f, 1, n) : n \in 0 .. Len(f)} \cup {f \o <<1>>}
  \cup {[f EXCEPT ![i] = v] : i \in DOMAIN f, v \in {Bad, 1, 2, 9, 65, NoStatusCode, MaxFramePayload + 1}}

Chunk(id, n, bytes) == [kind |-> "ModuleChunk", id |-> id, sequence |-> n, bytes |-> bytes]

Offered ==
  {Chunk(i, n, b) : i \in 1 .. 2, n \in 0 .. 2, b \in {<<>>, <<1>>, <<1, 2>>}}
  \cup {[kind |-> k, id |-> i] : k \in {"ExecuteEnd", "Hello"}, i \in 1 .. 2} \cup {ProtocolTerminal}

Policies ==
  {[url |-> u, path |-> p, secs |-> s, nanos |-> s, copied |-> 1, tick |-> t, maxModule |-> MaxModuleBytes, source |-> [i \in 1 .. n |-> i],
    native |-> v, granted |-> g] :
     u \in {<<>>, <<5>>}, p \in {<<>>, <<1>>}, s \in {0, 1, 9}, t \in 1 .. 4, n \in {0, 1, MaxFramePayload - 2, MaxFramePayload - 1, MaxModuleBytes},
     v \in BOOLEAN, g \in BOOLEAN}

\* A policy the compiler's constructors accepted, and a URL only with its output.
Admitted(p) == p.secs # 0 \/ p.nanos # 0

NoPolicy == [tick |-> 0]

IdleWorker == [at |-> "off", asm |-> NoAssembler, meta |-> Metadata([url |-> <<>>, path |-> <<>>, secs |-> 0, nanos |-> 0, copied |-> 0, tick |-> 0, maxModule |-> 0], 0),
               module |-> <<>>, rebuilt |-> Err("none"), result |-> Failure("none"), leaked |-> 0, wrote |-> <<>>, exit |-> 0]

NoParent == [todo |-> <<>>, closed |-> FALSE, report |-> Failure("none")]

Hello == [kind |-> "Hello", id |-> 1]

InitCodec ==
  /\ sent \in Messages
  /\ asm = NoAssembler /\ policy = NoPolicy /\ worker = [IdleWorker EXCEPT !.at = "write"] /\ parent = NoParent

InitAssembler ==
  /\ sent = Hello
  /\ \E len \in 0 .. 2, callerMax \in 1 .. 2 : StartAssembler(1, len, callerMax).ok /\ asm = StartAssembler(1, len, callerMax).value
  /\ policy = NoPolicy /\ worker = [IdleWorker EXCEPT !.at = "assemble"] /\ parent = NoParent

InitRun ==
  /\ sent = Hello /\ asm = NoAssembler
  /\ policy \in {p \in Policies : Admitted(p)}
  /\ worker = [IdleWorker EXCEPT !.at = "hello"] /\ parent = [NoParent EXCEPT !.todo = <<Hello>>]

Init == (InitCodec \/ InitAssembler \/ InitRun) /\ frame = <<>> /\ got = Err("none") /\ log = <<>>

-----------------------------------------------------------------------------
(* Actions.                                                                *)

WriteMessage ==
  /\ worker.at = "write" /\ Encode(sent).ok
  /\ frame' = Encode(sent).value
  /\ worker' = [worker EXCEPT !.at = "sent"]
  /\ UNCHANGED <<sent, got, asm, log, policy, parent>>

Fault ==
  /\ worker.at = "sent"
  /\ frame' \in Faulty(frame)
  /\ worker' = [worker EXCEPT !.at = "faulty"]
  /\ UNCHANGED <<sent, got, asm, log, policy, parent>>

Receive ==
  /\ worker.at \in {"sent", "faulty"}
  /\ got' = ReadMessage(frame)
  /\ worker' = [worker EXCEPT !.at = IF @ = "sent" THEN "received" ELSE "garbled"]
  /\ UNCHANGED <<sent, frame, asm, log, policy, parent>>

Assemble ==
  /\ worker.at = "assemble" /\ Len(log) < 4
  /\ \E m \in Offered :
       /\ Accept(asm, m).ok
       /\ asm' = Accept(asm, m).value
       /\ log' = Append(log, m)
  /\ UNCHANGED <<sent, frame, got, policy, worker, parent>>

\* The next message on the worker's standard input; a parent that could not encode one,
\* or that is gone, has closed it.
NextRead ==
  IF parent.todo = <<>> \/ ~Encode(Head(parent.todo)).ok THEN Err("Truncated") ELSE ReadMessage(Encode(Head(parent.todo)).value)

Exits(code) == worker' = [worker EXCEPT !.at = "done", !.exit = code]

Session == UNCHANGED <<sent, frame, got, asm, log, policy>>

ReadHello ==
  /\ worker.at = "hello"
  /\ IF NextRead.ok /\ NextRead.value.kind = "Hello"
     THEN /\ worker' = [worker EXCEPT !.at = "start", !.wrote = Append(@, "HelloAck")]
          /\ \E remaining \in 0 .. 3 : parent' = [parent EXCEPT !.todo = WriteUpload(policy, remaining)]
     ELSE Exits(1) /\ UNCHANGED parent
  /\ Session

ReadStart ==
  /\ worker.at = "start"
  /\ LET r == NextRead
         a == StartAssembler(1, r.value.len, r.value.meta.maxModule) IN
     CASE ~r.ok                                -> Exits(1)
       [] r.ok /\ r.value.kind # "ExecuteStart" -> worker' = [worker EXCEPT !.at = "done", !.wrote = Append(@, "Terminal")]
       [] OTHER -> IF a.ok THEN worker' = [worker EXCEPT !.at = "module", !.asm = a.value, !.meta = r.value.meta] ELSE Exits(1)
  /\ parent' = [parent EXCEPT !.todo = IF @ = <<>> THEN <<>> ELSE Tail(@)]
  /\ Session

ReadModule ==
  /\ worker.at = "module"
  /\ LET r == NextRead
         a == Accept(worker.asm, r.value) IN
     IF ~r.ok THEN Exits(1)
     ELSE IF ~a.ok THEN Exits(1)
     ELSE IF a.value.ended
     THEN worker' = [worker EXCEPT !.at = "execute", !.asm = NoAssembler, !.module = worker.asm.module, !.wrote = Append(@, "ExecuteAck")]
     ELSE worker' = [worker EXCEPT !.asm = a.value]
  /\ parent' = [parent EXCEPT !.todo = IF @ = <<>> THEN <<>> ELSE Tail(@)]
  /\ Session

\* The parent dies, or its write fails, with part of the request unwritten.
ParentCloses ==
  /\ worker.at \in {"hello", "start", "module"} /\ parent.todo # <<>>
  /\ parent' = [parent EXCEPT !.todo = <<>>, !.closed = TRUE]
  /\ UNCHANGED worker /\ Session

\* The worker writes a Terminal; the parent maps what it reads.
Report(m, code) ==
  /\ worker' = [worker EXCEPT !.at = "done", !.exit = code, !.wrote = Append(@, "Terminal")]
  /\ parent' = [parent EXCEPT !.report = IF Encode(m).ok THEN MapTerminal(ReadMessage(Encode(m).value)) ELSE Failure("UnexpectedExit")]

\* execute_request up to the policy: a worker built without a webview refuses a URL, one
\* built with it wants a grant and a destination.
RefuseGrant ==
  /\ worker.at = "execute" /\ worker.meta.url # <<>>
  /\ ~policy.native \/ ~policy.granted \/ worker.meta.path = <<>>
  /\ Report(ProtocolTerminal, 0)
  /\ Session

Rebuild ==
  /\ worker.at = "execute"
  /\ worker.meta.url # <<>> => policy.native /\ policy.granted /\ worker.meta.path # <<>>
  /\ IF Reconstruct(worker.meta).ok
     THEN worker' = [worker EXCEPT !.at = "run", !.rebuilt = Reconstruct(worker.meta)] /\ UNCHANGED parent
     ELSE Report(ProtocolTerminal, 1)
  /\ Session

\* The runtime cannot be built: no answer but the exit status.
NoRuntime == worker.at = "run" /\ Exits(1) /\ UNCHANGED parent /\ Session

\* The compiler or the admission refuses.
NotAdmitted == worker.at = "run" /\ Report(ProtocolTerminal, 0) /\ Session

Execute ==
  /\ worker.at = "run"
  /\ \E r \in Results, counters \in 0 .. 1 : worker' = [worker EXCEPT !.at = "report", !.result = r, !.leaked = counters]
  /\ UNCHANGED parent
  /\ Session

ReportResult ==
  /\ worker.at = "report"
  /\ Report(Answer(worker.result, worker.leaked), 0)
  /\ Session

Next ==
  \/ WriteMessage \/ Fault \/ Receive
  \/ Assemble
  \/ ReadHello \/ ReadStart \/ ReadModule \/ ParentCloses
  \/ RefuseGrant \/ Rebuild \/ NoRuntime \/ NotAdmitted \/ Execute \/ ReportResult

Spec == Init /\ [][Next]_vars

-----------------------------------------------------------------------------
(* Properties.                                                             *)

\* encode refuses none of what the peer accepts, and two messages are lost: a module
\* longer than the peer's own bound, and a status that is the number for none.
Unspeakable(m) ==
  \/ m.kind = "ExecuteStart" /\ (m.len > MaxModuleBytes \/ m.len > m.meta.maxModule)
  \/ m.kind = "Terminal" /\ m.detail.status = <<NoStatusCode>>

\* A frame that arrives whole is the message that was written; whatever arrives, the
\* reader accepts only frames the writer would have written for what it returns
\* (encode, read_message, decode).
CodecIsFaithful ==
  /\ worker.at = "received" /\ ~Unspeakable(sent) => got.ok /\ got.value = sent
  /\ got.ok => Encode(got.value).ok /\ Encode(got.value).value = SubSeq(frame, 1, HeaderLen + frame[4])

ChunksOf(messages) == SelectSeq(messages, LAMBDA m : m.kind = "ModuleChunk")

\* The assembler hands a module over exactly when numbered chunks of one request, in
\* order and without a gap, add up to the declared length (ModuleAssembler: "Assembles
\* only an ExecuteStart/chunks/ExecuteEnd sequence for one request").
AssembledAsSent ==
  LET chunks == ChunksOf(log) IN
  asm # NoAssembler =>
    /\ \A i \in DOMAIN chunks : chunks[i].sequence = i - 1 /\ chunks[i].id = asm.id
    /\ asm.ended => /\ FoldSeq(LAMBDA m, n : n + Len(m.bytes), 0, chunks) = asm.declared
                    /\ asm.declared <= asm.callerMax
                    /\ \A i \in DOMAIN log : log[i].kind = "Terminal" => i = Len(log)

\* What map_terminal should make of a result: the errors that carry no detail are
\* reported by their class.
Expected(r) ==
  CASE r.is \in {"ChildTrapped", "ChildPanicked", "ChildOutcomes"} -> Failure("ChildFailure")
    [] r.is = "OtherError" -> Failure("WorkerReportedFailure")
    [] OTHER -> r

\* A contained run whose parent keeps writing executes the bytes the parent holds under the policy the parent
\* holds, and the parent reports what the execution returned.  A tick below a
\* millisecond becomes zero on the wire and is refused there.
ContainedRunIsFaithful ==
  /\ worker.at \in {"execute", "run", "report"} => worker.module = policy.source
  /\ worker.exit = 1 /\ ~parent.closed => Contains(worker.wrote, "ExecuteAck")
  /\ worker.at = "execute" => (policy.tick >= 2 <=> Reconstruct(worker.meta).ok)
  /\ worker.rebuilt.ok =>
       /\ worker.rebuilt.value.secs = policy.secs /\ worker.rebuilt.value.nanos = policy.nanos
       /\ worker.rebuilt.value.tick \in {policy.tick, policy.tick - 1}
  /\ worker.at = "done" /\ worker.result.is # "none" /\ worker.result.n # NoStatusCode =>
       parent.report = IF worker.leaked = 0 THEN Expected(worker.result) ELSE Failure("Protocol")

=============================================================================
