---------------------------- MODULE NetServices ----------------------------
(***************************************************************************)
(* The HTTP server and client and the daemon identity, frame and           *)
(* registration facades.  Independent parts, one per facet:                *)
(*   serve   the accept loop, its connection tasks and their upgrades;     *)
(*   body    streamed response bodies and the shared native read budget;   *)
(*   write   the write-progress deadline of a socket;                      *)
(*   client  redirects of one request, then the bounded body reads;        *)
(*   ident   verifying a recorded daemon and ending exactly that process;  *)
(*   value   pure functions: targets, headers, events, frames, records.    *)
(***************************************************************************)
EXTENDS Integers, Sequences, FiniteSets, SequencesExt

CONSTANTS MaxConnections,   \* Limits.max_connections
          Conns,            \* connections ever offered, 1 .. n
          MaxRequests,      \* requests of one connection
          MaxBody,          \* Limits.max_body_bytes of the client
          MaxRedirects,     \* Limits.max_redirects
          MaxTime           \* clock ticks

VARIABLES facet, srv, body, pio, cl, idn, value

vars == <<facet, srv, body, pio, cl, idn, value>>

Off == [phase |-> "off"]
Others(f) ==
    /\ UNCHANGED <<facet, value>>
    /\ IF f = "serve" THEN TRUE ELSE UNCHANGED srv
    /\ IF f = "body" THEN TRUE ELSE UNCHANGED body
    /\ IF f = "write" THEN TRUE ELSE UNCHANGED pio
    /\ IF f = "client" THEN TRUE ELSE UNCHANGED cl
    /\ IF f = "ident" THEN TRUE ELSE UNCHANGED idn

(***************************************************************************)
(* Server::serve.  A connection task drives hyper's connection (external)  *)
(* and the upgrade tasks its handlers sent; `ups[i]` is the upgrade task   *)
(* of request i and `socks[i]` what hyper resolved its upgrade to.         *)
(***************************************************************************)
Requests == 1 .. MaxRequests
FreshConn == [at |-> "none", reqs |-> 0, status |-> 0, ups |-> [i \in Requests |-> "none"], socks |-> [i \in Requests |-> "pending"], outcome |-> "none"]
\* Request-level counters are kept as the last one that moved (`seen`).
Counters == {"accepted", "completed", "errors", "timeouts", "failures"}
FreshServers == {[phase |-> "on", at |-> "serving", conns |-> [c \in Conns |-> FreshConn], diag |-> [k \in Counters |-> 0], seen |-> {}]}
Driving == {"open", "body", "handler", "accept", "merge", "write"}
Owned(s) == {c \in Conns : s.conns[c].at \notin {"none", "joined"}}
increment(s, k) == IF k \in Counters THEN [s EXCEPT !.diag[k] = @ + 1] ELSE [s EXCEPT !.seen = {k}]
Conn(s, c, r) == srv' = [s EXCEPT !.conns[c] = r] /\ Others("serve")
Here(c, at) == facet = "serve" /\ srv.at = "serving" /\ srv.conns[c].at = at
\* An upgrade that was not handed a socket resolves to an error.
Refuse(k) == [k EXCEPT !.socks = [i \in Requests |-> IF @[i] = "pending" THEN "refused" ELSE @[i]]]
Ends(k, outcome) == [Refuse(k) EXCEPT !.at = "drain", !.outcome = outcome]

accept(c) ==
    /\ Here(c, "none") /\ Cardinality(Owned(srv)) < MaxConnections
    /\ Conn(increment(srv, "accepted"), c, [FreshConn EXCEPT !.at = "open"])
ClientRequests(c) ==
    /\ Here(c, "open") /\ srv.conns[c].reqs < MaxRequests
    /\ Conn(srv, c, [srv.conns[c] EXCEPT !.at = "body", !.reqs = @ + 1])
CollectBody(c, r) ==
    /\ Here(c, "body")
    /\ LET k == srv.conns[c]
       IN  CASE r = "ok" -> Conn(srv, c, [k EXCEPT !.at = "handler"])
             [] r = "late" -> Conn(increment(srv, "bodyTimeouts"), c, [k EXCEPT !.at = "merge", !.status = 408])
             [] r = "long" -> Conn(increment(srv, "requestRejections"), c, [k EXCEPT !.at = "merge", !.status = 413])
             [] OTHER -> Conn(increment(srv, "requestRejections"), c, [k EXCEPT !.at = "merge", !.status = 400])
\* The upgrade task is sent before the response is accepted.
dispatch_inner(c, r) ==
    /\ Here(c, "handler")
    /\ LET k == srv.conns[c]
       IN  CASE r = "late" -> Conn(increment(srv, "handlerTimeouts"), c, [k EXCEPT !.at = "merge", !.status = 504])
             [] r = "panic" -> Conn(srv, c, [k EXCEPT !.at = "panicked", !.ups = [i \in Requests |-> IF @[i] \in {"none", "joined"} THEN @[i] ELSE "aborted"]])
             [] r = "upgrade" -> Conn(srv, c, [k EXCEPT !.at = "accept", !.status = 101, !.ups[k.reqs] = "queued"])
             [] OTHER -> Conn(srv, c, [k EXCEPT !.at = "accept", !.status = 200])
AcceptResponse(c, fits) ==
    /\ Here(c, "accept")
    /\ LET k == srv.conns[c]
       IN  IF fits THEN Conn(srv, c, [k EXCEPT !.at = "merge"])
           ELSE Conn(increment(srv, "responseRejections"), c, [k EXCEPT !.at = "merge", !.status = 500])
\* The server's own headers replace the handler's, and the result is checked again.
dispatch(c, fits) ==
    /\ Here(c, "merge")
    /\ LET k == srv.conns[c]
       IN  IF fits THEN Conn(srv, c, [k EXCEPT !.at = "write"])
           ELSE Conn(increment(srv, "responseRejections"), c, [k EXCEPT !.at = "write", !.status = 500])
\* hyper: a written 101 ends the HTTP connection and hands the socket over.
WriteReply(c) ==
    /\ Here(c, "write")
    /\ LET k == srv.conns[c]
       IN  Conn(srv, c, IF k.status = 101 THEN Ends([k EXCEPT !.socks[k.reqs] = "handed"], "ok")
                        ELSE [k EXCEPT !.at = "open", !.socks[k.reqs] = "refused"])
ConnectionEnds(c, outcome) ==
    /\ facet = "serve" /\ srv.at = "serving" /\ srv.conns[c].at \in {"open", "body", "write"}
    /\ Conn(srv, c, Ends(srv.conns[c], outcome))
connection_timeout(c) ==
    /\ facet = "serve" /\ srv.at = "serving" /\ srv.conns[c].at \in Driving
    /\ Conn(srv, c, Ends(srv.conns[c], "timeout"))
SpawnUpgrade(c, i) ==
    /\ facet = "serve" /\ srv.at = "serving" /\ srv.conns[c].at \in Driving /\ srv.conns[c].ups[i] = "queued"
    /\ Conn(srv, c, [srv.conns[c] EXCEPT !.ups[i] = "wait"])
on_upgrade(c, i) ==
    /\ facet = "serve" /\ srv.at = "serving" /\ srv.conns[c].ups[i] = "wait" /\ srv.conns[c].socks[i] # "pending"
    /\ Conn(srv, c, [srv.conns[c] EXCEPT !.ups[i] = IF srv.conns[c].socks[i] = "handed" THEN "use" ELSE "ended"])
UpgradeEnds(c, i, how) ==
    /\ facet = "serve" /\ srv.at = "serving" /\ srv.conns[c].ups[i] = "use"
    /\ Conn(srv, c, [srv.conns[c] EXCEPT !.ups[i] = how])
JoinUpgrade(c, i) ==
    /\ facet = "serve" /\ srv.at = "serving" /\ srv.conns[c].at \in Driving \cup {"join"} /\ srv.conns[c].ups[i] \in {"ended", "failed"}
    /\ Conn(IF srv.conns[c].ups[i] = "failed" THEN increment(srv, "failures") ELSE srv, c, [srv.conns[c] EXCEPT !.ups[i] = "joined"])
\* Remaining upgrades are received and joined, not aborted.
DrainUpgrades(c) ==
    /\ Here(c, "drain")
    /\ Conn(srv, c, [srv.conns[c] EXCEPT !.at = "join", !.ups = [i \in Requests |-> IF @[i] = "queued" THEN "wait" ELSE @[i]]])
CountOutcome(c) ==
    /\ Here(c, "join") /\ \A i \in Requests : srv.conns[c].ups[i] \in {"none", "joined", "aborted"}
    /\ LET k == srv.conns[c]
       IN  Conn(increment(srv, CASE k.outcome = "timeout" -> "timeouts" [] k.outcome = "err" -> "errors" [] OTHER -> "completed"), c, [k EXCEPT !.at = "done"])
join_next(c) ==
    /\ facet = "serve" /\ srv.at = "serving" /\ srv.conns[c].at \in {"done", "panicked"}
    /\ Conn(IF srv.conns[c].at = "panicked" THEN increment(srv, "failures") ELSE srv, c, [FreshConn EXCEPT !.at = "joined", !.outcome = srv.conns[c].outcome])
\* A listener error, or dropping the future: every owned task is cancelled.
ServeEnds(how) ==
    /\ facet = "serve" /\ srv.at = "serving"
    /\ srv' = [srv EXCEPT !.at = how,
                          !.conns = [c \in Conns |-> [@[c] EXCEPT !.at = IF @ \in {"none", "done", "joined", "panicked"} THEN @ ELSE "aborted",
                                                                  !.ups = [i \in Requests |-> IF @[i] \in {"none", "joined"} THEN @[i] ELSE "aborted"]]]]
    /\ Others("serve")
ServeNext ==
    \/ \E c \in Conns :
         \/ accept(c) \/ ClientRequests(c) \/ WriteReply(c) \/ connection_timeout(c) \/ DrainUpgrades(c) \/ CountOutcome(c) \/ join_next(c)
         \/ \E r \in {"ok", "late", "long", "bad"} : CollectBody(c, r)
         \/ \E r \in {"plain", "upgrade", "late", "panic"} : dispatch_inner(c, r)
         \/ \E fits \in BOOLEAN : AcceptResponse(c, fits) \/ dispatch(c, fits)
         \/ \E o \in {"ok", "err"} : ConnectionEnds(c, o)
         \/ \E i \in Requests : SpawnUpgrade(c, i) \/ on_upgrade(c, i) \/ JoinUpgrade(c, i) \/ UpgradeEnds(c, i, "ended") \/ UpgradeEnds(c, i, "failed")
    \/ ServeEnds("returned") \/ ServeEnds("dropped")

(***************************************************************************)
(* Response bodies.  Two file responses share one ReadBudget permit; a     *)
(* byte or event body is alone.  `disk` is what the file still holds past  *)
(* the read position, `left` what the response still promises.             *)
(***************************************************************************)
Chunk == 2          \* max_stream_chunk_bytes
MaxEvent == 2       \* max_event_bytes
MaxFileBytes == 3   \* max_file_bytes and max_response_body_bytes
Capacity == 1       \* permits of a ReadBudget
Least(a, b) == IF a < b THEN a ELSE b
NoBody == [src |-> "bytes", at |-> "ended", prefix |-> 0, left |-> 0, disk |-> 0, declared |-> 0, sent |-> 0, read |-> "none", got |-> 0, prep |-> FALSE]
FileBody(p, n) == [NoBody EXCEPT !.src = "file", !.at = "new", !.prefix = p, !.disk = n]
FreshBodies ==
    {[phase |-> "on", rs |-> <<FileBody(p, n), FileBody(0, 1)>>, free |-> Capacity, prepFree |-> Capacity] : p \in 0 .. 1, n \in 0 .. 3}
    \cup {[phase |-> "on", rs |-> <<[NoBody EXCEPT !.at = "new", !.left = n], NoBody>>, free |-> Capacity, prepFree |-> Capacity] : n \in 0 .. 4}
    \cup {[phase |-> "on", rs |-> <<[NoBody EXCEPT !.src = "events", !.at = "new"], NoBody>>, free |-> Capacity, prepFree |-> Capacity]}
Responses == 1 .. 2
Body(b, i, r) == body' = [b EXCEPT !.rs[i] = r] /\ Others("body")
At(i, at) == facet = "body" /\ body.rs[i].at = at

\* FileResponses::open: the inspection takes a permit or refuses at once.
open(i) ==
    /\ At(i, "new") /\ body.rs[i].src = "file"
    /\ IF body.prepFree = 0 THEN Body(body, i, [body.rs[i] EXCEPT !.at = "refused"])
       ELSE Body([body EXCEPT !.prepFree = @ - 1], i, [body.rs[i] EXCEPT !.at = "preparing", !.prep = TRUE])
\* The worker returns the permit, whether or not anyone still waits for it.
InspectionEnds(i, regular) ==
    /\ facet = "body" /\ body.rs[i].prep
    /\ LET r == [body.rs[i] EXCEPT !.prep = FALSE]
       IN  Body([body EXCEPT !.prepFree = @ + 1], i,
                IF r.at # "preparing" THEN r
                ELSE IF regular THEN [r EXCEPT !.at = "built", !.left = r.disk] ELSE [r EXCEPT !.at = "refused"])
InspectionTimesOut(i) == At(i, "preparing") /\ Body(body, i, [body.rs[i] EXCEPT !.at = "refused"])
\* The server accepts a body against its limits and declares its size.
configure(i) ==
    LET r == body.rs[i] IN
    /\ At(i, IF r.src = "file" THEN "built" ELSE "new")
    /\ Body(body, i, IF r.src # "events" /\ r.prefix + r.left > MaxFileBytes THEN [r EXCEPT !.at = "refused"]
                     ELSE [r EXCEPT !.at = "stream", !.declared = r.prefix + r.left])
Bytes(i, r, n) == Body(body, i, [r EXCEPT !.sent = @ + n])
Fails(b, i, r) == Body(b, i, [r EXCEPT !.at = "failed"])
poll_bytes(i) ==
    LET r == body.rs[i] IN
    /\ At(i, "stream") /\ r.src = "bytes"
    /\ IF r.left = 0 THEN Body(body, i, [r EXCEPT !.at = "ended"])
       ELSE Bytes(i, [r EXCEPT !.left = @ - Least(@, Chunk)], Least(r.left, Chunk))
\* The blocking read holds its permit until it returns.
poll_file(i) ==
    LET r == body.rs[i] IN
    /\ At(i, "stream") /\ r.src = "file" /\ r.read # "run"
    /\ IF r.prefix > 0 THEN Bytes(i, [r EXCEPT !.prefix = @ - Least(@, Chunk)], Least(r.prefix, Chunk))
       ELSE IF r.left = 0 THEN Body(body, i, [r EXCEPT !.at = "ended"])
       ELSE IF r.read = "none"
            THEN IF body.free = 0 THEN Fails(body, i, r)
                 ELSE Body([body EXCEPT !.free = @ - 1], i, [r EXCEPT !.read = "run"])
            ELSE IF r.got <= 0 THEN Fails(body, i, [r EXCEPT !.read = "none"])
                 ELSE Bytes(i, [r EXCEPT !.read = "none", !.left = @ - r.got], r.got)
\* The worker of a read: a short read, a truncated file (0) or an error (-1).
ReadReturns(i, n) ==
    LET r == body.rs[i] IN
    /\ facet = "body" /\ r.read = "run"
    /\ n \in -1 .. Least(Least(r.left, Chunk), r.disk) /\ (n = 0 => r.disk = 0)
    /\ Body([body EXCEPT !.free = @ + 1], i, [r EXCEPT !.read = "got", !.got = n, !.disk = IF n > 0 THEN @ - n ELSE @])
FileChanges(i, n) ==
    /\ facet = "body" /\ body.rs[i].src = "file" /\ body.rs[i].at = "stream" /\ n # body.rs[i].disk
    /\ Body(body, i, [body.rs[i] EXCEPT !.disk = n])
\* Events: `prefix` is the encoded event not yet sent; a keep-alive comment is one chunk.
poll_events(i, next) ==
    LET r == body.rs[i] IN
    /\ At(i, "stream") /\ r.src = "events" /\ r.sent < 2 * MaxEvent
    /\ IF r.prefix > 0 THEN next = "none" /\ Bytes(i, [r EXCEPT !.prefix = @ - Least(@, Chunk)], Least(r.prefix, Chunk))
       ELSE CASE next = "end" -> Body(body, i, [r EXCEPT !.at = "ended"])
              [] next \in {"error", "long", "field"} -> Fails(body, i, r)
              [] next = "event" -> Bytes(i, [r EXCEPT !.prefix = MaxEvent + 1 - Chunk, !.declared = @ + MaxEvent + 1], Chunk)
              [] next = "keepalive" -> Bytes(i, [r EXCEPT !.declared = @ + 1], 1)
              [] OTHER -> FALSE
DropResponse(i) ==
    /\ facet = "body" /\ body.rs[i].at \in {"preparing", "built", "stream", "failed", "ended"} /\ body.rs[i].src = "file"
    /\ Body(body, i, [body.rs[i] EXCEPT !.at = "dropped"])
BodyNext ==
    \E i \in Responses :
      \/ open(i) \/ InspectionTimesOut(i) \/ configure(i) \/ poll_bytes(i) \/ poll_file(i) \/ DropResponse(i)
      \/ \E x \in BOOLEAN : InspectionEnds(i, x)
      \/ \E n \in -1 .. Chunk : ReadReturns(i, n)
      \/ \E n \in 0 .. 1 : FileChanges(i, n)
      \/ \E e \in {"none", "end", "error", "long", "field", "event", "keepalive"} : poll_events(i, e)

(***************************************************************************)
(* ProgressIo: a deadline armed by the first write, flush or shutdown that *)
(* has to wait, and cleared by progress.  `since` remembers that moment.   *)
(***************************************************************************)
WriteTimeout == 2
NoTime == -1
FreshProgress == {[phase |-> "on", now |-> 0, deadline |-> NoTime, since |-> NoTime, last |-> "none"]}
Pio(r) == pio' = r /\ Others("write")
ProgressTick == facet = "write" /\ pio.now < MaxTime /\ pio.last # "stalled" /\ Pio([pio EXCEPT !.now = @ + 1, !.last = "none"])
wait(p) ==
    IF p.deadline # NoTime THEN [p EXCEPT !.last = "pending"]
    ELSE [p EXCEPT !.deadline = p.now + WriteTimeout, !.last = "pending", !.since = IF @ = NoTime THEN p.now ELSE @]
expired(p) == p.deadline # NoTime /\ p.now >= p.deadline
poll_write(r) ==
    /\ facet = "write" /\ pio.last # "stalled"
    /\ Pio(IF expired(pio) THEN [pio EXCEPT !.last = "stalled"]
           ELSE CASE r = "pending" -> wait(pio)
                  [] r = "some" -> [pio EXCEPT !.deadline = NoTime, !.since = NoTime, !.last = "ok"]
                  [] OTHER -> [pio EXCEPT !.last = "ok"])
poll_flush(r) ==
    /\ facet = "write" /\ pio.last # "stalled"
    /\ Pio(IF expired(pio) THEN [pio EXCEPT !.last = "stalled"]
           ELSE CASE r = "pending" -> wait(pio)
                  [] r = "ok" -> [pio EXCEPT !.deadline = NoTime, !.since = NoTime, !.last = "ok"]
                  [] OTHER -> [pio EXCEPT !.last = "ok"])
poll_shutdown(r) == poll_flush(r)
WriteNext ==
    \/ ProgressTick
    \/ \E r \in {"pending", "some", "zero"} : poll_write(r)
    \/ \E r \in {"pending", "ok", "error"} : poll_flush(r) \/ poll_shutdown(r)

(***************************************************************************)
(* HttpClient::execute: one absolute deadline over every hop, then reads   *)
(* of the body.  A URL is its scheme, its host and what makes it           *)
(* inadmissible; `log` is what went on the wire, hop by hop.               *)
(***************************************************************************)
Deadline == 2
Urls == [scheme : {"http", "https", "other"}, host : {"a", "b"}, flaw : {"none", "long", "credentials"}]
Origin(u) == <<u.scheme, u.host>>
FreshClients ==
    {[phase |-> "on", at |-> "ready", hop |-> 0, now |-> 0, url |-> u, method |-> m, body |-> m = "POST", hdrs |-> h, log |-> <<>>,
      remaining |-> MaxBody, pending |-> 0, eof |-> FALSE, got |-> 0, verdict |-> "none"]
     : u \in {v \in Urls : v.host = "a" /\ v.flaw # "long" /\ v.scheme # "other"}, m \in {"GET", "HEAD", "POST"},
       h \in {{}, {"auth", "content-type"}, {"host"}}}
Cl(r) == cl' = r /\ Others("client")
ClientTick == facet = "client" /\ cl.at \in {"ready", "wait", "reading"} /\ cl.now < Deadline /\ Cl([cl EXCEPT !.now = @ + 1])
\* Every refusal precedes the send.
execute_once ==
    /\ facet = "client" /\ cl.at = "ready"
    /\ Cl(IF cl.url.flaw # "none" \/ cl.url.scheme = "other" \/ (cl.body /\ cl.method # "POST") \/ "host" \in cl.hdrs \/ cl.now >= Deadline
          THEN [cl EXCEPT !.at = "failed"]
          ELSE [cl EXCEPT !.at = "wait", !.log = Append(@, [url |-> cl.url, method |-> cl.method, body |-> cl.body, hdrs |-> cl.hdrs, now |-> cl.now])])
TransportFails == facet = "client" /\ cl.at = "wait" /\ Cl([cl EXCEPT !.at = "failed"])
\* A response whose headers or declared length exceed the limits.
RefuseResponse == facet = "client" /\ cl.at = "wait" /\ Cl([cl EXCEPT !.at = "failed"])
ReturnResponse(status, location) ==
    /\ facet = "client" /\ cl.at = "wait" /\ cl.now < Deadline
    /\ MaxRedirects = 0 \/ status = 200 \/ ~location
    /\ Cl([cl EXCEPT !.at = "reading"])
Redirect(status, next) ==
    /\ facet = "client" /\ cl.at = "wait" /\ cl.now < Deadline /\ MaxRedirects > 0 /\ status # 200
    /\ LET turns == cl.method = "POST" /\ status \in {301, 302, 303}
           away == Origin(next) # Origin(cl.url)
       IN  Cl(IF cl.hop = MaxRedirects \/ next.flaw = "long" \/ (cl.url.scheme = "https" /\ next.scheme # "https")
                  \/ (away /\ cl.method = "POST" /\ status \in {307, 308})
              THEN [cl EXCEPT !.at = "failed"]
              ELSE [cl EXCEPT !.at = "ready", !.hop = @ + 1, !.url = next,
                              !.method = IF turns THEN "GET" ELSE @, !.body = IF turns THEN FALSE ELSE @,
                              !.hdrs = (IF away THEN {} ELSE @) \ (IF turns THEN {"content-type"} ELSE {})])
\* Response::read with a buffer of n bytes; `pulled` is the transport's next chunk.
ReadFails(what) == Cl([cl EXCEPT !.verdict = what, !.pending = IF what = "late" THEN 0 ELSE @])
Deliver(r, n) == Cl([r EXCEPT !.got = @ + Least(n, r.pending), !.pending = @ - Least(n, r.pending)])
read(n, pulled) ==
    /\ facet = "client" /\ cl.at = "reading" /\ n > 0 /\ cl.verdict = "none"
    /\ IF ~cl.eof /\ cl.now >= Deadline THEN pulled = 0 /\ ReadFails("late")
       ELSE IF cl.pending > 0 \/ cl.eof THEN pulled = 0 /\ Deliver(cl, n)
       ELSE CASE pulled = -1 -> ReadFails("transport")
              [] pulled = 0 -> Cl([cl EXCEPT !.eof = TRUE])
              [] pulled > cl.remaining -> ReadFails("long")
              [] OTHER -> Deliver([cl EXCEPT !.remaining = @ - pulled, !.pending = pulled], n)
\* into_bytes reads to the first empty result; any error discards what was read.
into_bytes == facet = "client" /\ cl.at = "reading" /\ (cl.verdict # "none" \/ (cl.eof /\ cl.pending = 0)) /\ Cl([cl EXCEPT !.at = "consumed"])
ClientNext ==
    \/ ClientTick \/ execute_once \/ TransportFails \/ RefuseResponse \/ into_bytes
    \/ \E st \in {200, 301}, l \in BOOLEAN : ReturnResponse(st, l)
    \/ \E st \in {301, 307}, u \in Urls : Redirect(st, u)
    \/ \E n \in 1 .. 2, c \in -1 .. 2 : read(n, c)

(***************************************************************************)
(* DaemonIdentity::verify.  `now` is the instance that holds the recorded  *)
(* PID (0: none); an instance runs an executable that is the recorded one  *)
(* or not.  The liveness reference follows the instance it was opened on.  *)
(***************************************************************************)
Instances == 1 .. 3
FreshIdents ==
    {[phase |-> "on", at |-> "start", control |-> k, boot |-> b, now |-> n, next |-> 2, alive |-> IF n = 1 THEN {1} ELSE {},
      exe |-> [i \in Instances |-> e[i]], file |-> "recorded", ref |-> 0, seen |-> 0, gen |-> 0, killed |-> {}, said |-> "none"]
     : k \in BOOLEAN, b \in {"empty", "same", "other", "unknown"}, n \in 0 .. 1, e \in [Instances -> {"recorded", "foreign"}]}
Idn(r) == idn' = r /\ Others("ident")
Step(at) == facet = "ident" /\ idn.at = at
VerifyFails(why) == Idn([idn EXCEPT !.at = "failed", !.said = why])
\* The world: the process ends, and later another may be given its number.
InstanceDies == facet = "ident" /\ idn.now # 0 /\ Idn([idn EXCEPT !.now = 0, !.alive = @ \ {idn.now}])
PidIsReused == facet = "ident" /\ idn.now = 0 /\ idn.next \in Instances /\ Idn([idn EXCEPT !.now = idn.next, !.next = @ + 1, !.alive = @ \cup {idn.next}])
ExecutableReplaced == facet = "ident" /\ idn.file = "recorded" /\ Idn([idn EXCEPT !.file = "other"])
verify_boot == Step("start") /\ (IF idn.boot \in {"empty", "same"} THEN Idn([idn EXCEPT !.at = "open"]) ELSE VerifyFails("boot"))
OpenLiveness == Step("open") /\ (IF idn.now = 0 THEN VerifyFails("notFound") ELSE Idn([idn EXCEPT !.ref = idn.now, !.at = "path"]))
ComparePath ==
    /\ Step("path")
    /\ IF idn.now = 0 THEN VerifyFails("path")
       ELSE IF idn.exe[idn.now] # "recorded" THEN VerifyFails("pathMismatch")
       ELSE Idn([idn EXCEPT !.seen = idn.now, !.at = "hash"])
CompareDigest == Step("hash") /\ (IF idn.file = "recorded" THEN Idn([idn EXCEPT !.at = IF idn.control THEN "capture" ELSE "alive"]) ELSE VerifyFails("hash"))
capture_generation(able) ==
    /\ Step("capture")
    /\ IF idn.now = 0 THEN VerifyFails("notFound")
       ELSE IF ~able THEN VerifyFails("controlUnavailable")
       ELSE Idn([idn EXCEPT !.gen = idn.now, !.at = "alive"])
FinalLiveness == Step("alive") /\ (IF idn.ref \in idn.alive THEN Idn([idn EXCEPT !.at = "verified"]) ELSE VerifyFails("notFound"))
force_kill ==
    /\ Step("verified") /\ idn.said = "none"
    /\ Idn(IF ~idn.control THEN [idn EXCEPT !.said = "controlNotRetained"]
           ELSE IF idn.now = 0 THEN [idn EXCEPT !.said = "alreadyExited"]
           ELSE IF idn.now # idn.gen THEN [idn EXCEPT !.said = "stale"]
           ELSE [idn EXCEPT !.said = "killed", !.killed = @ \cup {idn.gen}, !.now = 0, !.alive = @ \ {idn.gen}])
has_exited(observed) ==
    /\ Step("verified") /\ idn.said \notin {"exited", "running", "unobserved"}
    /\ Idn([idn EXCEPT !.said = IF ~observed THEN "unobserved" ELSE IF idn.ref \in idn.alive THEN "running" ELSE "exited"])
IdentNext ==
    \/ InstanceDies \/ PidIsReused \/ ExecutableReplaced
    \/ verify_boot \/ OpenLiveness \/ ComparePath \/ CompareDigest \/ FinalLiveness \/ force_kill
    \/ \E b \in BOOLEAN : capture_generation(b) \/ has_exited(b)

(***************************************************************************)
(* Values.  A form query is a sequence of characters; a decoded byte is    *)
(* the character it stands for.                                            *)
(***************************************************************************)
Hex == [c \in {"2", "3", "5", "6", "b", "d"} |-> CASE c = "2" -> 2 [] c = "3" -> 3 [] c = "5" -> 5 [] c = "6" -> 6 [] c = "b" -> 11 [] OTHER -> 13]
ByteNames == [b \in {38, 61, 37, 43} |-> CASE b = 38 -> "&" [] b = 61 -> "=" [] b = 37 -> "%" [] OTHER -> "+"]
\* A byte outside UTF-8 (here: any but the four the escapes name) is refused.
hex(c) == IF c \in DOMAIN Hex THEN Hex[c] ELSE -1
decode(s, plus_space) ==
    LET at(i) == IF i <= Len(s) THEN hex(s[i]) ELSE -1
        d[i \in 1 .. Len(s) + 2] ==
          IF i > Len(s) THEN [ok |-> TRUE, out |-> <<>>]
          ELSE IF s[i] = "%"
               THEN LET b == 16 * at(i + 1) + at(i + 2)
                    IN  IF at(i + 1) < 0 \/ at(i + 2) < 0 \/ b \notin DOMAIN ByteNames \/ i + 3 > Len(s) + 2 THEN [ok |-> FALSE, out |-> <<>>]
                        ELSE LET r == d[i + 3] IN [r EXCEPT !.out = <<ByteNames[b]>> \o @]
               ELSE LET r == d[i + 1] IN [r EXCEPT !.out = <<IF s[i] = "+" /\ plus_space THEN " " ELSE s[i]>> \o @]
    IN  d[1]
\* split_once: the first `c`; a missing one leaves the second part empty.
SplitOnce(s, c) ==
    LET at == {i \in 1 .. Len(s) : s[i] = c}
        i == CHOOSE k \in at : \A j \in at : k <= j
    IN  IF at = {} THEN <<s, <<>>>> ELSE <<SubSeq(s, 1, i - 1), SubSeq(s, i + 1, Len(s))>>
SplitOn(s, c) ==
    LET cuts == SetToSortSeq({i \in 1 .. Len(s) : s[i] = c}, LAMBDA a, b : a < b)
        from(k) == IF k = 1 THEN 1 ELSE cuts[k - 1] + 1
        to(k) == IF k > Len(cuts) THEN Len(s) ELSE cuts[k] - 1
    IN  [k \in 1 .. Len(cuts) + 1 |-> SubSeq(s, from(k), to(k))]
QueryPairs(s) ==
    LET fields == SelectSeq(SplitOn(s, "&"), LAMBDA f : f # <<>>)
        pair(f) == LET n == decode(SplitOnce(f, "=")[1], TRUE) v == decode(SplitOnce(f, "=")[2], TRUE)
                   IN  IF n.ok /\ v.ok THEN <<n.out, v.out>> ELSE <<"invalid">>
    IN  [k \in 1 .. Len(fields) |-> pair(fields[k])]
\* What a form encoder writes.
Escape(c) == CASE c = " " -> <<"+">> [] c = "&" -> <<"%", "2", "6">> [] c = "=" -> <<"%", "3", "d">> [] c = "+" -> <<"%", "2", "b">> [] OTHER -> <<c>>
Encoded(s) == FlattenSeq([i \in 1 .. Len(s) |-> Escape(s[i])])
Field(p) == Encoded(p[1]) \o <<"=">> \o Encoded(p[2])
Words == {<<>>} \cup {<<a>> : a \in {"z", " ", "&", "=", "+"}} \cup {<<a, b>> : a, b \in {"z", "=", "&"}}
Malformed == {<<"%">>, <<"%", "2">>, <<"%", "z", "2">>, <<"%", "2", "z">>, <<"%", "d", "d">>}

\* encode_event: the data lines of one event.
Normalise(s) ==
    LET n[i \in 1 .. Len(s) + 2] ==
          IF i > Len(s) THEN <<>>
          ELSE IF s[i] = "cr" THEN <<"lf">> \o n[IF i < Len(s) /\ s[i + 1] = "lf" THEN i + 2 ELSE i + 1]
          ELSE <<s[i]>> \o n[i + 1]
    IN  n[1]
encode_event(s) == SplitOn(Normalise(s), "lf")
\* A reader ends a line at CR LF, LF or CR: the number of line ends it sees.
LineEnds(s) == Cardinality({i \in 1 .. Len(s) : s[i] = "lf" \/ (s[i] = "cr" /\ ~(i < Len(s) /\ s[i + 1] = "lf"))})

\* Response::new, headers_fit and the merge of the server's own headers.
Response_new(status, length) == status \in 200 .. 599 /\ ~(status \in {204, 205, 304} /\ length > 0)
MaxHeaders == 2
headers_fit(h) == Len(h) <= MaxHeaders
with_header(name) == name \notin {"content-length", "transfer-encoding", "connection", "upgrade", "trailer", "keep-alive", "proxy-connection", "te"}
MergeHeaders(own, handler) ==
    LET kept == SelectSeq(handler, LAMBDA h : \A i \in 1 .. Len(own) : own[i][1] # h[1])
    IN  IF headers_fit(kept \o own) THEN [status |-> 200, headers |-> kept \o own] ELSE [status |-> 500, headers |-> own]

\* Upgrade::from_request: list-valued token headers, single-valued version and key.
has_token(values, token) == \E i \in 1 .. Len(values) : \E k \in 1 .. Len(values[i]) : values[i][k] = token
singleton(values) == IF Len(values) = 1 THEN values[1] ELSE "none"
valid_key(key) == key = "nonce"
from_request(r) ==
    /\ r.http11 /\ r.method = "GET"
    /\ has_token(r.connection, "upgrade") /\ has_token(r.upgrade, "websocket")
    /\ singleton(r.version) = "13" /\ valid_key(singleton(r.key))
WebSocketLimits_config(message, frame) == message \in 1 .. 3 /\ frame \in 1 .. message
validate_outgoing(message, frame, kind, bytes) == bytes <= message /\ bytes <= frame /\ ~(kind \in {"ping", "pong"} /\ bytes > 2)

\* trace_ids reads what with_trace_context wrote, and any other four-field header.
with_trace_context(trace, span) == <<"0", "0", "-">> \o trace \o <<"-">> \o span \o <<"-", "0", "1">>
trace_ids(s) ==
    LET f == SplitOn(s, "-")
    IN  IF Len(f) # 4 \/ f[2] = <<>> \/ f[3] = <<>> THEN <<"none">> ELSE <<f[2], f[3]>>

\* DaemonFrameCodec::decode of a buffer that holds the first n units of a stream of frames (each a header unit and a body).
DecodeFrame(lengths, n) == IF lengths = <<>> \/ n < 1 + Head(lengths) THEN 0 ELSE 1 + Head(lengths)
DecodeAll(lengths, n) ==
    LET f[k \in 0 .. Len(lengths)] ==
          LET rest == SubSeq(lengths, k + 1, Len(lengths))
              used == FoldSeq(LAMBDA x, y : x + 1 + y, 0, SubSeq(lengths, 1, k))
              c == DecodeFrame(rest, n - used)
          IN  IF c = 0 THEN k ELSE f[k + 1]
    IN  f[0]
response_to(frame) == [kind |-> "response", id |-> frame.id, protocol |-> frame.protocol, trace |-> frame.trace]

\* CacheRootKind and the sealed manifest.
KnownKinds == 1 .. 5
CacheRootKind_from_backend(v) == IF v \in KnownKinds THEN [known |-> TRUE, v |-> v] ELSE [known |-> FALSE, v |-> v]
CacheRootKind_into_backend(k) == k.v
Sealed(m) == [m EXCEPT !.seal = m.roots]
CacheManifest_build(roots) == Sealed([Sealed([roots |-> <<>>, seal |-> <<>>]) EXCEPT !.roots = [i \in 1 .. Len(roots) |-> CacheRootKind_into_backend(roots[i])]])
CacheManifest_read(m) == IF m.seal = m.roots THEN [i \in 1 .. Len(m.roots) |-> CacheRootKind_from_backend(m.roots[i])] ELSE <<[known |-> FALSE, v |-> -1]>>

\* ProbeResponder::poll: the legacy classification comes before every frame check.
ProbePoll(legacy, front) ==
    CASE legacy = "legacy" -> <<"legacy", FALSE>>
      [] legacy = "more" -> <<"more", FALSE>>
      [] front = "partial" -> <<"more", FALSE>>
      [] front = "probe" -> <<"reply", TRUE>>
      [] front = "served" -> <<"frame", TRUE>>
      [] OTHER -> <<"error", FALSE>>

\* The envelope crosses the facade field by field; unknown discriminants stay raw.
FrameFields == {"version", "kind", "protocol", "payload", "id", "encoding", "deadline", "traceparent", "tracestate"}
DaemonFrame_from_backend(f) == [k \in FrameFields |-> f[k]]
DaemonFrame_to_backend(f) == [k \in FrameFields |-> f[k]]
ProductFrame_from_backend(f) == [k \in FrameFields |-> f[k]]
kind_classification(v) == CASE v = 0 -> "request" [] v = 1 -> "response" [] v = 2 -> "event" [] v = 3 -> "cancel" [] OTHER -> v
payload_encoding_classification(v) == CASE v = 0 -> "none" [] v = 1 -> "zstd" [] v = 2 -> "snappy" [] v = 3 -> "lz4" [] OTHER -> v
\* An identity record; the endpoint keeps both its strings.
from_record(r) == [pid |-> r.pid, exe |-> r.path, hash |-> r.blake3, sha |-> r.sha256, boot |-> r.boot, ipc |-> [namespace_id |-> r.endpoint.namespace, path |-> r.endpoint.address], started |-> r.started, idle |-> r.idle]
to_record(d) == [pid |-> d.pid, path |-> d.exe, blake3 |-> d.hash, sha256 |-> d.sha, boot |-> d.boot, endpoint |-> [namespace |-> d.ipc.namespace_id, address |-> d.ipc.path], started |-> d.started, idle |-> d.idle]
\* Failures of the codec, of the mux and of the two registration formats.
DaemonFrameError_from_backend(e) == CASE e = "version" -> "unsupportedVersion" [] e = "large" -> "tooLarge" [] OTHER -> "malformedFrame"
DaemonMuxError_from_backend(e) ==
    CASE e = "version" -> "unsupportedVersion" [] e = "large" -> "tooLarge" [] e \in {"eof", "io", "decode"} -> "malformedFrame"
      [] e = "probe" -> "malformedProbe" [] e = "firstParty" -> "unexpectedFirstParty" [] OTHER -> "unserved"
manifest_error(e) ==
    CASE e = "io" -> "io" [] e = "decode" -> "malformed" [] e = "encode" -> "serialization" [] e = "corruption" -> "integrity" [] e = "schema" -> "schema"
      [] e = "name" -> "invalidName" [] e = "parent" -> "missingParent" [] OTHER -> "insecure"
service_error(e) ==
    CASE e = "io" -> "io" [] e = "decode" -> "malformed" [] e = "name" -> "invalidName" [] e = "insecure" -> "insecure" [] e = "mismatch" -> "nameMismatch"
      [] e = "path" -> "invalidPath" [] OTHER -> "invalidIsolation"
service_error_v2(e) == CASE e = "io" -> "io" [] e = "name" -> "invalidName" [] e = "insecure" -> "insecure" [] OTHER -> "invalidDefinition"
\* The two definition builders: v1 passes each label on at once, v2 keeps them in a list until build.
LabelsV1(labels) == FoldLeft(LAMBDA acc, l : [k \in DOMAIN acc \cup {l[1]} |-> IF k = l[1] THEN l[2] ELSE acc[k]], [k \in {} |-> 0], labels)
ServiceDefinitionV2_build(labels) ==
    LET keys == {labels[i][1] : i \in DOMAIN labels}
        last(k) == CHOOSE i \in DOMAIN labels : labels[i][1] = k /\ \A j \in DOMAIN labels : labels[j][1] = k => j <= i
    IN  [k \in keys |-> labels[last(k)][2]]

Roots == UNION {[1 .. n -> {CacheRootKind_from_backend(v) : v \in {0, 1, 5, 9}}] : n \in 0 .. 2}
FreshValues ==
    {[phase |-> "query", pairs |-> <<<<a, b>>, <<c, <<>>>>>>, bad |-> <<>>] : a, b \in Words, c \in {<<>>, <<"z">>}}
    \cup {[phase |-> "query", pairs |-> <<<<<<"z">>, b>>>>, bad |-> m] : b \in Words, m \in Malformed}
    \cup {[phase |-> "event", data |-> d] : d \in UNION {[1 .. n -> {"a", "cr", "lf"}] : n \in 0 .. 4}}
    \cup {[phase |-> "headers", own |-> o, handler |-> h] : o \in {<<>>, <<<<"x", 1>>>>}, h \in UNION {[1 .. n -> {<<"x", 2>>, <<"y", 2>>, <<"y", 3>>}] : n \in 0 .. 2}}
    \cup {[phase |-> "response", status |-> st, length |-> n, name |-> h] : st \in {101, 199, 200, 204, 205, 304, 500, 599, 600}, n \in 0 .. 1, h \in {"te", "upgrade", "x"}}
    \cup {[phase |-> "upgrade", r |-> [http11 |-> v, method |-> m, connection |-> c, upgrade |-> u, version |-> ver, key |-> k]]
          : v \in BOOLEAN, m \in {"GET", "POST"}, c \in {<<>>, <<<<"keep-alive", "upgrade">>>>, <<<<"keep-alive">>, <<"upgrade">>>>, <<<<"close">>>>},
            u \in {<<>>, <<<<"websocket">>>>}, ver \in {<<>>, <<"13">>, <<"8">>, <<"13", "13">>}, k \in {<<>>, <<"nonce">>, <<"short">>, <<"nonce", "nonce">>}}
    \cup {[phase |-> "message", message |-> m, frame |-> f, kind |-> k, bytes |-> b] : m, f \in 0 .. 4, k \in {"text", "ping"}, b \in 0 .. 4}
    \cup {[phase |-> "trace", trace |-> t, span |-> s] : t, s \in {<<>>, <<"a">>, <<"a", "b">>, <<"-">>}}
    \cup {[phase |-> "frames", lengths |-> l, n |-> n] : l \in UNION {[1 .. k -> 0 .. 2] : k \in 0 .. 3}, n \in 0 .. 9}
    \cup {[phase |-> "manifest", roots |-> r] : r \in Roots}
    \cup {[phase |-> "wire", f |-> [[k \in FrameFields |-> 7] EXCEPT !["kind"] = a, !["encoding"] = b]] : a, b \in 0 .. 5}
    \cup {[phase |-> "record", r |-> [pid |-> 1, path |-> 2, blake3 |-> 3, sha256 |-> z, boot |-> 5, endpoint |-> [namespace |-> 6, address |-> 7], started |-> 8, idle |-> n]] : z \in {0, 4}, n \in {-1, 9}}
    \cup {[phase |-> "errors", e |-> e] : e \in {"version", "large", "eof", "io", "decode"}}
    \cup {[phase |-> "definition", e |-> e] : e \in {"io", "decode", "name", "insecure", "mismatch", "path", "isolation"}}
    \cup {[phase |-> "manifestError", e |-> e] : e \in {"io", "decode", "encode", "corruption", "schema", "name", "parent", "insecure"}}
    \cup {[phase |-> "labels", labels |-> l] : l \in UNION {[1 .. n -> {<<k, v>> : k \in {"a", "b"}, v \in 1 .. 2}] : n \in 0 .. 3}}
    \cup {[phase |-> "probe", legacy |-> l, front |-> f] : l \in {"legacy", "not", "more"}, f \in {"partial", "probe", "served", "unserved", "foreign"}}

Init ==
    /\ facet \in {"serve", "body", "write", "client", "ident", "value"}
    /\ srv \in IF facet = "serve" THEN FreshServers ELSE {Off}
    /\ body \in IF facet = "body" THEN FreshBodies ELSE {Off}
    /\ pio \in IF facet = "write" THEN FreshProgress ELSE {Off}
    /\ cl \in IF facet = "client" THEN FreshClients ELSE {Off}
    /\ idn \in IF facet = "ident" THEN FreshIdents ELSE {Off}
    /\ value \in IF facet = "value" THEN FreshValues ELSE {Off}
Next == ServeNext \/ BodyNext \/ WriteNext \/ ClientNext \/ IdentNext
Spec == Init /\ [][Next]_vars

(***************************************************************************)
(* Properties.                                                             *)
(***************************************************************************)
\* Server::serve owns at most max_connections connection tasks, counts every
\* connection's outcome exactly once, and lets each upgrade a handler sent run
\* to its own end: only a panicking handler or the end of serve cancels one.
UpgradesRunToTheirEnd ==
    facet = "serve" =>
        LET k(c) == srv.conns[c]
            counted == {c \in Conns : k(c).at \in {"done", "joined"} /\ k(c).outcome # "none"}
        IN  /\ Cardinality(Owned(srv)) <= MaxConnections
            /\ srv.diag["accepted"] = Cardinality({c \in Conns : k(c).at # "none"})
            /\ srv.diag["completed"] + srv.diag["errors"] + srv.diag["timeouts"] = Cardinality(counted)
            /\ \A c \in Conns : \A i \in Requests :
                 /\ c \in counted => k(c).ups[i] \in {"none", "joined"} \/ (srv.at # "serving" /\ k(c).ups[i] = "none")
                 /\ k(c).ups[i] = "aborted" => srv.at # "serving" \/ k(c).outcome = "none"
                 /\ k(c).ups[i] = "use" => c \in Owned(srv) /\ k(c).socks[i] = "handed"

\* A streamed body that ends without an error has sent exactly the size it
\* declared, whatever happens to the file meanwhile; a response that fails or is
\* dropped keeps its read permit until the blocking read really returns.
BodiesKeepTheirDeclaration ==
    facet = "body" =>
        /\ \A i \in Responses :
             LET r == body.rs[i]
             IN  /\ r.at = "stream" => r.declared = r.sent + r.prefix + r.left
                 /\ r.at = "ended" /\ r.src # "events" => r.sent = r.declared
                 /\ r.sent <= r.declared
        /\ body.free + Cardinality({i \in Responses : body.rs[i].read = "run"}) = Capacity
        /\ body.prepFree + Cardinality({i \in Responses : body.rs[i].prep}) = Capacity

\* A write is reported as stalled only after write_timeout without progress since
\* an attempt had to wait, and never keeps waiting beyond it.
StallsAreReal ==
    facet = "write" =>
        /\ pio.last = "stalled" => pio.since # NoTime /\ pio.now - pio.since >= WriteTimeout
        /\ pio.last = "pending" => pio.now - pio.since < WriteTimeout

\* Over all hops of one request: at most max_redirects more requests than one,
\* all before the one deadline; application headers and a POST body go only to
\* the origin they were given for; HTTPS is never followed to plain HTTP; a body
\* delivered to the caller stays under max_body_bytes, even a lying one.
RedirectsCarryNoAuthority ==
    facet = "client" =>
        /\ Len(cl.log) <= MaxRedirects + 1
        /\ \A k \in 1 .. Len(cl.log) :
             /\ cl.log[k].now < Deadline /\ cl.log[k].url.flaw = "none" /\ cl.log[k].url.scheme # "other"
             /\ cl.log[k].hdrs # {} \/ cl.log[k].body => \A j \in 1 .. k : Origin(cl.log[j].url) = Origin(cl.log[1].url)
             /\ cl.log[k].body <=> cl.log[k].method = "POST"
             /\ \A j \in 1 .. k : cl.log[j].url.scheme = "https" => cl.log[k].url.scheme = "https"
        /\ cl.got <= MaxBody
        /\ cl.at = "reading" /\ cl.verdict = "none" => cl.got + cl.pending + cl.remaining = MaxBody
        /\ cl.at = "consumed" /\ cl.verdict = "none" => cl.eof

\* A verified daemon is one live instance: the executable that was compared is
\* the one the retained reference stands for, the retained generation names the
\* same instance, and force_kill ends no other; has_exited says so only of it.
VerifiedMeansThisInstance ==
    facet = "ident" =>
        /\ idn.at = "verified" => /\ idn.seen = idn.ref /\ idn.exe[idn.ref] = "recorded"
                                  /\ idn.control => idn.gen = idn.ref
        /\ idn.killed \subseteq {idn.ref}
        /\ idn.said = "exited" => idn.ref \notin idn.alive

\* Values: query pairs survive form encoding and a malformed field does not hide
\* the next; event data keeps its lines; a server header replaces the handler's;
\* a 1xx status or content under 204/205/304 is refused; an upgrade needs one
\* version and one key; trace ids, frames and sealed manifests read back as
\* written; nothing is consumed from a legacy connection.
ServiceValuesAgree ==
    facet = "value" =>
      CASE value.phase = "query" ->
             IF value.bad = <<>>
             THEN QueryPairs(Field(value.pairs[1]) \o <<"&", "&">> \o Field(value.pairs[2])) = value.pairs
             ELSE QueryPairs(<<"z", "=">> \o value.bad \o <<"&">> \o Field(value.pairs[1])) = <<<<"invalid">>>> \o value.pairs
        [] value.phase = "event" ->
             LET lines == encode_event(value.data)
             IN  /\ Len(lines) = LineEnds(value.data) + 1
                 /\ \A i \in 1 .. Len(lines) : \A j \in 1 .. Len(lines[i]) : lines[i][j] = "a"
                 /\ FlattenSeq(lines) = SelectSeq(value.data, LAMBDA c : c = "a")
        [] value.phase = "headers" ->
             LET m == MergeHeaders(value.own, value.handler)
                 named(n) == SelectSeq(m.headers, LAMBDA h : h[1] = n)
             IN  /\ \A i \in 1 .. Len(value.own) : named(value.own[i][1]) = <<value.own[i]>>
                 /\ headers_fit(m.headers)
                 /\ m.status = 200 => named("y") = SelectSeq(value.handler, LAMBDA h : h[1] = "y")
        [] value.phase = "response" ->
             Response_new(value.status, value.length) /\ with_header(value.name) =>
                 value.status >= 200 /\ (value.status \in {204, 205, 304} => value.length = 0) /\ value.name = "x"
        [] value.phase = "upgrade" ->
             from_request(value.r) <=> /\ value.r.http11 /\ value.r.method = "GET" /\ value.r.version = <<"13">> /\ value.r.key = <<"nonce">>
                                       /\ "upgrade" \in UNION {Range(value.r.connection[i]) : i \in DOMAIN value.r.connection}
                                       /\ value.r.upgrade # <<>>
        [] value.phase = "message" ->
             WebSocketLimits_config(value.message, value.frame) /\ validate_outgoing(value.message, value.frame, value.kind, value.bytes)
                 => value.bytes <= 3 /\ (value.kind = "ping" => value.bytes <= 2)
        [] value.phase = "trace" ->
             LET whole == value.trace \notin {<<>>, <<"-">>} /\ value.span \notin {<<>>, <<"-">>}
             IN  trace_ids(with_trace_context(value.trace, value.span)) = IF whole THEN <<value.trace, value.span>> ELSE <<"none">>
        [] value.phase = "frames" ->
             LET k == DecodeAll(value.lengths, value.n)
                 used(j) == FoldSeq(LAMBDA x, y : x + 1 + y, 0, SubSeq(value.lengths, 1, j))
             IN  used(k) <= value.n /\ (k < Len(value.lengths) => used(k + 1) > value.n)
        [] value.phase = "manifest" -> CacheManifest_read(CacheManifest_build(value.roots)) = value.roots
        [] value.phase = "probe" ->
             LET p == ProbePoll(value.legacy, value.front)
             IN  /\ value.legacy # "not" => ~p[2]
                 /\ p[2] <=> p[1] \in {"reply", "frame"}
                 /\ value.front \in {"unserved", "foreign", "partial"} => ~p[2]
        [] value.phase = "wire" ->
             LET f == DaemonFrame_from_backend(value.f)
             IN  /\ DaemonFrame_to_backend(f) = value.f /\ ProductFrame_from_backend(value.f) = f
                 /\ f["kind"] > 3 => kind_classification(f["kind"]) = value.f["kind"]
                 /\ f["encoding"] > 3 => payload_encoding_classification(f["encoding"]) = value.f["encoding"]
                 /\ response_to([id |-> f["id"], protocol |-> f["protocol"], trace |-> f["traceparent"]]).id = value.f["id"]
        [] value.phase = "record" -> to_record(from_record(value.r)) = value.r
        [] value.phase = "errors" -> DaemonMuxError_from_backend(value.e) = DaemonFrameError_from_backend(value.e)
        [] value.phase = "definition" ->
             LET a == service_error(value.e) b == service_error_v2(value.e)
             IN  (a = "io" <=> b = "io") /\ (a # b => b = "invalidDefinition")
        [] value.phase = "manifestError" -> value.e \in {"io", "decode", "name"} => manifest_error(value.e) = service_error(value.e)
        [] value.phase = "labels" -> ServiceDefinitionV2_build(value.labels) = LabelsV1(value.labels)
        [] OTHER -> TRUE
=============================================================================
