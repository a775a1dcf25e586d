------------------------------ MODULE LocalIpc ------------------------------
(***************************************************************************)
(* Local interprocess communication.  Six independent parts, one per       *)
(* behaviour (`facet`), each with a record of its own:                     *)
(*   relay    a session relayed between two sockets, by splice on Linux    *)
(*            and by buffers elsewhere or as the fallback;                 *)
(*   handoff  an accepted connection transferred to a backend process;     *)
(*   name     servers that take over, inherit and leave an endpoint name;  *)
(*   dir      the owner-private directory of an endpoint;                  *)
(*   stream   an asynchronous stream read and written through its facade;  *)
(*   broker   the broker client's escape hatch, routes and refusals.       *)
(* The kernel and the transport crate are external: their outcomes are     *)
(* chosen freely among those the code tells apart.                         *)
(***************************************************************************)
EXTENDS Integers, Sequences, FiniteSets, SequencesExt

CONSTANTS MaxBytes,     \* bytes a peer sends in one direction
          MaxPayload,   \* bytes of a sideband payload
          MaxMoves,     \* environment moves on names and directories
          MaxPath,      \* the endpoint name field of the host, in bytes
          Radix         \* 2^7 of a varint digit

VARIABLES facet, host, relay, handoff, name, dir, stream, broker

vars == <<facet, host, relay, handoff, name, dir, stream, broker>>

Hosts == {"linux", "macos", "windows"}
Unix == {"linux", "macos"}
Off == [phase |-> "off"]
Others(f) ==
    /\ UNCHANGED <<facet, host>>
    /\ IF f = "relay" THEN TRUE ELSE UNCHANGED relay
    /\ IF f = "handoff" THEN TRUE ELSE UNCHANGED handoff
    /\ IF f = "name" THEN TRUE ELSE UNCHANGED name
    /\ IF f = "dir" THEN TRUE ELSE UNCHANGED dir
    /\ IF f = "stream" THEN TRUE ELSE UNCHANGED stream
    /\ IF f = "broker" THEN TRUE ELSE UNCHANGED broker

(***************************************************************************)
(* The session relay.  A direction holds the unread bytes of its source,   *)
(* the bytes in its private pipe and what its destination received.        *)
(***************************************************************************)
Directions == {"client_to_daemon", "daemon_to_client"}
FreshDirection == [sent |-> 0, closed |-> FALSE, src |-> <<>>, pipe |-> <<>>, out |-> <<>>,
                   shut |-> FALSE, done |-> FALSE]

PeerSends(d) ==
    /\ facet = "relay" /\ ~relay.dirs[d].closed /\ relay.dirs[d].sent < MaxBytes
    /\ relay' = [relay EXCEPT !.dirs[d].sent = @ + 1, !.dirs[d].src = Append(@, relay.dirs[d].sent + 1)]
    /\ Others("relay")
PeerCloses(d) ==
    /\ facet = "relay" /\ ~relay.dirs[d].closed
    /\ relay' = [relay EXCEPT !.dirs[d].closed = TRUE]
    /\ Others("relay")

\* Both directions duplicate their descriptors and make their pipes before
\* either moves a byte; a failure releases them and falls back.
Prepare ==
    /\ facet = "relay" /\ relay.phase = "prepare" /\ host = "linux"
    /\ \E p \in {"splice", "buffered"} : relay' = [relay EXCEPT !.phase = p]
    /\ Others("relay")
\* The other hosts relay through buffers from the start.
PrepareBuffered ==
    /\ facet = "relay" /\ relay.phase = "prepare" /\ host # "linux"
    /\ relay' = [relay EXCEPT !.phase = "buffered"]
    /\ Others("relay")

Running(d) == facet = "relay" /\ relay.phase = "splice" /\ ~relay.dirs[d].done
MoveIn(d, k) ==
    [relay EXCEPT !.dirs[d].pipe = SubSeq(relay.dirs[d].src, 1, k),
                  !.dirs[d].src = SubSeq(@, k + 1, Len(@))]
\* Source bytes live in the private pipe: the splice path is committed.
SpliceIn(d) ==
    /\ Running(d) /\ relay.dirs[d].pipe = <<>>
    /\ \E k \in 1..Len(relay.dirs[d].src) : relay' = [MoveIn(d, k) EXCEPT !.committed = TRUE]
    /\ Others("relay")
SpliceOut(d) ==
    /\ Running(d)
    /\ \E k \in 1..Len(relay.dirs[d].pipe) :
          relay' = [relay EXCEPT !.dirs[d].out = @ \o SubSeq(relay.dirs[d].pipe, 1, k),
                                 !.dirs[d].pipe = SubSeq(@, k + 1, Len(@))]
    /\ Others("relay")

\* The end of a direction; the session ends when both have.
Finish(r, d) ==
    LET q == [r EXCEPT !.dirs[d].done = TRUE, !.dirs[d].shut = TRUE]
    IN  IF \A e \in Directions : q.dirs[e].done THEN [q EXCEPT !.phase = "ok"] ELSE q
AtEof(d) == relay.dirs[d].src = <<>> /\ relay.dirs[d].closed

\* A successful observation of the end commits as well: the shutdown that
\* follows is visible to the peer.  It may fail on its own.
SpliceEof(d) ==
    /\ Running(d) /\ relay.dirs[d].pipe = <<>> /\ AtEof(d)
    /\ LET r == [relay EXCEPT !.committed = TRUE]
       IN  relay' \in {Finish(r, d), [r EXCEPT !.phase = "err"]}
    /\ Others("relay")

\* try_join! drops the other direction at once.  Before anything was moved the
\* original halves still hold every byte and the buffered copy takes over.
SpliceFails(d) ==
    /\ Running(d)
    /\ relay' = IF relay.committed THEN [relay EXCEPT !.phase = "err"]
                ELSE [relay EXCEPT !.phase = "buffered", !.dirs[d].pipe = <<>>]
    /\ Others("relay")

CopyOneWay(d) ==
    /\ facet = "relay" /\ relay.phase = "buffered" /\ ~relay.dirs[d].done
    /\ \/ \E k \in 1..Len(relay.dirs[d].src) :
             relay' = [relay EXCEPT !.dirs[d].out = @ \o SubSeq(relay.dirs[d].src, 1, k),
                                    !.dirs[d].src = SubSeq(@, k + 1, Len(@))]
       \/ AtEof(d) /\ relay' = Finish(relay, d)
       \/ relay' = [relay EXCEPT !.phase = "err"]
    /\ Others("relay")

(***************************************************************************)
(* The handoff of an accepted connection.  `reached` says that the backend *)
(* holds a duplicate; `offer` that the caller's later message arrived.     *)
(***************************************************************************)
HandoffError(kind, may) == [ok |-> FALSE, kind |-> kind, may |-> may, adopt |-> FALSE]
HandoffOk(adopt) == [ok |-> TRUE, kind |-> "", may |-> TRUE, adopt |-> adopt]

\* sendmsg: an error, or the number of bytes taken.  The descriptor travels
\* with the first byte.  EMSGSIZE means a saturated queue on macOS.
legacy_send_error_kind_linux(errno) ==
    CASE errno \in {"EACCES", "EPERM"} -> "PermissionDenied"
      [] errno \in {"EAGAIN", "ENOBUFS"} -> "WouldBlock"
      [] errno \in {"ECONNREFUSED", "ECONNRESET", "EPIPE", "ENOTCONN"} -> "BackendUnavailable"
      [] OTHER -> "Failed"
legacy_send_error_kind_macos(errno) ==
    IF errno = "EMSGSIZE" THEN "WouldBlock" ELSE legacy_send_error_kind_linux(errno)
legacy_send_error_kind(errno) ==
    IF host = "macos" THEN legacy_send_error_kind_macos(errno) ELSE legacy_send_error_kind_linux(errno)
Errnos == {"EACCES", "EAGAIN", "EMSGSIZE", "EPIPE", "EBADF"}
\* Every result is [err, transferred]: transferred = -1 without partial counts.
legacy_send_fd_over_linux(payload) ==
    IF payload = 0 THEN {[err |-> "Failed", transferred |-> -1]}
    ELSE {[err |-> legacy_send_error_kind(e), transferred |-> -1] : e \in Errnos}
         \cup {[err |-> IF n = payload THEN "" ELSE "Failed", transferred |-> n] : n \in 0..payload}
legacy_send_fd_over_macos(payload) == legacy_send_fd_over_linux(payload)
legacy_send_fd_over(payload) ==
    IF host = "macos" THEN legacy_send_fd_over_macos(payload) ELSE legacy_send_fd_over_linux(payload)
legacy_connect_error(errno) ==
    CASE errno \in {"EACCES", "EPERM"} -> "PermissionDenied"
      [] errno = "EAGAIN" -> "WouldBlock"
      [] OTHER -> "BackendUnavailable"
legacy_send_fd_to(payload) ==
    {[err |-> legacy_connect_error(e), transferred |-> -1] : e \in Errnos} \cup legacy_send_fd_over(payload)

send_connection_with_payload(r) ==
    IF r.err = "" THEN HandoffOk(TRUE) ELSE HandoffError(r.err, r.transferred > 0)
send_connection_with_payload_macos(r) == send_connection_with_payload(r)

TransferUnix ==
    /\ facet = "handoff" /\ handoff.phase = "holding" /\ host \in Unix
    /\ \E r \in legacy_send_fd_over(handoff.payload) \cup legacy_send_fd_to(handoff.payload) :
          handoff' = [handoff EXCEPT !.phase = "answered", !.reached = r.transferred > 0,
                                     !.result = IF host = "macos" THEN send_connection_with_payload_macos(r)
                                                ELSE send_connection_with_payload(r)]
    /\ Others("handoff")

\* OpenProcess, then DuplicateHandle; the process handle is closed in between.
legacy_duplicate_handle ==
    {[err |-> k, dup |-> FALSE] : k \in {"PermissionDenied", "BackendUnavailable", "Failed"}}
    \cup {[err |-> "", dup |-> TRUE]}
TransferWindows ==
    /\ facet = "handoff" /\ handoff.phase = "holding" /\ host = "windows"
    /\ \E r \in legacy_duplicate_handle :
          handoff' = [handoff EXCEPT !.phase = "answered", !.reached = r.dup,
                                     !.result = IF r.err = "" THEN HandoffOk(FALSE)
                                                ELSE HandoffError(r.err, FALSE)]
    /\ Others("handoff")

\* The caller (external): after a success it sends its offer, which may be
\* lost; it serves the connection itself whenever the answers allow it.
Offer ==
    /\ facet = "handoff" /\ handoff.phase = "answered" /\ handoff.result.ok
    /\ \E arrives \in BOOLEAN :
          handoff' = [handoff EXCEPT !.phase = "offered", !.offer = arrives,
                                     !.lost = ~arrives]
    /\ Others("handoff")
Proxy ==
    /\ facet = "handoff" /\ ~handoff.proxied
    /\ \/ handoff.phase = "answered" /\ ~handoff.result.ok /\ ~handoff.result.may
       \/ handoff.phase = "offered" /\ handoff.lost /\ ~handoff.result.adopt
    /\ handoff' = [handoff EXCEPT !.proxied = TRUE]
    /\ Others("handoff")
\* A Unix backend has the descriptor and its token; a Windows backend learns
\* the handle's value from the offer.
Adopt ==
    /\ facet = "handoff" /\ handoff.reached /\ ~handoff.adopted
    /\ host \in Unix \/ handoff.offer
    /\ handoff' = [handoff EXCEPT !.adopted = TRUE]
    /\ Others("handoff")

\* append_unsigned_varint: little-endian digits, all but the last marked.
Digits(v) == CHOOSE n \in 1..(v + 1) : v < Radix^n /\ (n = 1 \/ v >= Radix^(n - 1))
append_unsigned_varint(v) ==
    [i \in 1..Digits(v) |-> [digit |-> (v \div Radix^(i - 1)) % Radix, more |-> i < Digits(v)]]
DecodeVarint(s) == FoldFunctionOnSet(+, 0, [i \in DOMAIN s |-> s[i].digit * Radix^(i - 1)], DOMAIN s)

(***************************************************************************)
(* Endpoint names.  `node` is what the address names: nothing, an ordinary *)
(* file, or the socket of a server.  A server that takes the address over  *)
(* probes, retires and binds while it holds the caller's lock (external:   *)
(* the owner-private parent directory keeps everyone else away).           *)
(***************************************************************************)
Servers == {1, 2}
NoNode == 0
PlainFile == 3
FreshServer == [pc |-> "idle", listens |-> FALSE, reclaim |-> FALSE, cloexec |-> TRUE,
                child |-> "none", disowned |-> FALSE]
Server(s) == name.servers[s]
Live(s) == Server(s).listens \/ Server(s).child \in {"inherits", "serves"}
SetServer(n, s, r) == [n EXCEPT !.servers[s] = r]

\* One connect attempt, classified; "unknown" is every other failure.
Answers == IF name.node \in Servers /\ Live(name.node) THEN {"connected", "unknown"}
           ELSE IF name.node = NoNode THEN {"NotFound", "unknown"}
           ELSE {"refused", "unknown"}
probe_server_instance(answer) ==
    CASE answer \in {"NotFound", "refused"} -> "absent"
      [] answer = "connected" -> "present"
      [] OTHER -> "error"
is_stale_unix(answer) == answer \in {"NotFound", "refused"}
is_stale_windows(answer) == probe_server_instance(answer) = "absent"
is_stale_macos(answer) == is_stale_unix(answer)
is_stale(answer) == CASE host = "windows" -> is_stale_windows(answer)
                      [] host = "macos" -> is_stale_macos(answer)
                      [] OTHER -> is_stale_unix(answer)
target_exists_windows == name.node \in Servers /\ Live(name.node)
target_exists_unix == name.node # NoNode
target_exists == IF host = "windows" THEN target_exists_windows ELSE target_exists_unix

Probe(s) ==
    /\ facet = "name" /\ Server(s).pc = "idle" /\ ~Live(s) /\ name.lock = 0
    /\ \E a \in Answers :
          name' = [SetServer(name, s, [Server(s) EXCEPT !.pc = IF is_stale(a) THEN "stale" ELSE "idle"])
                     EXCEPT !.lock = IF is_stale(a) THEN s ELSE 0, !.moves = @ + 1]
    /\ name.moves < MaxMoves
    /\ Others("name")

\* retire: the name is unlinked; NotFound counts as done.  A named pipe
\* leaves nothing behind.
Unlink(n, s) ==
    [n EXCEPT !.node = IF host = "windows" THEN @ ELSE NoNode,
              !.removed = @ \/ (host # "windows" /\ n.node \in Servers \ {s} /\ Live(n.node))]
retire(s) ==
    /\ facet = "name" /\ Server(s).pc = "stale"
    /\ name' = Unlink(SetServer(name, s, [Server(s) EXCEPT !.pc = "retired"]), s)
    /\ Others("name")
\* retire_socket_endpoint inspects first and refuses anything but a socket.
retire_socket_endpoint(s) ==
    /\ facet = "name" /\ Server(s).pc = "stale"
    /\ name' = IF name.node = PlainFile /\ host # "windows"
               THEN [SetServer(name, s, [Server(s) EXCEPT !.pc = "idle"]) EXCEPT !.lock = 0]
               ELSE Unlink(SetServer(name, s, [Server(s) EXCEPT !.pc = "retired"]), s)
    /\ Others("name")

\* Binding never replaces a name: it needs a free one.  The listener removes
\* its name when dropped if `reclaim` was asked for.
bind_with_options(s, reclaim) ==
    /\ facet = "name" /\ Server(s).pc = "retired"
    /\ name' = IF ~target_exists
               THEN [SetServer(name, s, [FreshServer EXCEPT !.pc = "serving", !.listens = TRUE,
                                                            !.reclaim = reclaim])
                       EXCEPT !.node = s, !.lock = 0]
               ELSE [SetServer(name, s, [Server(s) EXCEPT !.pc = "idle"]) EXCEPT !.lock = 0]
    /\ Others("name")

\* bind_owner_only checks the parent first: a real directory of the current
\* user with mode 0700.  macOS restricts the socket's mode afterwards and drops
\* the listener, which reclaims its name, when that fails.
Parents == {"missing", "private", "shared", "foreign", "symlink"}
prepare_owner_private_parent(parent) == parent \in {"missing", "private"}
bind_owner_only(s) ==
    /\ facet = "name" /\ Server(s).pc = "retired" /\ host # "windows"
    /\ \E parent \in Parents, chmod \in (IF host = "macos" THEN BOOLEAN ELSE {TRUE}) :
          name' = IF prepare_owner_private_parent(parent) /\ ~target_exists /\ chmod
                  THEN [SetServer(name, s, [FreshServer EXCEPT !.pc = "serving", !.listens = TRUE,
                                                               !.reclaim = TRUE])
                          EXCEPT !.node = s, !.lock = 0]
                  ELSE [SetServer(name, s, [Server(s) EXCEPT !.pc = "idle"]) EXCEPT !.lock = 0]
    /\ Others("name")

\* A pathname listener of its own: the name survives its drop, and a failed
\* chmod leaves the name behind.
LocalSocketListener_bind_owner_only(s) ==
    /\ facet = "name" /\ Server(s).pc = "retired" /\ host # "windows"
    /\ \E chmod \in BOOLEAN :
          name' = IF target_exists
                  THEN [SetServer(name, s, [Server(s) EXCEPT !.pc = "idle"]) EXCEPT !.lock = 0]
                  ELSE [SetServer(name, s, [FreshServer EXCEPT !.pc = IF chmod THEN "serving" ELSE "idle",
                                                               !.listens = chmod])
                          EXCEPT !.node = s, !.lock = 0]
    /\ Others("name")
\* One pipe instance with a protected DACL; asking to be the first fails
\* while another instance has the name.
OwnerOnlyPipeInstance_create(s) ==
    /\ facet = "name" /\ Server(s).pc = "retired" /\ host = "windows"
    /\ name' = IF target_exists
               THEN [SetServer(name, s, [Server(s) EXCEPT !.pc = "idle"]) EXCEPT !.lock = 0]
               ELSE [SetServer(name, s, [FreshServer EXCEPT !.pc = "serving", !.listens = TRUE])
                       EXCEPT !.node = s, !.lock = 0]
    /\ Others("name")

\* prepare clears close-on-exec and tells the child the number; the spawned
\* child (external) then holds the same socket.
prepare(s) ==
    /\ facet = "name" /\ host \in Unix /\ Server(s).listens /\ Server(s).child = "none"
    /\ name' = SetServer(name, s, [Server(s) EXCEPT !.cloexec = FALSE, !.child = "inherits"])
    /\ Others("name")
DisownNothing(s) ==
    /\ facet = "name" /\ Server(s).listens /\ Server(s).child # "none" /\ ~Server(s).disowned
    /\ name' = SetServer(name, s, [Server(s) EXCEPT !.disowned = TRUE])
    /\ Others("name")
disown_endpoint(s) ==
    /\ facet = "name" /\ Server(s).listens /\ Server(s).child # "none" /\ ~Server(s).disowned
    /\ name' = SetServer(name, s, [Server(s) EXCEPT !.disowned = TRUE, !.reclaim = FALSE])
    /\ Others("name")
\* The child reads the number from its environment; a malformed or a
\* non-listening descriptor is refused.  A recovered listener reclaims nothing.
parse_descriptor(raw) == raw = "number"
is_listening_socket(kind) == kind = "listener"
recover_from_env_linux(raw, kind) ==
    IF parse_descriptor(raw) /\ is_listening_socket(kind) THEN "serves" ELSE "gone"
recover_from_env_macos(raw, kind) == recover_from_env_linux(raw, kind)
recover_from_env(s) ==
    /\ facet = "name" /\ Server(s).child = "inherits"
    /\ \E raw \in {"number", "garbage"}, kind \in {"listener", "other"} :
          name' = SetServer(name, s,
                    [Server(s) EXCEPT !.child = IF host = "macos" THEN recover_from_env_macos(raw, kind)
                                                ELSE recover_from_env_linux(raw, kind)])
    /\ Others("name")

\* Dropping a listener that reclaims unlinks whatever the name is then.
DropListener(s) ==
    /\ facet = "name" /\ Server(s).listens
    /\ LET n == SetServer(name, s, [Server(s) EXCEPT !.pc = "idle", !.listens = FALSE])
       IN  name' = IF Server(s).reclaim /\ host \in Unix THEN Unlink(n, s) ELSE n
    /\ Others("name")
\* A crash closes every descriptor and unlinks nothing.
ServerDies(s) ==
    /\ facet = "name" /\ name.moves < MaxMoves /\ (Server(s).listens \/ Server(s).child = "serves")
    /\ name' = [SetServer(name, s, IF Server(s).listens
                                   THEN [Server(s) EXCEPT !.pc = "idle", !.listens = FALSE, !.reclaim = FALSE]
                                   ELSE [Server(s) EXCEPT !.child = "gone"])
                  EXCEPT !.moves = @ + 1]
    /\ Others("name")

\* The address of the broker: a directory and a leaf.  macOS folds every name
\* to a hash of fixed length; a socket address keeps a byte for its NUL.
LeafLength(bare) == IF host = "macos" THEN 2 ELSE bare
ipc_broker_v1_endpoint_path_unix(directory, bare) ==
    LET len == directory + LeafLength(bare)
    IN  IF len >= MaxPath THEN [err |-> TRUE, len |-> len, max |-> MaxPath - 1]
        ELSE [err |-> FALSE, len |-> len, max |-> MaxPath - 1]
ipc_broker_v1_endpoint_path_win(prefix, bare) ==
    LET len == prefix + bare
    IN  [err |-> len > MaxPath, len |-> len, max |-> MaxPath]
ipc_endpoint_name_limit == MaxPath

(***************************************************************************)
(* The owner-private directory.  The path names one of two directories and *)
(* may be moved to the other between any two steps; a handle stays with    *)
(* the directory it was opened on.  `ours` marks the directories to which  *)
(* the call wrote its DACL.                                                *)
(***************************************************************************)
Dirs == {1, 2}
Kinds == [owner : {"user", "group"}, exact : BOOLEAN, protected : BOOLEAN]
owner_private_directory_win(d) ==
    dir.obj[d].protected /\ dir.obj[d].owner = "user" /\ dir.obj[d].exact
owner_private_directory_unix(d) == dir.obj[d].exact
owner_private_directory(d) ==
    IF host = "windows" THEN owner_private_directory_win(d) ELSE owner_private_directory_unix(d)
opened_owner_is_current_user(d) == dir.obj[d].owner = "user"

AtDir(pc) == facet = "dir" /\ dir.phase = pc
DirFails(pc) == AtDir(pc) /\ dir' = [dir EXCEPT !.phase = "err"] /\ Others("dir")
MovePath ==
    /\ facet = "dir" /\ dir.phase \notin {"already", "hardened", "err"} /\ dir.moves < MaxMoves
    /\ dir' = [dir EXCEPT !.path = 3 - @, !.moves = @ + 1]
    /\ Others("dir")

\* A warm check keeps an exact policy as it is; its failure is not an error.
CheckPrivate ==
    /\ AtDir("check")
    /\ dir' = [dir EXCEPT !.phase = IF host = "windows" /\ owner_private_directory(dir.path)
                                    THEN "already" ELSE "open", !.at = dir.path]
    /\ Others("dir")
\* Unix: chmod 0700 by path, then look again.
SetMode ==
    /\ AtDir("open") /\ host \in Unix
    /\ \/ dir' = [dir EXCEPT !.phase = "verify", !.obj[dir.path].exact = TRUE]
       \/ dir' = [dir EXCEPT !.phase = "err"]
    /\ Others("dir")
open_directory_for_dacl_update ==
    /\ AtDir("open") /\ host = "windows"
    /\ dir' = [dir EXCEPT !.handle = dir.path, !.phase = "owner"]
    /\ Others("dir")
CheckOwner ==
    /\ AtDir("owner")
    /\ dir' = [dir EXCEPT !.phase = IF opened_owner_is_current_user(dir.handle) THEN "dacl" ELSE "reopen"]
    /\ Others("dir")
\* The first inspection carries no authority across the reopen.
open_directory_for_owner_and_dacl_update ==
    /\ AtDir("reopen")
    /\ dir' = [dir EXCEPT !.handle = dir.path, !.phase = "recheck"]
    /\ Others("dir")
apply_current_user_owner ==
    /\ AtDir("recheck")
    /\ dir' = [dir EXCEPT !.obj[dir.handle].owner = "user", !.phase = "dacl"]
    /\ Others("dir")
\* SetSecurityInfo on the handle that was inspected, with a protected DACL.
apply_dacl_sddl ==
    /\ AtDir("dacl")
    /\ dir' = [dir EXCEPT !.obj[dir.handle].exact = TRUE, !.obj[dir.handle].protected = TRUE,
                          !.ours = @ \cup {dir.handle}, !.phase = "verify"]
    /\ Others("dir")
Verify ==
    /\ AtDir("verify")
    /\ dir' = [dir EXCEPT !.phase = IF owner_private_directory(dir.path) THEN "hardened" ELSE "err",
                          !.at = dir.path]
    /\ Others("dir")
DirStep ==
    \/ CheckPrivate \/ SetMode \/ open_directory_for_dacl_update \/ CheckOwner
    \/ open_directory_for_owner_and_dacl_update \/ apply_current_user_owner \/ apply_dacl_sddl \/ Verify
    \/ \E pc \in {"open", "owner", "reopen", "recheck", "dacl", "verify"} : DirFails(pc)

\* An opened file's DACL, entry by entry: exactly the user's and then the
\* system's full control, each direct or inherited from a private directory.
Aces == [sid : {"user", "system", "other"}, kind : {"allow", "callback"},
         flags : {"none", "inherited", "inherited_oici", "oici"}, full : BOOLEAN]
exact_full_control_ace(ace, principal) ==
    /\ ace.kind = "allow" /\ ace.flags \in {"none", "inherited", "inherited_oici"}
    /\ ace.full /\ ace.sid = principal
dacl_is_exact_user_system_file_policy(dacl) ==
    /\ Len(dacl) = 2
    /\ exact_full_control_ace(dacl[1], "user") /\ exact_full_control_ace(dacl[2], "system")
Grants(dacl, principal) == \E i \in DOMAIN dacl : dacl[i].sid = principal /\ dacl[i].full

(***************************************************************************)
(* The asynchronous stream: `wire` are the bytes in flight, `want` what    *)
(* read_exact still needs, `todo` what write_all still has to write.       *)
(***************************************************************************)
StreamIs(pc) == facet = "stream" /\ stream.phase = pc
WriteAll ==
    /\ StreamIs("open") /\ stream.todo # <<>>
    /\ \E k \in 1..Len(stream.todo) :
          stream' = [stream EXCEPT !.wire = @ \o SubSeq(stream.todo, 1, k),
                                   !.todo = SubSeq(@, k + 1, Len(@))]
    /\ Others("stream")
Shutdown ==
    /\ StreamIs("open") /\ ~stream.shut
    /\ stream' = [stream EXCEPT !.shut = TRUE, !.todo = <<>>]
    /\ Others("stream")
ReadExact ==
    /\ StreamIs("open") /\ stream.want > 0
    /\ \/ \E k \in 1..(IF stream.want < Len(stream.wire) THEN stream.want ELSE Len(stream.wire)) :
             stream' = [stream EXCEPT !.got = @ \o SubSeq(stream.wire, 1, k), !.want = @ - k,
                                      !.wire = SubSeq(@, k + 1, Len(@)),
                                      !.phase = IF stream.want = k THEN "filled" ELSE "open"]
       \/ stream.wire = <<>> /\ stream.shut /\ stream' = [stream EXCEPT !.phase = "UnexpectedEof"]
    /\ Others("stream")

(***************************************************************************)
(* The broker client.                                                      *)
(***************************************************************************)
Codes == <<"Unspecified", "VersionUnsupported", "ServiceUnknown", "BackendSpawnFailed", "RateLimited",
           "ShuttingDown", "PeerRejected", "Internal", "VersionBlocked", "FdPressure">>
from_wire(code) == IF code + 1 \in DOMAIN Codes THEN [code |-> Codes[code + 1], raw |-> 0]
                   ELSE [code |-> "Unrecognized", raw |-> code]
to_wire(c) == IF c.code = "Unrecognized" THEN c.raw ELSE (CHOOSE i \in DOMAIN Codes : Codes[i] = c.code) - 1
from_code(c) == IF c.code \in {"VersionUnsupported", "VersionBlocked", "ServiceUnknown", "RateLimited",
                               "ShuttingDown"} THEN c.code ELSE "Other"
broker_disabled(env) == IF env = "unset" THEN "no" ELSE IF env = "1" THEN "yes" ELSE "invalid"

client_error(e) ==
    CASE e.kind = "Refused" -> [kind |-> "Refused", code |-> from_wire(e.wire)]
      [] e.kind \in {"BrokerConnect", "BackendConnect"} -> [kind |-> e.kind, code |-> from_wire(0)]
      [] OTHER -> [kind |-> "Protocol", code |-> from_wire(0)]
NoCode == from_wire(0)
Done(r, dialed) == [broker EXCEPT !.phase = "done", !.result = r, !.dialed = dialed]

\* The substrate (external) tries a cached endpoint first when the versions
\* match, then asks the broker; the facade renames its answer.
Replies == {[kind |-> "Refused", wire |-> w] : w \in {-1, 0, 4, 9, 10}}
           \cup {[kind |-> k, wire |-> 0] : k \in {"BrokerConnect", "BackendConnect", "Malformed"}}
Routes == {"HelloSkip", "BrokerNegotiated", "HandlePassed"}
route(r) == r
connect_backend ==
    /\ facet = "broker" /\ broker.phase = "start"
    /\ \/ /\ broker_disabled(broker.env) = "invalid"
          /\ broker' = Done([kind |-> "InvalidDisableValue", code |-> NoCode], FALSE)
       \/ /\ broker_disabled(broker.env) = "yes"
          /\ broker' = Done([kind |-> "Disabled", code |-> NoCode], FALSE)
       \/ /\ broker_disabled(broker.env) = "no"
          /\ \/ \E e \in Replies : broker' = [Done(client_error(e), TRUE) EXCEPT !.wire = e.wire]
             \/ \E r \in Routes : broker' = Done([kind |-> route(r), code |-> NoCode], TRUE)
    /\ Others("broker")

(***************************************************************************)
(* The specification.                                                      *)
(***************************************************************************)
\* Inputs of the pure functions: a handle value, an address, and a file's DACL.
Values ==
    {[phase |-> "varint", v |-> v] : v \in 0..(Radix * Radix)}
    \cup {[phase |-> "address", directory |-> d, bare |-> b] : d, b \in 0..MaxPath}
    \cup {[phase |-> "dacl", dacl |-> <<a, b>>] : a, b \in Aces} \cup {[phase |-> "dacl", dacl |-> <<a>>] : a \in Aces}

RelayInit == [phase |-> "prepare", committed |-> FALSE, dirs |-> [d \in Directions |-> FreshDirection]]
HandoffInit(p) ==
    [phase |-> "holding", payload |-> p, reached |-> FALSE, result |-> HandoffError("", FALSE),
     offer |-> FALSE, lost |-> FALSE, proxied |-> FALSE, adopted |-> FALSE]
NameInit(n) == [phase |-> "on", node |-> n, lock |-> 0, moves |-> 0, removed |-> FALSE,
                servers |-> [s \in Servers |-> FreshServer]]
DirInit(k) == [phase |-> "check", obj |-> k, path |-> 1, handle |-> 1, at |-> 1, ours |-> {}, moves |-> 0]
StreamInit(w) == [phase |-> "open", todo |-> [i \in 1..MaxBytes |-> i], wire |-> <<>>, want |-> w,
                  asked |-> w, got |-> <<>>, shut |-> FALSE]
BrokerInit(e) == [phase |-> "start", env |-> e, dialed |-> FALSE, wire |-> 0,
                  result |-> [kind |-> "none", code |-> NoCode]]
Init ==
    /\ facet \in {"relay", "handoff", "name", "dir", "stream", "broker"} /\ host \in Hosts
    /\ relay = IF facet = "relay" THEN RelayInit ELSE Off
    /\ handoff \in IF facet = "handoff" THEN {HandoffInit(p) : p \in 0..MaxPayload} ELSE {Off}
    /\ name \in IF facet = "name" THEN {NameInit(n) : n \in {NoNode, PlainFile}} ELSE {Off}
    /\ dir \in IF facet = "dir" THEN {DirInit(k) : k \in [Dirs -> Kinds]} ELSE {Off}
    /\ stream \in IF facet = "stream" THEN {StreamInit(w) : w \in 1..MaxBytes} ELSE {Off}
    /\ broker \in IF facet = "broker" THEN {BrokerInit(e) : e \in {"unset", "1", "other"}} \cup Values
                   ELSE {Off}

Next ==
    \/ \E d \in Directions : \/ PeerSends(d) \/ PeerCloses(d) \/ SpliceIn(d) \/ SpliceOut(d)
                             \/ SpliceEof(d) \/ SpliceFails(d) \/ CopyOneWay(d)
    \/ Prepare \/ PrepareBuffered
    \/ TransferUnix \/ TransferWindows \/ Offer \/ Proxy \/ Adopt
    \/ \E s \in Servers : \/ Probe(s) \/ retire(s) \/ retire_socket_endpoint(s) \/ prepare(s)
                          \/ disown_endpoint(s) \/ recover_from_env(s) \/ DropListener(s) \/ ServerDies(s)
                          \/ bind_owner_only(s) \/ LocalSocketListener_bind_owner_only(s)
                          \/ OwnerOnlyPipeInstance_create(s)
                          \/ \E r \in BOOLEAN : bind_with_options(s, r)
    \/ MovePath \/ DirStep
    \/ WriteAll \/ Shutdown \/ ReadExact
    \/ connect_backend
Spec == Init /\ [][Next]_vars

(***************************************************************************)
(* Properties.                                                             *)
(***************************************************************************)
InOrder(seq) == \A i \in DOMAIN seq : seq[i] = i

\* Whatever mixture of splices, errors and fallback a session goes through, a
\* destination receives a prefix of what the peer sent, in order, without a gap
\* or a repetition; its end of stream and the session's success come only after
\* every byte (Direction::run, relay_local_socket_session).
RelayKeepsBytes ==
    facet = "relay" =>
        \A d \in Directions :
            LET r == relay.dirs[d]
            IN  /\ InOrder(r.out)
                /\ r.shut => r.closed /\ Len(r.out) = r.sent
                /\ relay.phase = "ok" => r.shut

\* A connection has one server: the broker never serves it while the backend
\* may have adopted it, although a partial transfer is reported as an error and
\* an offer may be lost (send_connection_with_payload, HandoffAttachment).
HandoffHasOneOwner ==
    facet = "handoff" => ~(handoff.proxied /\ handoff.adopted)

\* Servers that probe, retire and bind under the caller's lock never take the
\* name of a server that is still listening, and the name of a disowned
\* listener stays with the child that inherited it when the parent goes
\* (Endpoint::is_stale, Endpoint::retire, InheritedListener).
LiveNameIsKept ==
    facet = "name" =>
        /\ ~name.removed
        /\ \A s \in Servers : Server(s).child \in {"inherits", "serves"} /\ Server(s).disowned => name.node = s
        /\ \A s \in Servers : Server(s).listens => name.node = s

\* A directory that received the private DACL is owned by the token's user,
\* although the path may be moved between inspection and change, and a call
\* that reports success saw the whole policy on the named directory
\* (apply_dacl_sddl, ensure_owner_private_directory).
DaclFollowsOwner ==
    facet = "dir" =>
        /\ \A d \in dir.ours : dir.obj[d].owner = "user" /\ dir.obj[d].protected
        /\ dir.phase \in {"already", "hardened"} => owner_private_directory(dir.at)

\* read_exact succeeds with exactly the bytes asked for, in order, and fails
\* only when the peer ended before them; a disabled broker is never dialed, and
\* a refusal code survives the facade's renaming (AsyncStream, connect_backend).
FacadeKeepsMeaning ==
    /\ facet = "stream" =>
           /\ InOrder(stream.got)
           /\ stream.phase = "filled" => Len(stream.got) = stream.asked
           /\ stream.phase = "UnexpectedEof" => stream.shut /\ Len(stream.got) < stream.asked
    /\ facet = "broker" /\ broker.phase \in {"start", "done"} =>
           /\ broker.dialed => broker.env = "unset"
           /\ broker.result.kind = "Refused" =>
                  /\ to_wire(broker.result.code) = broker.wire
                  /\ from_code(broker.result.code) = "RateLimited" <=> broker.wire = 4

\* A transferred handle value survives its varint; a derived address fits the
\* host's field with its terminator exactly when it is not refused; a file that
\* passes as private grants full control to the user and the system and nothing
\* to anyone else (append_unsigned_varint, ipc_broker_v1_endpoint_path,
\* dacl_is_exact_user_system_file_policy).
Address(b) == IF host = "windows" THEN ipc_broker_v1_endpoint_path_win(b.directory, b.bare)
              ELSE ipc_broker_v1_endpoint_path_unix(b.directory, b.bare)
ValuesAgree ==
    facet = "broker" =>
        CASE broker.phase = "varint" ->
                 LET s == append_unsigned_varint(broker.v)
                 IN  DecodeVarint(s) = broker.v /\ \A i \in DOMAIN s : s[i].more <=> i < Len(s)
          [] broker.phase = "address" ->
                 LET a == Address(broker)
                 IN  /\ a.err <=> a.len > a.max
                     /\ ~a.err => a.len + (IF host = "windows" THEN 0 ELSE 1) <= ipc_endpoint_name_limit
          [] broker.phase = "dacl" ->
                 dacl_is_exact_user_system_file_policy(broker.dacl) =>
                     /\ Grants(broker.dacl, "user") /\ Grants(broker.dacl, "system")
                     /\ \A i \in DOMAIN broker.dacl : broker.dacl[i].sid # "other"
          [] OTHER -> TRUE
=============================================================================
