----------------------------- MODULE FileWatch ------------------------------
(***************************************************************************)
(* File change notification.  The facet "windows" is the crate's own       *)
(* ReadDirectoryChangesW backend: a client that sends actions and waits    *)
(* for acknowledgements, a server thread that owns every directory handle, *)
(* completion routines that run only while that thread waits alertably,    *)
(* and a kernel that fills, overflows or refuses a read.  The facet        *)
(* "translate" is the classification of one raw notification on each host. *)
(*                                                                         *)
(* A watch is a number, in the order the server made them.  Assumed:       *)
(* CancelIo and CloseHandle succeed on a watch's own open handle.          *)
(***************************************************************************)
EXTENDS Naturals, Sequences, FiniteSets

CONSTANTS
    Paths,        \* watched paths
    MaxWatches,   \* bound: watches the server makes
    MaxCalls,     \* bound: calls of the client
    MaxChanges    \* bound: changes on disk

VARIABLES
    facet,    \* "windows" or "translate"
    client,   \* where the client's call is, its path and the calls made
    actions,  \* the action channel
    acks,     \* the acknowledgement channel
    wake,     \* the wakeup semaphore, of maximum one
    server,   \* where the server thread is, and the watches it is stopping
    watches,  \* path -> the registered watch, or 0
    ws,       \* every watch made: handle, semaphore, read and what was reported
    note      \* the raw event and its translation; the number of changes

vars == <<facet, client, actions, acks, wake, server, watches, ws, note>>

-----------------------------------------------------------------------------
(* The caller's side.                                                      *)

OnlyClient == UNCHANGED <<facet, acks, server, watches, ws, note>>

send(action, at) ==
    /\ client.at = "idle" /\ client.calls < MaxCalls
    /\ actions' = Append(actions, action) /\ wake' = 1
    /\ client' = [client EXCEPT !.at = at, !.path = action.path, !.calls = @ + 1]
    /\ OnlyClient

(* A path that is neither a file nor a directory is refused here. *)
watch(p) == send([do |-> "watch", path |-> p], "await")
unwatch(p) == send([do |-> "unwatch", path |-> p], "idle")

send_action_require_ack ==
    /\ client.at = "await" /\ acks # <<>>
    /\ acks' = Tail(acks) /\ client' = [client EXCEPT !.at = "idle"]
    /\ UNCHANGED <<facet, actions, wake, server, watches, ws, note>>

(* Drop sends Stop and then releases the wakeup semaphore. *)
DropSend ==
    /\ client.at = "idle"
    /\ actions' = Append(actions, [do |-> "stop", path |-> client.path])
    /\ client' = [client EXCEPT !.at = "dropping"]
    /\ UNCHANGED <<facet, acks, wake, server, watches, ws, note>>

wakeup_server ==
    /\ client.at = "dropping"
    /\ wake' = (IF server.at = "ended" THEN wake ELSE 1)
    /\ client' = [client EXCEPT !.at = "dropped"]
    /\ UNCHANGED <<facet, actions, acks, server, watches, ws, note>>

-----------------------------------------------------------------------------
(* One overlapped read.  `read` is "none", "pending", or the completion    *)
(* that waits for an alertable moment: "data", "overflow" or "aborted".    *)

NewWatch(p) == [path |-> p, open |-> TRUE, sem |-> 0, read |-> "none", queued |-> FALSE,
                lost |-> FALSE, told |-> FALSE, missed |-> FALSE]

(* start_read: a refused ReadDirectoryChangesW reports the lost watch,     *)
(* frees the request and releases the completion semaphore.  Changes the   *)
(* kernel kept between two reads complete the new one at once.             *)
start_read(w, issued) ==
    IF issued THEN [w EXCEPT !.read = IF w.queued THEN "data" ELSE "pending", !.queued = FALSE]
              ELSE [w EXCEPT !.read = "none", !.lost = TRUE, !.told = TRUE, !.sem = 1]

Completion(w) ==
    CASE w.read = "aborted" -> {[w EXCEPT !.read = "none", !.sem = 1]}
      [] OTHER -> {start_read(w, issued) : issued \in (IF w.open THEN BOOLEAN ELSE {FALSE})}

(* handle_event: an aborted read only releases the semaphore.  Any other   *)
(* completion re-issues the read first, then reports the overflow or the   *)
(* entries of the buffer.                                                  *)
handle_event(w) ==
    {IF w.read = "overflow" THEN [v EXCEPT !.told = TRUE] ELSE v : v \in Completion(w)}

Alertable == server.at \in {"wait", "stopping"}

(* A completion routine runs on the server thread and ends its wait. *)
RunCompletion(i) ==
    /\ Alertable /\ ws[i].read \in {"data", "overflow", "aborted"}
    /\ \E v \in handle_event(ws[i]) : ws' = [ws EXCEPT ![i] = v]
    /\ server' = [server EXCEPT !.at = IF @ = "wait" THEN "drain" ELSE @]
    /\ UNCHANGED <<facet, client, actions, acks, wake, watches, note>>

-----------------------------------------------------------------------------
(* The server thread.                                                      *)

Received(do) == server.at = "drain" /\ actions # <<>> /\ Head(actions).do = do

(* add_watch: a path that vanished, a directory that does not open and a   *)
(* semaphore that is not created all answer with an error.  An existing    *)
(* registration of the path is replaced.                                   *)
add_watch ==
    /\ Received("watch")
    /\ LET p == Head(actions).path
           id == Len(ws) + 1
       IN \/ /\ acks' = Append(acks, "error") /\ UNCHANGED <<watches, ws>>
          \/ /\ id <= MaxWatches
             /\ \E issued \in BOOLEAN : ws' = Append(ws, start_read(NewWatch(p), issued))
             /\ watches' = [watches EXCEPT ![p] = id]
             /\ acks' = Append(acks, "ok")
    /\ actions' = Tail(actions)
    /\ UNCHANGED <<facet, client, wake, server, note>>

(* stop_watch: cancel, close, then wait for the completion. *)
Cancelled(w) == [w EXCEPT !.open = FALSE, !.read = IF @ = "pending" THEN "aborted" ELSE @]

remove_watch ==
    /\ Received("unwatch")
    /\ LET p == Head(actions).path
           id == watches[p]
       IN IF id = 0
          THEN UNCHANGED <<watches, ws, server>>
          ELSE /\ watches' = [watches EXCEPT ![p] = 0]
               /\ ws' = [ws EXCEPT ![id] = Cancelled(ws[id])]
               /\ server' = [server EXCEPT !.at = "stopping", !.now = id]
    /\ actions' = Tail(actions)
    /\ UNCHANGED <<facet, client, acks, wake, note>>

Registered == {watches[p] : p \in Paths} \ {0}

(* Stop: the watches are stopped one after the other, in any order. *)
ReceiveStop ==
    /\ Received("stop")
    /\ actions' = Tail(actions)
    /\ server' = [server EXCEPT !.at = "next", !.left = Registered, !.ending = TRUE]
    /\ UNCHANGED <<facet, client, acks, wake, watches, ws, note>>

StopNext ==
    /\ server.at = "next"
    /\ \/ /\ server.left = {} /\ server' = [server EXCEPT !.at = "ended"] /\ UNCHANGED ws
       \/ \E id \in server.left :
              /\ ws' = [ws EXCEPT ![id] = Cancelled(ws[id])]
              /\ server' = [server EXCEPT !.at = "stopping", !.now = id, !.left = @ \ {id}]
    /\ UNCHANGED <<facet, client, actions, acks, wake, watches, note>>

stop_watch ==
    /\ server.at = "stopping" /\ ws[server.now].sem = 1
    /\ ws' = [ws EXCEPT ![server.now].sem = 0]
    /\ server' = [server EXCEPT !.at = IF server.ending THEN "next" ELSE "drain", !.now = 0]
    /\ UNCHANGED <<facet, client, actions, acks, wake, watches, note>>

(* run: an empty channel leads to the alertable wait, which the wakeup     *)
(* semaphore, a completion or 100 ms end.                                  *)
Drained ==
    /\ server.at = "drain" /\ actions = <<>>
    /\ server' = [server EXCEPT !.at = "wait"]
    /\ UNCHANGED <<facet, client, actions, acks, wake, watches, ws, note>>

WaitEnds ==
    /\ server.at = "wait"
    /\ server' = [server EXCEPT !.at = "drain"] /\ wake' = 0
    /\ UNCHANGED <<facet, client, actions, acks, watches, ws, note>>

(* The kernel: a change completes a pending read, is kept for the next     *)
(* one, overflows the buffer, or is seen by nobody.                        *)
Noticed(w) ==
    CASE ~w.open -> {w}
      [] w.open /\ w.read = "pending" ->
            {[w EXCEPT !.read = "data"], [w EXCEPT !.read = "overflow", !.missed = TRUE]}
      [] w.open /\ w.read \in {"data", "overflow"} -> {[w EXCEPT !.queued = TRUE]}
      [] OTHER -> {[w EXCEPT !.missed = TRUE]}

Change(p) ==
    /\ facet = "windows" /\ note.changes < MaxChanges
    /\ \E f \in [DOMAIN ws -> UNION {Noticed(ws[i]) : i \in DOMAIN ws}] :
           /\ \A i \in DOMAIN ws : IF ws[i].path = p THEN f[i] \in Noticed(ws[i]) ELSE f[i] = ws[i]
           /\ ws' = f
    /\ note' = [note EXCEPT !.changes = @ + 1]
    /\ UNCHANGED <<facet, client, actions, acks, wake, server, watches>>

-----------------------------------------------------------------------------
(* Classification.                                                         *)

RawKinds ==
    {<<"create", k>> : k \in {"file", "folder", "any"}} \cup
    {<<"remove", k>> : k \in {"file", "folder", "any"}} \cup
    {<<"name", k>> : k \in {"to", "from", "both", "any"}} \cup
    {<<"metadata", "any">>, <<"data", "any">>, <<"modify", "any">>, <<"access", "any">>, <<"any", "any">>}

EntryKind(k) == IF k = "any" THEN "Unknown" ELSE k

LinuxTranslateChange(raw) ==
    CASE raw[1] = "create" -> <<"Created", EntryKind(raw[2])>>
      [] raw[1] = "remove" -> <<"Removed", EntryKind(raw[2])>>
      [] raw[1] = "name" -> <<"NameModified", EntryKind(raw[2])>>
      [] raw[1] = "metadata" -> <<"MetadataModified", "">>
      [] raw[1] \in {"data", "modify"} -> <<"ContentModified", "">>
      [] raw[1] = "access" -> <<"Accessed", "">>
      [] OTHER -> <<"Other", "">>
MacosTranslateChange(raw) == LinuxTranslateChange(raw)

(* A queue overflow is a rescan with the watch still alive. *)
translate(raw, rescan, host) ==
    IF rescan THEN <<"RescanRequired", "alive">>
    ELSE IF host = "macos" THEN MacosTranslateChange(raw) ELSE LinuxTranslateChange(raw)

(* Windows names no entry kind; an undefined action is skipped, and so is  *)
(* another entry of the directory when a single file is watched.           *)
classify_action(action) ==
    CASE action = "old_name" -> <<"NameModified", "from">>
      [] action = "new_name" -> <<"NameModified", "to">>
      [] action = "added" -> <<"Created", "Unknown">>
      [] action = "removed" -> <<"Removed", "Unknown">>
      [] action = "modified" -> <<"ContentModified", "">>
      [] OTHER -> <<"skipped", "">>

Actions == {"old_name", "new_name", "added", "removed", "modified", "undefined"}

Deliver ==
    /\ facet = "translate" /\ note.out = <<>>
    /\ \/ \E raw \in RawKinds, rescan \in BOOLEAN, host \in {"linux", "macos"} :
              note' = [note EXCEPT !.raw = raw, !.rescan = rescan, !.out = translate(raw, rescan, host)]
       \/ \E action \in Actions, single, same \in BOOLEAN :
              note' = [note EXCEPT !.raw = <<action, IF single /\ ~same THEN "other" ELSE "self">>,
                          !.out = IF single /\ ~same THEN <<"skipped", "">>
                                  ELSE classify_action(action)]
    /\ UNCHANGED <<facet, client, actions, acks, wake, server, watches, ws>>

-----------------------------------------------------------------------------
Init ==
    /\ facet \in {"windows", "translate"}
    /\ client = [at |-> "idle", path |-> CHOOSE p \in Paths : TRUE, calls |-> 0]
    /\ actions = <<>> /\ acks = <<>> /\ wake = 0
    /\ server = [at |-> "drain", now |-> 0, left |-> {}, ending |-> FALSE]
    /\ watches = [p \in Paths |-> 0] /\ ws = <<>>
    /\ note = [changes |-> 0, raw |-> <<>>, rescan |-> FALSE, out |-> <<>>]

NextWindows ==
    /\ facet = "windows"
    /\ \/ \E p \in Paths : watch(p) \/ unwatch(p) \/ Change(p)
       \/ send_action_require_ack \/ DropSend \/ wakeup_server
       \/ \E i \in DOMAIN ws : RunCompletion(i)
       \/ add_watch \/ remove_watch \/ ReceiveStop \/ StopNext \/ stop_watch
       \/ Drained \/ WaitEnds

Next == NextWindows \/ Deliver

Spec == Init /\ [][Next]_vars

-----------------------------------------------------------------------------
(* A watch that looks alive tells the truth: while its handle is open,     *)
(* changes it missed (an overflow, or no read outstanding) were reported   *)
(* as a required rescan or are about to be, and a watch with no read       *)
(* outstanding was reported lost.                                          *)
LossIsReported ==
    \A i \in DOMAIN ws : ws[i].open =>
        /\ ws[i].missed => ws[i].told \/ ws[i].read = "overflow"
        /\ ws[i].read = "none" => ws[i].lost

(* Stopping a watch never waits for a completion that will not come: the   *)
(* semaphore is released or a completion is queued for the alertable wait. *)
StopNeverHangs ==
    server.at = "stopping" =>
        ws[server.now].sem = 1 \/ ws[server.now].read \in {"data", "overflow", "aborted"}

(* A required rescan is never delivered as an ordinary change, and only a  *)
(* change that mutates nothing is delivered as an access or not at all.    *)
TranslationKeepsMeaning ==
    note.out # <<>> =>
        /\ note.rescan => note.out[1] = "RescanRequired"
        /\ note.out[1] = "Accessed" => note.raw[1] = "access"
        /\ note.out[1] = "skipped" => note.raw[1] = "undefined" \/ note.raw[2] = "other"

=============================================================================
