---------------------------- MODULE FileExchange ----------------------------
(***************************************************************************)
(* Publishing and reading files by name while other processes use the same *)
(* names.  Three facets, each started from its own initial states:         *)
(*                                                                         *)
(*   "replace"  moving a staged file onto its destination, with the        *)
(*              Windows retry ladder around a scanner that holds a file    *)
(*              open, and the delete-first fallback;                       *)
(*   "install"  putting a staged directory tree in place of an old one:    *)
(*              one exchange on Unix, three renames on Windows;            *)
(*   "read"     the bounded reads of a private and of a context file,      *)
(*              against writers and replacers of the path.                 *)
(*                                                                         *)
(* In the first two facets a name holds a content token; in the third it   *)
(* holds a node, whose version stands for its modification time (a write   *)
(* gives a new one).                                                       *)
(***************************************************************************)
EXTENDS Naturals, FiniteSets

CONSTANTS
    MaxBytes,       \* the caller's bound of a bounded read
    MaxWrites       \* bound: in-place writes, replacements and other moves

VARIABLES
    host,     \* "linux", "macos" or "windows"
    names,    \* path -> what it holds
    busy,     \* a scanner or indexer holds one of the files
    nodes,    \* the files of the third facet
    call,     \* the operation in progress and its result
    moves     \* bound: steps of other processes so far

vars == <<host, names, busy, nodes, call, moves>>

Hosts == {"linux", "macos", "windows"}
Attempts == 5                          \* one attempt and four delays
Replacements == {"atomic_replace", "rename_generation", "delete_fallback"}

Call(op, at) == [op |-> op, at |-> at, tries |-> 0, ok |-> FALSE, old |-> "none"]

Goto(at) == call' = [call EXCEPT !.at = at, !.tries = 0]
Return(ok) == call' = [call EXCEPT !.at = "done", !.ok = ok]

Move(from, to) == names' = [names EXCEPT ![to] = names[from], ![from] = "none"]

-----------------------------------------------------------------------------
(* Replacement.                                                            *)


(* access denied, sharing violation, or any permission error *)
is_av_scan_transient(error) == error = "share"

(* What one MoveFileExW reports; without MOVEFILE_REPLACE_EXISTING an      *)
(* existing destination is refused.                                        *)
MoveError(replace) ==
    CASE names["src"] = "none" -> "missing"
      [] names["src"] # "none" /\ busy -> "share"
      [] names["src"] # "none" /\ ~busy /\ ~replace /\ names["dst"] # "none" -> "exists"
      [] OTHER -> "none"


MayRetry(error) == call.tries < 4 /\ is_av_scan_transient(error)

(* One attempt of the ladder: success, one more delay, or the last error.  *)
move_file(replace, failed) ==
    LET error == MoveError(replace)
    IN \/ error = "none" /\ Move("src", "dst") /\ Return(TRUE)
       \/ /\ error # "none" /\ MayRetry(error)
          /\ call' = [call EXCEPT !.tries = @ + 1] /\ UNCHANGED names
       \/ /\ error # "none" /\ ~MayRetry(error)
          /\ failed /\ UNCHANGED names

(* rename(2) replaces whatever the destination holds, or fails whole. *)
LinuxRename ==
    /\ host # "windows"
    /\ IF names["src"] # "none"
       THEN (Move("src", "dst") /\ Return(TRUE)) \/ (UNCHANGED names /\ Return(FALSE))
       ELSE UNCHANGED names /\ Return(FALSE)

WinReplaceStep ==
    /\ host = "windows"
    /\ CASE call.op = "atomic_replace" -> move_file(TRUE, Return(FALSE))
         [] call.op = "rename_generation" -> move_file(FALSE, Return(FALSE))
         [] call.op = "delete_fallback" -> move_file(TRUE, Goto("fallback"))

ReplaceStep ==
    /\ call.at = "replace"
    /\ LinuxRename \/ WinReplaceStep
    /\ UNCHANGED <<host, busy, nodes, moves>>

(* After any failed replacement: the destination is deleted if it exists,  *)
(* otherwise the first error is reported.                                  *)
FallbackDelete ==
    /\ call.at = "fallback"
    /\ \/ names["dst"] = "none" /\ UNCHANGED names /\ Return(FALSE)
       \/ names["dst"] # "none" /\ busy /\ UNCHANGED names /\ Return(FALSE)
       \/ names["dst"] # "none" /\ ~busy
          /\ names' = [names EXCEPT !["dst"] = "none"] /\ Goto("rename")
    /\ UNCHANGED <<host, busy, nodes, moves>>

FallbackRename ==
    /\ call.at = "rename"
    /\ move_file(FALSE, Return(FALSE))
    /\ UNCHANGED <<host, busy, nodes, moves>>

(* A scanner opens or closes the files; another generation takes a free    *)
(* destination.                                                            *)
Scanner ==
    /\ call.at \in {"replace", "fallback", "rename"} /\ moves < MaxWrites
    /\ busy' = ~busy /\ moves' = moves + 1
    /\ UNCHANGED <<host, names, nodes, call>>

OtherGeneration ==
    /\ call.at = "rename" /\ names["dst"] = "none" /\ moves < MaxWrites
    /\ names' = [names EXCEPT !["dst"] = "other"] /\ moves' = moves + 1
    /\ UNCHANGED <<host, busy, nodes, call>>

-----------------------------------------------------------------------------
(* Directory installation.                                                 *)

(* create_dir_all(parent), then whether the requested tree exists *)
install_directory ==
    /\ call.at = "install"
    /\ \/ Return(FALSE)
       \/ names["dst"] = "none" /\ Goto("plain")
       \/ names["dst"] # "none" /\ host # "windows" /\ Goto("exchange")
       \/ names["dst"] # "none" /\ host = "windows" /\ Goto("backup")
    /\ UNCHANGED <<host, names, busy, nodes, moves>>

InstallPlain ==
    /\ call.at = "plain"
    /\ (Move("src", "dst") /\ Return(TRUE)) \/ (UNCHANGED names /\ Return(FALSE))
    /\ UNCHANGED <<host, busy, nodes, moves>>

(* renameat2(RENAME_EXCHANGE) or renamex_np(RENAME_SWAP) *)
atomic_exchange_directories ==
    /\ call.at = "exchange"
    /\ \/ UNCHANGED names /\ Return(FALSE)
       \/ /\ names' = [names EXCEPT !["src"] = names["dst"], !["dst"] = names["src"]]
          /\ Goto("remove_old")
    /\ UNCHANGED <<host, busy, nodes, moves>>

remove_directory_if_present ==
    /\ call.at \in {"remove_old", "remove_backup"}
    /\ LET left == IF call.at = "remove_old" THEN "src" ELSE "bak"
       IN \/ names' = [names EXCEPT ![left] = "none"] /\ Return(TRUE)
          \/ UNCHANGED names /\ Return(FALSE)
    /\ UNCHANGED <<host, busy, nodes, moves>>

(* The old tree is renamed aside, the new one into place; a failure tries  *)
(* to bring the old one back and reports the first error.                  *)
BackupOld ==
    /\ call.at = "backup"
    /\ (Move("dst", "bak") /\ Goto("place")) \/ (UNCHANGED names /\ Return(FALSE))
    /\ UNCHANGED <<host, busy, nodes, moves>>

install_with_backup ==
    /\ call.at = "place"
    /\ (Move("src", "dst") /\ Goto("remove_backup")) \/ (UNCHANGED names /\ Goto("rollback"))
    /\ UNCHANGED <<host, busy, nodes, moves>>

RollBack ==
    /\ call.at = "rollback"
    /\ (Move("bak", "dst") /\ Return(FALSE)) \/ (UNCHANGED names /\ Return(FALSE))
    /\ UNCHANGED <<host, busy, nodes, moves>>

-----------------------------------------------------------------------------
(* Bounded reads.  The path holds a node: 0 is nothing, 3 is a link to 1.  *)

Lengths == 0 .. MaxBytes + 2
File(kind, len, private) ==
    [kind |-> kind, len |-> len, ver |-> 0, private |-> private, readonly |-> FALSE]
Reader(op) ==
    [op |-> op, at |-> "facade", ok |-> FALSE, node |-> 0, len |-> 0, ver |-> 0,
     bytes |-> 0, seen |-> {}]

Named == names["path"]
IsFile(n) == n # 0 /\ nodes[n].kind = "file"
Resolved(n) == IF n = 3 THEN 1 ELSE n

Refused == call' = [call EXCEPT !.at = "done"]
Reading(at) == call' = [call EXCEPT !.at = at]
Check(test, at) == IF test THEN Reading(at) ELSE Refused
Quiet == UNCHANGED <<host, names, busy, nodes, moves>>

(* The facade's hard ceiling is above every bound of the model; the parent *)
(* of a private file must itself be private.                               *)
read_private_regular_file_bounded ==
    /\ call.op = "private" /\ call.at = "facade"
    /\ Reading("open") \/ Refused
    /\ Quiet

(* A link is refused before the open, and on Windows anything but a file. *)
read_context_regular_file_bounded ==
    /\ call.op = "context" /\ call.at = "facade"
    /\ Check(Named # 0 /\ (IF host = "windows" THEN IsFile(Named) ELSE Named # 3), "open")
    /\ Quiet

(* The final component is opened without following a link: Unix refuses    *)
(* one with O_NOFOLLOW, Windows opens the reparse point itself.            *)
OpenFinal ==
    /\ call.at = "open"
    /\ \/ /\ Named # 0 /\ (host = "windows" \/ Named # 3)
          /\ call' = [call EXCEPT !.at = "opened", !.node = Named]
       \/ ~(Named # 0 /\ (host = "windows" \/ Named # 3)) /\ Refused
    /\ Quiet

(* Checks on the open handle: a regular file, private to the user, within  *)
(* the limit.  A context read keeps the length and modification time.      *)
LinuxPrivateOpened(f) == f.kind = "file" /\ f.private /\ f.len <= MaxBytes
MacosPrivateOpened(f) == LinuxPrivateOpened(f)
WinPrivateOpened(f) == f.kind \notin {"link", "fifo"} /\ f.private /\ f.len <= MaxBytes
LinuxContextOpened(f) == f.kind = "file" /\ f.len <= MaxBytes
MacosContextOpened(f) == LinuxContextOpened(f)
WinContextOpened(f) == f.kind # "link" /\ f.kind = "file" /\ f.len <= MaxBytes

OpenedAccepts(f) ==
    CASE call.op = "private" /\ host = "linux" -> LinuxPrivateOpened(f)
      [] call.op = "private" /\ host = "macos" -> MacosPrivateOpened(f)
      [] call.op = "private" /\ host = "windows" -> WinPrivateOpened(f)
      [] call.op = "context" /\ host = "linux" -> LinuxContextOpened(f)
      [] call.op = "context" /\ host = "macos" -> MacosContextOpened(f)
      [] call.op = "context" /\ host = "windows" -> WinContextOpened(f)

CheckOpened ==
    /\ call.at = "opened"
    /\ LET f == nodes[call.node]
       IN IF OpenedAccepts(f)
          THEN call' = [call EXCEPT !.at = "read", !.len = f.len, !.ver = f.ver]
          ELSE Refused
    /\ Quiet

(* take(max_bytes + 1) *)
Take(bytes) == bytes < MaxBytes + 1

(* read_to_end makes several native reads, with writers in between. *)
ReadChunk ==
    /\ call.at = "read"
    /\ LET f == nodes[call.node]
       IN IF Take(call.bytes) /\ call.bytes < f.len
          THEN call' = [call EXCEPT !.bytes = @ + 1, !.seen = @ \cup {f.ver}]
          ELSE Check(call.bytes <= MaxBytes,
                     IF call.op = "private" THEN "identify" ELSE "after")
    /\ Quiet

(* identity, length and modification time before and after, and the bytes *)
Unchanged(f) == f.len = call.len /\ f.ver = call.ver /\ call.bytes = f.len

CheckAfter ==
    /\ call.at = "after"
    /\ Check(Unchanged(nodes[call.node]), "identify")
    /\ Quiet

(* The path is identified again.  A private read follows a link; Windows   *)
(* asks for write access, which a read-only file refuses.  A context read  *)
(* follows nothing.                                                        *)
PathIdentity(n) == IF n = 0 THEN 0 ELSE Resolved(n)
WinPathIdentity(n) == IF n = 0 \/ nodes[Resolved(n)].readonly THEN 0 ELSE Resolved(n)
ContextIdentity(n) == IF IsFile(n) THEN n ELSE 0

Identify ==
    /\ call.at = "identify"
    /\ LET now == CASE call.op = "context" -> ContextIdentity(Named)
                    [] call.op = "private" /\ host = "windows" -> WinPathIdentity(Named)
                    [] OTHER -> PathIdentity(Named)
       IN call' = [call EXCEPT !.at = "done", !.ok = (now = call.node)]
    /\ Quiet

(* Another process writes a file in place or puts another node at the path *)
WriteInPlace ==
    /\ call.op \in {"private", "context"} /\ call.at # "done" /\ moves < MaxWrites
    /\ \E n \in {1, 2}, len \in Lengths :
           nodes' = [nodes EXCEPT ![n].len = len, ![n].ver = @ + 1]
    /\ moves' = moves + 1
    /\ UNCHANGED <<host, names, busy, call>>

ReplacePath ==
    /\ call.op \in {"private", "context"} /\ call.at # "done" /\ moves < MaxWrites
    /\ \E n \in 0 .. 3 : names' = [names EXCEPT !["path"] = n]
    /\ moves' = moves + 1
    /\ UNCHANGED <<host, busy, nodes, call>>

-----------------------------------------------------------------------------
NoNodes == <<>>

InitReplace ==
    /\ \E src \in {"none", "new"}, dst \in {"none", "old"} :
           names = [src |-> src, dst |-> dst, bak |-> "none"]
    /\ busy \in BOOLEAN
    /\ \E op \in Replacements :
           call = [Call(op, "replace") EXCEPT !.old = names["dst"]]
    /\ nodes = NoNodes

InitInstall ==
    /\ \E dst \in {"none", "old"} : names = [src |-> "new", dst |-> dst, bak |-> "none"]
    /\ busy = FALSE
    /\ call = [Call("install", "install") EXCEPT !.old = names["dst"]]
    /\ nodes = NoNodes

InitRead ==
    /\ names = [path |-> 1]
    /\ busy = FALSE
    /\ \E len \in 0 .. MaxBytes, kind \in {"file", "fifo"}, private, other, ro \in BOOLEAN :
           nodes = <<[File("file", len, private) EXCEPT !.readonly = ro],
                     File(kind, 1, other), File("link", 0, TRUE)>>
    /\ \E op \in {"private", "context"} : call = Reader(op)

Init ==
    /\ host \in Hosts /\ moves = 0
    /\ InitReplace \/ InitInstall \/ InitRead

Next ==
    \/ ReplaceStep \/ FallbackDelete \/ FallbackRename \/ Scanner \/ OtherGeneration
    \/ install_directory \/ InstallPlain \/ atomic_exchange_directories
    \/ remove_directory_if_present \/ BackupOld \/ install_with_backup \/ RollBack
    \/ read_private_regular_file_bounded \/ read_context_regular_file_bounded \/ OpenFinal
    \/ CheckOpened \/ ReadChunk \/ CheckAfter \/ Identify \/ WriteInPlace \/ ReplacePath

Spec == Init /\ [][Next]_vars

-----------------------------------------------------------------------------
Somewhere(content) == \E p \in DOMAIN names : names[p] = content
Succeeded == call.at = "done" /\ call.ok

(* A replacement is all or nothing: until it succeeds the new content is   *)
(* at its source and only a delete-first fallback has touched the          *)
(* destination; afterwards the destination holds it.  Windows' generation  *)
(* rename never replaces.  The ladder makes at most five attempts, and     *)
(* only while the error is one a scanner causes.                           *)
ReplacementIsWhole ==
    call.op \in Replacements =>
        /\ Succeeded => names["dst"] = "new" /\ names["src"] = "none"
        /\ ~Succeeded => names["src"] # "none" \/ ~Somewhere("new")
        /\ ~Succeeded /\ call.op # "delete_fallback" => names["dst"] = call.old
        /\ call.op = "rename_generation" /\ host = "windows" /\ call.old = "old"
              => names["dst"] = "old"
        /\ call.tries < Attempts
        /\ names["src"] = "none" /\ ~Succeeded => call.tries = 0

(* A directory installation never loses a tree: the new one exists         *)
(* throughout; the old one exists until the new one is in place.  On Unix  *)
(* the requested name never stops naming a tree.  A failed installation    *)
(* leaves the old tree reachable.                                          *)
InstallKeepsATree ==
    call.op = "install" =>
        /\ Somewhere("new")
        /\ Succeeded => names = [src |-> "none", dst |-> "new", bak |-> "none"]
        /\ call.old = "old" =>
              /\ Somewhere("old") \/ (Succeeded /\ names["dst"] = "new")
              /\ host # "windows" => names["dst"] # "none"

(* A bounded read allocates at most one byte over the limit, returns only  *)
(* bytes of a regular file (a private one, if privacy was asked for), and  *)
(* a context read returns bytes that all come from one version of it, the  *)
(* one its metadata describes.                                             *)
BoundedReadIsCoherent ==
    call.op \in {"private", "context"} =>
        /\ call.bytes <= MaxBytes + 1
        /\ Succeeded =>
              /\ call.bytes <= MaxBytes /\ nodes[call.node].kind = "file"
              /\ call.op = "private" => nodes[call.node].private
              /\ call.op = "context" => call.seen \subseteq {call.ver} /\ call.bytes = call.len

=============================================================================
