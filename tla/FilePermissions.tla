--------------------------- MODULE FilePermissions ---------------------------
(***************************************************************************)
(* Who may write a file or a directory.  Three facets of the file facade,  *)
(* each started from its own initial states:                               *)
(*                                                                         *)
(*   "file"  the permission operations on one cached artifact: the         *)
(*           read-only toggle, the execute bits, a captured mode and its   *)
(*           restoration, and the write seal (mode bits on Unix, a deny    *)
(*           ACE on Windows);                                              *)
(*   "dirs"  creating a private directory with its missing parent and      *)
(*           tightening it, while another account races for the names;     *)
(*   "make"  creating a private file, whose ownership and DACL are set on  *)
(*           the open handle, while another account renames it.            *)
(*                                                                         *)
(* A Unix mode is the set of its write and execute bits.  A Windows file   *)
(* has the READONLY attribute and a DACL, a sequence of ACEs or null, on a *)
(* volume that may not carry ACLs at all.                                  *)
(***************************************************************************)
EXTENDS Naturals, Sequences

VARIABLES
    host,      \* "linux", "macos" or "windows"
    facet,     \* "file", "dirs" or "make"
    file,      \* the artifact of the first facet
    saved,     \* a captured metadata mode, or none
    before,    \* what each account could do before the file was sealed
    last,      \* the last permission operation and its answer
    dirs,      \* the two directories of the second facet
    call,      \* the private-directory or private-file call in progress
    made       \* the file of the third facet

vars == <<host, facet, file, saved, before, last, dirs, call, made>>

Hosts == {"linux", "macos", "windows"}

WriteBits == {"uw", "gw", "ow"}
ExecBits == {"ux", "gx", "ox"}
Rights == {"read", "write", "append"}
Accounts == {"owner", "group", "other"}

Idle == [at |-> "idle", ok |-> FALSE, target |-> 0, seen |-> FALSE]
NoFile == [exists |-> FALSE]
Untracked == <<>>

-----------------------------------------------------------------------------
(* Unix mode bits.  The kernel applies only the owner bits to the owner,   *)
(* only the group bits to a group member, and the last to everyone else.   *)

LinuxReadonlyAttribute(mode) == mode \cap WriteBits = {}

LinuxSetReadonly(mode, readonly) ==
    IF readonly THEN mode \ WriteBits ELSE mode \union {"uw"}

LinuxDenyInPlaceWrites(mode) == (mode \ {"uw"}) \union {"gw"}

LinuxAllowInPlaceWrites(mode) ==
    IF "uw" \in mode THEN mode ELSE (mode \union {"uw"}) \ {"gw"}

LinuxInPlaceWritesDenied(mode) == "uw" \notin mode

LinuxMakeExecutable(mode) == mode \union ExecBits

LinuxMakeOwnerExecutable(mode) == mode \union {"ux"}

MacosDenyInPlaceWrites(mode) == LinuxDenyInPlaceWrites(mode)
MacosAllowInPlaceWrites(mode) == LinuxAllowInPlaceWrites(mode)
MacosSetReadonly(mode, readonly) == LinuxSetReadonly(mode, readonly)

UnixAccess(mode) ==
    [a \in Accounts |->
        {"read"} \union
        IF (CASE a = "owner" -> "uw" [] a = "group" -> "gw" [] OTHER -> "ow") \in mode
        THEN {"write", "append"} ELSE {}]

-----------------------------------------------------------------------------
(* Windows DACLs.                                                          *)

Ace(deny, rights, who) == [deny |-> deny, rights |-> rights, who |-> who]

SEAL_RIGHTS == {"write", "append"}

SealAce == Ace(TRUE, SEAL_RIGHTS, "world")
AllowAll(who) == Ace(FALSE, Rights, who)

(* deny type, exactly the sealed rights, World trustee: matched by         *)
(* structure, never by spelling                                            *)
is_seal_ace(ace) == ace = SealAce

has_seal(aces) == \E i \in DOMAIN aces : is_seal_ace(aces[i])

(* An absent or null DACL is reported as an empty standing ACL plus a flag. *)
read_dacl(f) == [aces |-> IF f.null THEN <<>> ELSE f.dacl, null |-> f.null]

(* The deny ACE goes first, a null DACL keeps granting through a trailing  *)
(* allow-all, and every other ACE is kept in its order.                    *)
rebuild_with_seal(aces, null, seal) ==
    (IF seal THEN <<SealAce>> ELSE <<>>) \o
    (IF seal /\ null THEN <<AllowAll("world")>> ELSE <<>>) \o
    SelectSeq(aces, LAMBDA ace : ~is_seal_ace(ace))

(* A volume without ACLs reports success and keeps nothing. *)
set_dacl(f, aces) ==
    IF f.acls THEN [f EXCEPT !.dacl = aces, !.null = FALSE] ELSE f

WinSetReadonly(f, readonly) == [f EXCEPT !.readonly = readonly]

SealWrite(f) ==
    LET d == read_dacl(f)
    IN IF has_seal(d.aces) THEN f ELSE set_dacl(f, rebuild_with_seal(d.aces, d.null, TRUE))

SealRemove(f) ==
    LET d == read_dacl(f)
    IN IF has_seal(d.aces) THEN set_dacl(f, rebuild_with_seal(d.aces, d.null, FALSE)) ELSE f

SealPresent(f) == has_seal(read_dacl(f).aces)

(* A legacy READONLY seal is cleared first, then the ACE is installed and  *)
(* read back.                                                              *)
WinDenyInPlaceWrites(f) ==
    LET g == SealWrite(WinSetReadonly(f, FALSE)) IN [file |-> g, ok |-> SealPresent(g)]

WinAllowInPlaceWrites(f) == WinSetReadonly(SealRemove(f), FALSE)

WinInPlaceWritesDenied(f) == SealPresent(f) \/ f.readonly

(* The system's access check: for each right the first ACE that names the  *)
(* account and the right decides; no ACE means no access; a null DACL      *)
(* grants everything; READONLY denies the writes.                          *)
Granted(f, who, right) ==
    LET Names(ace) == ace.who \in {"world", who} /\ right \in ace.rights
        hits == {i \in DOMAIN f.dacl : Names(f.dacl[i])}
    IN /\ right # "read" => ~f.readonly
       /\ \/ f.null
          \/ /\ hits # {}
             /\ ~f.dacl[CHOOSE i \in hits : \A j \in hits : i <= j].deny

WinAccess(f) == [a \in Accounts |-> {r \in Rights : Granted(f, a, r)}]

-----------------------------------------------------------------------------
(* The facade's permission operations.                                     *)

Access(f) == IF host = "windows" THEN WinAccess(f) ELSE UnixAccess(f.mode)

(* what each account could do but for a legacy READONLY attribute, which    *)
(* both the seal and its removal clear                                     *)
Standing(f) == Access(IF host = "windows" THEN WinSetReadonly(f, FALSE) ELSE f)

readonly(f) == IF host = "windows" THEN f.readonly ELSE LinuxReadonlyAttribute(f.mode)

in_place_writes_denied(f) ==
    IF host = "windows" THEN WinInPlaceWritesDenied(f) ELSE LinuxInPlaceWritesDenied(f.mode)

(* The full Unix mode, or the Windows readonly attribute as 0 or 1. *)
metadata_mode(f) ==
    IF host = "windows" THEN IF f.readonly THEN 1 ELSE 0 ELSE f.mode

Answer(op, ok) == last' = [op |-> op, ok |-> ok]

Unchanged3 == UNCHANGED <<host, facet, dirs, call, made>>

set_readonly(flag) ==
    /\ facet = "file"
    /\ file' = CASE host = "windows" -> WinSetReadonly(file, flag)
                 [] host = "linux" -> [file EXCEPT !.mode = LinuxSetReadonly(@, flag)]
                 [] host = "macos" -> [file EXCEPT !.mode = MacosSetReadonly(@, flag)]
    /\ Answer("set_readonly", TRUE)
    /\ before' = Untracked
    /\ UNCHANGED saved /\ Unchanged3

make_executable(all) ==
    /\ facet = "file"
    /\ file' = IF host = "windows" THEN file
               ELSE [file EXCEPT !.mode = IF all THEN LinuxMakeExecutable(@)
                                          ELSE LinuxMakeOwnerExecutable(@)]
    /\ Answer("make_executable", TRUE)
    /\ UNCHANGED <<saved, before>> /\ Unchanged3

capture_metadata_mode ==
    /\ facet = "file" /\ saved = <<>>
    /\ saved' = <<metadata_mode(file)>>
    /\ Answer("metadata_mode", TRUE)
    /\ UNCHANGED <<file, before>> /\ Unchanged3

apply_metadata_mode ==
    /\ facet = "file" /\ saved # <<>>
    /\ file' = IF host = "windows" THEN WinSetReadonly(file, saved[1] # 0)
               ELSE [file EXCEPT !.mode = saved[1]]
    /\ saved' = <<>>
    /\ Answer("apply_metadata_mode", TRUE)
    /\ before' = Untracked
    /\ Unchanged3

deny_in_place_writes ==
    /\ facet = "file"
    /\ LET win == WinDenyInPlaceWrites(file)
       IN /\ file' = CASE host = "windows" -> win.file
                       [] host = "linux" -> [file EXCEPT !.mode = LinuxDenyInPlaceWrites(@)]
                       [] host = "macos" -> [file EXCEPT !.mode = MacosDenyInPlaceWrites(@)]
          /\ Answer("deny", host # "windows" \/ win.ok)
    /\ before' = IF in_place_writes_denied(file) THEN before ELSE Standing(file)
    /\ UNCHANGED saved /\ Unchanged3

allow_in_place_writes ==
    /\ facet = "file"
    /\ file' = CASE host = "windows" -> WinAllowInPlaceWrites(file)
                 [] host = "linux" -> [file EXCEPT !.mode = LinuxAllowInPlaceWrites(@)]
                 [] host = "macos" -> [file EXCEPT !.mode = MacosAllowInPlaceWrites(@)]
    /\ Answer("allow", TRUE)
    /\ UNCHANGED <<saved, before>> /\ Unchanged3

-----------------------------------------------------------------------------
(* Private directories.  Path 2 lies in path 1, whose parent hands down an *)
(* exposed ACL.  A second creator of the same product may win either name  *)
(* with the plain call, which inherits.  A volume may not keep permissions.*)

ALLOWED_TRUSTEES == {"SY", "BA"}

InheritedTrustees == {"self", "SY", "BU"}

(* Trustees are compared as SIDs: the alias of the account itself counts.  *)
trustee_is_self_or_admin(trustee) == trustee \in {"self", "LA"} \union ALLOWED_TRUSTEES

(* protected from inheritance, and no trustee but the user, SYSTEM and     *)
(* Administrators                                                          *)
is_owner_only(perm) ==
    perm.protected /\ \A trustee \in perm.trustees : trustee_is_self_or_admin(trustee)

(* The account's own SID is rendered by its alias on some machines. *)
owner_only_sddl == [protected |-> TRUE, trustees |-> {"LA", "SY"}]

LinuxExposed(perm) == "sticky" \notin perm /\ perm \cap {"gw", "ow"} # {}

Exposed(perm) == IF host = "windows" THEN ~is_owner_only(perm) ELSE LinuxExposed(perm)

PrivatePerm == IF host = "windows" THEN owner_only_sddl ELSE {}

Inherited == IF host = "windows" THEN [protected |-> FALSE, trustees |-> InheritedTrustees]
             ELSE {"gw", "ow"}

Dir(by, perm) == [exists |-> TRUE, by |-> by, perm |-> perm]

Ready(i) == dirs.d[i].exists

(* mkdir(2) and CreateDirectoryW receive the permissions themselves. *)
create_dir_with_dacl(i) ==
    [dirs EXCEPT !.d[i] = Dir("us", IF dirs.keeps THEN PrivatePerm ELSE Inherited)]

(* The parent first; a directory that exists, or that another creator made *)
(* in between, is accepted as it is.                                       *)
create_dir_all_private ==
    /\ facet = "dirs" /\ call.at = "create"
    /\ dirs' = IF Ready(call.target) THEN dirs ELSE create_dir_with_dacl(call.target)
    /\ call' = IF call.target = 1 THEN [call EXCEPT !.target = 2]
               ELSE [call EXCEPT !.at = "observe"]
    /\ UNCHANGED <<host, facet, file, saved, before, last, made>>

(* metadata(), then the mode or the DACL as it stands *)
ensure_observe ==
    /\ facet = "dirs" /\ call.at = "observe"
    /\ call' = IF Exposed(dirs.d[2].perm) THEN [call EXCEPT !.at = "apply"]
               ELSE [call EXCEPT !.at = "done", !.ok = TRUE]
    /\ UNCHANGED <<host, facet, file, saved, before, last, dirs, made>>

(* set_permissions(0o700) or apply_dacl: success is reported either way *)
apply_dacl ==
    /\ facet = "dirs" /\ call.at = "apply"
    /\ dirs' = IF dirs.keeps THEN [dirs EXCEPT !.d[2].perm = PrivatePerm] ELSE dirs
    /\ call' = [call EXCEPT !.at = "verify"]
    /\ UNCHANGED <<host, facet, file, saved, before, last, made>>

(* Read back rather than trusting the write. *)
ensure_verify ==
    /\ facet = "dirs" /\ call.at = "verify"
    /\ call' = [call EXCEPT !.at = "done", !.ok = ~Exposed(dirs.d[2].perm)]
    /\ UNCHANGED <<host, facet, file, saved, before, last, dirs, made>>

(* Another creator takes a missing name with the plain call. *)
OtherCreates(i) ==
    /\ facet = "dirs" /\ ~Ready(i) /\ (i = 2 => Ready(1))
    /\ dirs' = [dirs EXCEPT !.d[i] = Dir("other", Inherited)]
    /\ UNCHANGED <<host, facet, file, saved, before, last, call, made>>

-----------------------------------------------------------------------------
(* Private files.  `ours` is where the file created by the call is, and    *)
(* `theirs` whether another file now has the name.                         *)

LinuxCreatePrivateFile ==
    /\ facet = "make" /\ host # "windows" /\ call.at = "open"
    /\ IF made.theirs
       THEN call' = [call EXCEPT !.at = "done"] /\ made' = made
       ELSE /\ call' = [call EXCEPT !.at = "done", !.ok = TRUE]
            /\ made' = [made EXCEPT !.ours = "path", !.private = TRUE, !.owned = TRUE]
    /\ UNCHANGED <<host, facet, file, saved, before, last, dirs>>

(* create_new with WRITE_OWNER, WRITE_DAC and DELETE access *)
WinCreateNew ==
    /\ facet = "make" /\ host = "windows" /\ call.at = "open"
    /\ IF made.theirs
       THEN call' = [call EXCEPT !.at = "done"] /\ made' = made
       ELSE /\ call' = [call EXCEPT !.at = "owner"]
            /\ made' = [made EXCEPT !.ours = "path"]
    /\ UNCHANGED <<host, facet, file, saved, before, last, dirs>>

(* The deletion is bound to the handle, wherever the file was renamed to. *)
delete_file_on_close == [made EXCEPT !.ours = "gone"]

(* Ownership, then the DACL, on this handle; either failure marks the file *)
(* for deletion, ignores whether that worked, and reports the error.       *)
WinProtect ==
    /\ facet = "make" /\ call.at \in {"owner", "dacl"}
    /\ \/ /\ call.at = "owner"
          /\ call' = [call EXCEPT !.at = "dacl"]
          /\ made' = [made EXCEPT !.owned = TRUE]
       \/ /\ call.at = "dacl"
          /\ call' = [call EXCEPT !.at = "done", !.ok = TRUE]
          /\ made' = [made EXCEPT !.private = TRUE]
       \/ \E deleted \in BOOLEAN :
            /\ call' = [call EXCEPT !.at = "done", !.seen = deleted]
            /\ made' = IF deleted THEN delete_file_on_close ELSE made
    /\ UNCHANGED <<host, facet, file, saved, before, last, dirs>>

(* Someone renames the new file away and takes the name. *)
OtherRenames ==
    /\ facet = "make" /\ made.ours = "path" /\ ~made.theirs
    /\ made' = [made EXCEPT !.ours = "moved", !.theirs = TRUE, !.placed = TRUE]
    /\ UNCHANGED <<host, facet, file, saved, before, last, dirs, call>>

-----------------------------------------------------------------------------

FileStates(h) ==
    IF h = "windows"
    THEN [readonly : BOOLEAN, null : {TRUE}, dacl : {<<>>}, acls : BOOLEAN]
         \union
         [readonly : BOOLEAN, null : {FALSE}, acls : {TRUE},
          dacl : {<<AllowAll("world")>>,
                  <<AllowAll("owner"), Ace(FALSE, {"read"}, "world")>>,
                  <<Ace(TRUE, {"write"}, "group"), AllowAll("world")>>,
                  <<Ace(TRUE, SEAL_RIGHTS, "other"), AllowAll("world")>>,
                  <<SealAce, AllowAll("owner")>>}]
    ELSE [mode : SUBSET (WriteBits \union ExecBits)]

DirPerms(h) ==
    IF h = "windows"
    THEN {[protected |-> p, trustees |-> t] : p \in BOOLEAN,
          t \in {{"self", "SY"}, {"LA", "SY", "BA"}, InheritedTrustees}}
    ELSE {{}, {"gw"}, {"gw", "ow"}, {"gw", "ow", "sticky"}}

NoDir == [exists |-> FALSE, by |-> "none", perm |-> {}]
NoDirs == [d |-> <<NoDir, NoDir>>, keeps |-> TRUE]
NoMade == [ours |-> "none", theirs |-> FALSE, placed |-> FALSE, private |-> FALSE,
           owned |-> FALSE]

InitFile ==
    /\ facet = "file" /\ file \in FileStates(host)
    /\ dirs = NoDirs /\ call = Idle /\ made = NoMade

InitDirs ==
    /\ facet = "dirs" /\ file = NoFile /\ made = NoMade
    /\ \E keeps \in BOOLEAN :
         \/ dirs = [d |-> <<NoDir, NoDir>>, keeps |-> keeps]
         \/ \E p \in DirPerms(host) :
              dirs = [d |-> <<Dir("old", p), NoDir>>, keeps |-> keeps]
         \/ \E p, q \in DirPerms(host) :
              dirs = [d |-> <<Dir("old", p), Dir("old", q)>>, keeps |-> keeps]
    /\ call = [Idle EXCEPT !.at = "create", !.target = 1]

InitMake ==
    /\ facet = "make" /\ file = NoFile /\ dirs = NoDirs
    /\ \E theirs \in BOOLEAN : made = [NoMade EXCEPT !.theirs = theirs, !.placed = theirs]
    /\ call = [Idle EXCEPT !.at = "open"]

Init ==
    /\ host \in Hosts
    /\ saved = <<>> /\ before = Untracked /\ last = [op |-> "none", ok |-> TRUE]
    /\ InitFile \/ InitDirs \/ InitMake

Next ==
    \/ \E flag \in BOOLEAN : set_readonly(flag) \/ make_executable(flag)
    \/ capture_metadata_mode \/ apply_metadata_mode
    \/ deny_in_place_writes \/ allow_in_place_writes
    \/ create_dir_all_private \/ ensure_observe \/ apply_dacl \/ ensure_verify
    \/ \E i \in 1..2 : OtherCreates(i)
    \/ LinuxCreatePrivateFile \/ WinCreateNew \/ WinProtect \/ OtherRenames

Spec == Init /\ [][Next]_vars

-----------------------------------------------------------------------------

(* After a seal that reported success the owner cannot write in place, the *)
(* file does not look read-only to a compiler that checks its outputs, the *)
(* observation agrees, everyone who could read still can, and on Windows   *)
(* no account at all can write.                                            *)
SealIsEffective ==
    (facet = "file" /\ last.op = "deny" /\ last.ok) =>
        /\ in_place_writes_denied(file) /\ ~readonly(file)
        /\ \A a \in Accounts :
             /\ before # Untracked =>
                    ("read" \in before[a] => "read" \in Access(file)[a])
             /\ (a = "owner" \/ host = "windows") =>
                    Access(file)[a] \cap {"write", "append"} = {}

(* Removing a seal never leaves an account with more than it had before    *)
(* the file was sealed; the owner alone may gain writing, which is what    *)
(* the removal is for.                                                     *)
UnsealGrantsNoMore ==
    (facet = "file" /\ last.op = "allow" /\ before # Untracked) =>
        \A a \in Accounts :
            Access(file)[a] \subseteq
                before[a] \union (IF a = "owner" THEN {"write", "append"} ELSE {})

(* A directory that ensure_dir_private accepted is not writable by others  *)
(* (sticky shared roots excepted by design), whoever created it and        *)
(* whether or not the volume keeps permissions; and a directory this call  *)
(* created was never exposed, not even before it was tightened.            *)
PrivateDirectoryHolds ==
    facet = "dirs" =>
        /\ (call.at = "done" /\ call.ok) => ~Exposed(dirs.d[2].perm)
        /\ \A i \in 1..2 :
             (dirs.d[i].by = "us" /\ dirs.keeps) => ~Exposed(dirs.d[i].perm)

(* create_private_file never opens a file that was there before, hands out *)
(* only a file that is owned by the user and private, and when it fails    *)
(* after creating it the file that disappears is its own, wherever it has  *)
(* been renamed to.                                                        *)
PrivateFileIsOurs ==
    facet = "make" =>
        /\ made.placed => made.theirs
        /\ (call.at = "done" /\ call.ok) => made.owned /\ made.private
        /\ (call.at = "done" /\ call.seen) => made.ours = "gone"

=============================================================================
