------------------------------ MODULE Archives ------------------------------
(***************************************************************************)
(* Bounded archive extraction (src/archive.rs, src/archive/tar_format.rs).  *)
(*                                                                         *)
(* An archive is not drawn beforehand: every header, chunk and trailing    *)
(* block is chosen when it is read, so a run explores every archive whose   *)
(* records come from the sets below.  The tar and zip backends are outside  *)
(* the repository: a tar entry is what the guard let through, a zip entry   *)
(* carries the size it declares and the bytes it really inflates to.       *)
(*                                                                         *)
(*   "extract"  one extraction from opening the source to its return, or   *)
(*              (at = "parents") only its last part, the installation of   *)
(*              the links, over every small tree and link graph;           *)
(*   "value"    the pure functions, on each of their inputs.               *)
(*                                                                         *)
(* A path is a sequence of components; the empty one is the destination.   *)
(* The 512-byte tar block is Block units, and the ceilings are constants.  *)
(***************************************************************************)
EXTENDS Integers, Sequences, FiniteSets, SequencesExt, FiniteSetsExt

CONSTANTS
    MaxOutput, MaxEntry, MaxEntries, MaxMetadata, MaxPath, MaxSteps,   \* ExtractionLimits
    MaxDepth,       \* the 64 nested links of resolve_link_path
    MaxExtension    \* the 64 KiB of one tar extension record

VARIABLES facet, ex, value

vars == <<facet, ex, value>>

Block == 2
Buffer == 2                 \* the 64 KiB copy buffer
None == -1

Dir == [kind |-> "dir", bytes |-> 0, target |-> <<>>, slash |-> FALSE]
File(n) == [Dir EXCEPT !.kind = "file", !.bytes = n]
Parent(p) == SubSeq(p, 1, Len(p) - 1)
Ancestors(p) == {SubSeq(p, 1, k) : k \in 1 .. Len(p)}

-----------------------------------------------------------------------------
(* Paths and the destination.                                              *)

(* A name is a sequence of components as spelled: "." and ".." are what    *)
(* they say, "/" first is an absolute name, "x:" holds a refused character. *)
relative_path(name) ==
    IF Len(name) > MaxPath \/ "x:" \in ToSet(name) \/ ToSet(name) \cap {"..", "/"} # {} THEN <<>>
    ELSE SelectSeq(name, LAMBDA c : c # ".")

(* Absent or an empty real directory; the first is created. *)
prepare_destination(dest) == dest \in {"absent", "empty"}

Exists(tree, p) == p = <<>> \/ p \in DOMAIN tree
IsDir(tree, p) == p = <<>> \/ (p \in DOMAIN tree /\ tree[p].kind = "dir")

(* create_dir_all: fails where a prefix is there and is not a directory. *)
CanMake(tree, p) == \A q \in Ancestors(p) : Exists(tree, q) => IsDir(tree, q)
MakeDirs(tree, p) ==
    [q \in DOMAIN tree \cup Ancestors(p) |-> IF q \in DOMAIN tree THEN tree[q] ELSE Dir]

Put(tree, p, node) == [q \in DOMAIN tree \cup {p} |-> IF q = p THEN node ELSE tree[q]]

-----------------------------------------------------------------------------
(* The link graph, resolved before any link exists on disk.                *)

Unresolved(steps) == [ok |-> FALSE, path |-> <<>>, steps |-> steps]

RECURSIVE resolve_link_path(_, _, _, _, _, _)
(* The components after `resolved` in turn; `links` maps a path to its     *)
(* target, whether it ends in a separator, and whether it is a hard link.  *)
RECURSIVE Walk(_, _, _, _, _, _)
Walk(tree, links, resolved, rest, depth, steps) ==
    IF rest = <<>> THEN [ok |-> TRUE, path |-> resolved, steps |-> steps]
    ELSE LET c == Head(rest)
             next == Append(resolved, c)
             Go(r, n) == Walk(tree, links, r, Tail(rest), depth, n)
         IN  IF steps = 0 \/ c = "/" \/ (c # "." /\ ~IsDir(tree, resolved)) THEN Unresolved(steps)
             ELSE IF c = "." THEN Go(resolved, steps - 1)
             ELSE IF c = ".." THEN IF resolved = <<>> THEN Unresolved(steps) ELSE Go(Parent(resolved), steps - 1)
             ELSE IF next \notin DOMAIN links THEN Go(next, steps - 1)
             ELSE LET l == links[next]
                      r == resolve_link_path(tree, links, (IF l.hard THEN <<>> ELSE resolved) \o l.target, l.slash, depth + 1, steps - 1)
                  IN  IF r.ok THEN Go(r.path, r.steps) ELSE r
resolve_link_path(tree, links, path, slash, depth, steps) ==
    IF depth > MaxDepth THEN Unresolved(steps)
    ELSE LET r == Walk(tree, links, <<>>, path, depth, steps)
         IN  IF r.ok /\ slash /\ ~IsDir(tree, r.path) THEN Unresolved(r.steps) ELSE r

(* As if each target were judged by its own spelling. *)
LinkHoldsAlone(tree, links, policy, p) ==
    LET r == resolve_link_path(tree, [q \in {} |-> Dir], (IF links[p].hard THEN <<>> ELSE Parent(p)) \o links[p].target, FALSE, 0, MaxSteps)
    IN  ~Exists(tree, p) /\ r.ok
(* One link of install_links: where it leads, or why it is refused. *)
LinkHolds(tree, links, policy, p) ==
    LET r == resolve_link_path(tree, links, p, FALSE, 0, MaxSteps)
    IN  /\ ~Exists(tree, p) /\ r.ok
        /\ Exists(tree, r.path) \/ (policy = "PreserveMissingLeaf" /\ ~links[p].hard)
        /\ links[p].hard => Exists(tree, r.path) /\ ~IsDir(tree, r.path)
LinkSteps(tree, links, p) == MaxSteps - resolve_link_path(tree, links, p, FALSE, 0, MaxSteps).steps

-----------------------------------------------------------------------------
(* The extraction.                                                         *)

Ex(r) == facet = "extract" /\ ex' = r /\ UNCHANGED <<facet, value>>
At(at) == facet = "extract" /\ ex.at = at
Fail(r) == [r EXCEPT !.at = "failed"]

FirstNames == {<<"a">>, <<"b">>, <<"a", "b">>}
Names == FirstNames \cup {<<".">>, <<"..", "a">>}
Targets == {<<"b">>, <<"..", "b">>, <<"a", "..">>, <<"..">>}
Entry(kind, name, size) == [kind |-> kind, name |-> name, size |-> size, bytes |-> size, target |-> <<>>, slash |-> FALSE, pax |-> None]
Entries ==
    {Entry("file", n, s) : n \in FirstNames, s \in {0, 1, 3}} \cup {Entry("dir", n, 0) : n \in Names}
    \cup {[Entry(k, n, 0) EXCEPT !.target = t] : k \in {"symlink", "hard"}, n \in {<<"a">>, <<"a", "b">>}, t \in Targets}
    \cup {Entry("special", <<"a">>, 0)}
TarRecords == Entries \cup {Entry("sparse", <<"a">>, 0), Entry("longname", <<"a">>, 1), Entry("longname", <<"a">>, 3)}
              \cup {[Entry(k, <<"a">>, 1) EXCEPT !.pax = p] : k \in {"pax", "global"}, p \in {None, -2, 1, 2}}
(* A zip entry may inflate to more than it declares. *)
ZipRecords == {r \in Entries : r.kind # "hard"} \cup {[Entry("file", n, 1) EXCEPT !.bytes = 3] : n \in {<<"a">>, <<"b">>}}

Fresh(format, member, dest, policy) ==
    [format |-> format, member |-> member, policy |-> policy, dest |-> dest,
     at |-> "open", tree |-> [p \in {} |-> Dir], links |-> [p \in {} |-> Dir], todo |-> {},
     metadata |-> MaxMetadata, stream |-> MaxOutput + MaxMetadata, entries |-> MaxEntries,
     pax |-> None, body |-> 0, padding |-> 0, pulled |-> 0, retained |-> 0, ended |-> FALSE, eof |-> FALSE,
     cur |-> Entry("none", <<>>, 0), remaining |-> MaxOutput, left |-> 0, linkBytes |-> MaxMetadata, found |-> FALSE,
     need |-> 0, backend |-> [seen |-> FALSE, pax |-> None, size |-> 0]]
FreshExtractions ==
    {Fresh(f, m, d, p) : f \in {"tar", "zip"}, m \in {<<>>, <<"a">>}, d \in {"absent", "busy"}, p \in {"Reject"}}

(* Link graphs over every small tree, for the installation alone. *)
Trees == {t \in UNION {[D -> {Dir, File(1)}] : D \in SUBSET {<<"a">>, <<"b">>, <<"a", "b">>}} :
             \A q \in DOMAIN t : Len(q) = 2 => <<"a">> \in DOMAIN t /\ t[<<"a">>].kind = "dir"}
GraphLinks == [target : {<<"b">>, <<"..", "b">>, <<"a", "..">>, <<"d">>, <<"a", "..", "..">>}, slash : BOOLEAN, hard : {FALSE}]
              \cup [target : {<<"b">>, <<"d">>}, slash : {FALSE}, hard : {TRUE}]
Graphs == UNION {[D -> GraphLinks] : D \in {{<<"d">>}, {<<"d">>, <<"a", "e">>}, {<<"d">>, <<"b">>}}}
FreshGraphs ==
    {[Fresh("tar", <<>>, "empty", p) EXCEPT !.at = "parents", !.eof = TRUE, !.tree = t, !.links = g] :
        p \in {"Reject", "PreserveMissingLeaf"}, t \in Trees, g \in Graphs}

(* extract, extract_file, extract_member up to the format's own reader. *)
extract_file ==
    /\ At("open")
    /\ \/ Ex(Fail(ex))                                          \* too large, or not there
       \/ IF ex.member # <<>> /\ ex.format = "zip" THEN Ex(Fail(ex))
          ELSE IF ex.format = "zip" THEN Ex([ex EXCEPT !.at = "preflight"])
          ELSE Ex(IF ex.member = <<>> /\ ~prepare_destination(ex.dest) THEN Fail(ex) ELSE [ex EXCEPT !.at = "next"])

-----------------------------------------------------------------------------
(* The tar guard.                                                          *)

(* n bytes of the decoder, against the allowance of the whole stream: one  *)
(* byte over it is what shows the limit.                                   *)
read_source(r, n) ==
    IF n > r.stream THEN [Fail(r) EXCEPT !.pulled = @ + r.stream + 1]
    ELSE [r EXCEPT !.stream = @ - n, !.pulled = @ + n]

Padding(n) == (Block - (n % Block)) % Block
IsExtension(kind) == kind \in {"longname", "pax", "global"}

(* The first local size counts and is kept for the next member. *)
PaxSize(r, e) == IF e.kind = "pax" /\ r.pax = None /\ e.pax >= 0 THEN e.pax ELSE r.pax
(* The backend returns a global header as an entry, which uses up the      *)
(* local extensions before it.                                             *)
GlobalBoundary(r, kind) == IF kind = "global" THEN [r EXCEPT !.pax = None] ELSE r

(* The tar backend (outside the repository): the first size of the local   *)
(* extensions before a member is the member's; two records of them for one *)
(* member are an error; any returned entry uses them up.                   *)
BackendReads(r, e) ==
    CASE e.kind = "pax" -> IF r.backend.seen THEN Fail(r) ELSE [r EXCEPT !.backend = [seen |-> TRUE, pax |-> e.pax, size |-> 0]]
      [] e.kind = "longname" -> r
      [] OTHER -> [r EXCEPT !.backend = [seen |-> FALSE, pax |-> None, size |-> IF r.backend.pax >= 0 THEN r.backend.pax ELSE e.size]]

next_header(e) ==
    LET read == read_source(ex, Block)
        counted == GlobalBoundary([read EXCEPT !.entries = @ - 1, !.metadata = @ - Block], e.kind)
        ext == e.size + Padding(e.size)
        whole == read_source([counted EXCEPT !.metadata = @ - ext, !.retained = Block + ext], ext)
        size == IF counted.pax # None THEN counted.pax ELSE e.size
    IN  /\ At("next") /\ ex.format = "tar"
        /\ Ex(IF read.at = "failed" THEN read
              ELSE IF counted.entries < 0 \/ counted.metadata < 0 \/ e.kind = "sparse" THEN Fail(ex)
              ELSE IF IsExtension(e.kind)
              THEN IF e.size > MaxExtension \/ counted.metadata < ext THEN Fail(counted)
                   ELSE IF whole.at = "failed" THEN whole
                   ELSE IF e.pax = -2 /\ e.kind # "longname" THEN Fail(whole)     \* a sparse key
                   ELSE BackendReads([whole EXCEPT !.pax = PaxSize(counted, e), !.cur = e, !.at = IF e.kind = "global" THEN "entry" ELSE "next"], e)
              ELSE IF size > MaxEntry \/ size > counted.stream THEN Fail(counted)
              ELSE BackendReads([counted EXCEPT !.pax = None, !.body = size, !.padding = Padding(size), !.retained = Block,
                                                !.cur = [e EXCEPT !.size = size], !.at = "entry"], e))
(* The zero block that ends the entries, and an input that ends too early. *)
EndOfEntries ==
    /\ At("next") /\ ex.format = "tar"
    /\ \/ Ex([read_source(ex, Block) EXCEPT !.ended = TRUE, !.retained = Block, !.at = IF @ = "failed" THEN @ ELSE "drain"])
       \/ Ex(Fail(ex))

(* The rest of a member the extraction did not copy, and its padding. *)
SkipBody ==
    /\ At("skip")
    /\ LET r == read_source(ex, ex.body + ex.padding)
       IN  \/ Ex([r EXCEPT !.body = 0, !.padding = 0, !.at = IF @ = "failed" THEN @ ELSE "next"])
           \/ ex.body + ex.padding > 0 /\ Ex(Fail(ex))                 \* the input ends first

(* io::copy to the sink: zero blocks, then the codec's end and checksum. *)
Drain ==
    /\ At("drain")
    /\ \/ Ex(read_source(ex, 1))
       \/ Ex(Fail(ex))                                     \* nonzero, or a bad checksum
       \/ Ex([ex EXCEPT !.eof = TRUE, !.at = "parents"])

-----------------------------------------------------------------------------
(* One entry of either format.                                             *)

Leaves(r) == [r EXCEPT !.at = IF r.format = "tar" THEN "skip" ELSE "next"]
Output(r, relative) == IF r.member # <<>> THEN r.member ELSE relative
(* Before the regular files: what both loops skip, refuse or only record. *)
Recorded(r, relative) ==
    LET e == r.cur IN
    IF r.member # <<>> \/ e.target = <<>> \/ "x:" \in ToSet(e.target) \/ Len(e.target) > MaxPath
       \/ Len(e.target) > r.linkBytes \/ relative \in DOMAIN r.links
       \/ (e.kind = "hard" /\ relative_path(e.target) = <<>>) THEN Fail(r)
    ELSE Leaves([r EXCEPT !.linkBytes = @ - Len(e.target),
                          !.links = Put(@, relative, [target |-> IF e.kind = "hard" THEN relative_path(e.target) ELSE e.target,
                                                      slash |-> e.slash, hard |-> e.kind = "hard"])])
record_link(r, relative) == Recorded(r, relative)

NewFile(r, relative) ==
    LET p == Output(r, relative)
        parent == Parent(p)
    IN  IF r.cur.size > r.remaining \/ ~CanMake(r.tree, parent) THEN Fail(r)
        ELSE IF Exists(r.tree, p) \/ (r.member # <<>> /\ r.dest = "busy") THEN Fail([r EXCEPT !.tree = MakeDirs(@, parent)])     \* create_new
        ELSE [r EXCEPT !.tree = Put(MakeDirs(@, parent), p, File(0)), !.at = "copy",
                       !.left = IF r.remaining < MaxEntry THEN r.remaining ELSE MaxEntry]

extract_tar ==
    LET e == ex.cur
        relative == relative_path(e.name)
    IN  /\ At("entry") /\ ex.format = "tar"
        /\ Ex(IF e.kind = "global" THEN [ex EXCEPT !.at = "next"]
              ELSE IF e.kind = "dir" /\ e.name = <<".">> THEN Leaves(ex)
              ELSE IF relative = <<>> \/ e.kind = "special" THEN Fail(ex)
              ELSE IF ex.member # <<>> /\ ex.member # relative THEN Leaves(ex)
              ELSE IF e.kind \in {"symlink", "hard"} THEN record_link(ex, relative)
              ELSE IF e.kind = "dir"
              THEN IF ex.member # <<>> \/ ~CanMake(ex.tree, relative) THEN Fail(ex)
                   ELSE Leaves([ex EXCEPT !.tree = MakeDirs(@, relative)])
              ELSE NewFile(ex, relative))

(* copy_bounded: at most one byte over the allowance is ever asked for,    *)
(* and a chunk that shows it is not written.                               *)
copy_bounded(r, n) == IF n > r.left THEN Fail(r) ELSE [r EXCEPT !.left = @ - n]
copy_entry_bounded ==
    LET e == ex.cur
        p == Output(ex, relative_path(e.name))
        given == IF ex.format = "tar" THEN ex.body ELSE e.bytes
        most == Min({given, ex.left + 1, Buffer})
    IN  /\ At("copy")
        /\ \/ Ex(Fail(ex))                                   \* the source or the disk fails
           \/ given = 0 /\ Ex(Leaves([ex EXCEPT !.found = TRUE]))
           \/ given > 0 /\ \E n \in {1, most} :
                     LET pulled == IF ex.format = "tar" THEN read_source(ex, n) ELSE ex
                         r == IF pulled.at = "failed" THEN pulled ELSE copy_bounded(pulled, n)
                     IN  Ex(IF r.at = "failed" THEN r
                            ELSE [r EXCEPT !.body = IF ex.format = "tar" THEN @ - n ELSE @, !.cur.bytes = @ - n,
                                           !.remaining = @ - n, !.tree[p].bytes = @ + n])

-----------------------------------------------------------------------------
(* ZIP: the advertised directory, the budget of its parsing, the entries.  *)

preflight_ok == At("preflight") /\ (Ex(Fail(ex)) \/ \E n \in {1, MaxMetadata + 3} : Ex([ex EXCEPT !.at = "parse", !.need = n]))
(* MetadataBudget::read while the backend parses; TailBytes is the 65557.  *)
TailBytes == 2
MetadataBudget_read ==
    /\ At("parse") /\ ex.need > 0
    /\ LET budget == MaxMetadata + TailBytes - ex.pulled
       IN  Ex(IF budget = 0 THEN Fail(ex) ELSE LET n == Min({budget, ex.need}) IN [ex EXCEPT !.need = @ - n, !.pulled = @ + n])
open_zip ==
    /\ At("parse") /\ ex.need = 0
    /\ \/ Ex(Fail(ex))                                          \* more entries than allowed
       \/ Ex(IF prepare_destination(ex.dest) THEN [ex EXCEPT !.at = "next"] ELSE Fail(ex))
extract_zip(e) ==
    LET relative == relative_path(e.name)
        r == [ex EXCEPT !.cur = e, !.entries = @ - 1]
    IN  /\ At("next") /\ ex.format = "zip" /\ ex.entries > 0
        /\ Ex(IF e.size > MaxEntry \/ relative = <<>> THEN Fail(r)
              ELSE IF e.kind = "symlink"
              THEN IF Len(e.target) > Min({r.remaining, MaxEntry}) THEN Fail(r)
                   ELSE record_link([r EXCEPT !.remaining = @ - Len(e.target)], relative)
              ELSE IF e.kind = "dir"
              THEN IF CanMake(r.tree, relative) THEN Leaves([r EXCEPT !.tree = MakeDirs(@, relative)]) ELSE Fail(r)
              ELSE NewFile(r, relative))
LastZipEntry == At("next") /\ ex.format = "zip" /\ Ex([ex EXCEPT !.eof = TRUE, !.at = "parents"])

-----------------------------------------------------------------------------
(* install_links, after the last regular file: every parent, then every    *)
(* check, then the links one by one.  The map is walked in path order; any *)
(* order is allowed here.                                                  *)

LinkParents ==
    LET paths == DOMAIN ex.links
        made == [q \in DOMAIN ex.tree \cup UNION {Ancestors(Parent(p)) : p \in paths} |-> IF q \in DOMAIN ex.tree THEN ex.tree[q] ELSE Dir]
    IN  /\ At("parents")
        /\ Ex(IF ex.member # <<>> THEN [ex EXCEPT !.at = IF ex.found THEN "ok" ELSE "failed"]
              ELSE IF \E p \in paths : ~CanMake(ex.tree, Parent(p)) THEN Fail(ex)
              ELSE [ex EXCEPT !.tree = made, !.at = "validate"])
ValidateLinks ==
    LET paths == DOMAIN ex.links
        holds == /\ \A p \in paths : LinkHolds(ex.tree, ex.links, ex.policy, p)
                 /\ MapThenSumSet(LAMBDA p : LinkSteps(ex.tree, ex.links, p), paths) <= MaxSteps
    IN  /\ At("validate")
        /\ Ex(IF holds THEN [ex EXCEPT !.todo = paths, !.at = "install"] ELSE Fail(ex))
InstallLink(p) ==
    /\ At("install") /\ p \in ex.todo
    /\ LET l == ex.links[p]
           node == IF l.hard THEN File(0)                    \* one more name of a counted file
                   ELSE [Dir EXCEPT !.kind = "link", !.target = l.target, !.slash = l.slash]
       IN  \/ Ex([ex EXCEPT !.todo = @ \ {p}, !.tree = Put(@, p, node)])
           \/ Ex(Fail(ex))                                       \* the file system refuses one of several
Extracted == At("install") /\ ex.todo = {} /\ Ex([ex EXCEPT !.at = "ok"])

-----------------------------------------------------------------------------
(* The pure functions.                                                     *)

(* The widths of the directory's fields: all ones in the narrow ones means *)
(* that the ZIP64 record holds the number.                                 *)
U16 == 3
U32 == 7
U64 == 15
LocatorLen == 2
HeadLen == 4          \* the 56 bytes read of the ZIP64 record: LeadLen of them
LeadLen == 1          \* are not counted by its own size field
checked_add(a, b) == IF a + b > U64 THEN None ELSE a + b

(* z: the end record at `pos`, its fields, and what the locator and the    *)
(* ZIP64 record it points to hold; `plain`: one disk, whose counts agree,  *)
(* `signed`: the locator names one disk and the record has its signature.  *)
preflight_zip(z) ==
    LET hasZip64 == z.locator /\ z.pos >= LocatorLen
        limit == z.pos - LocatorLen
        end == checked_add(z.record, HeadLen)
        lead == checked_add(z.record, z.recordSize)
        count == IF hasZip64 THEN z.count64 ELSE z.count
        size == IF hasZip64 THEN z.size64 ELSE z.size
    IN  /\ z.plain
        /\ ~hasZip64 => z.count # U16 /\ z.size # U32 /\ z.offset # U32
        /\ hasZip64 => /\ z.signed /\ end # None /\ end <= limit
                       /\ z.recordSize >= HeadLen - LeadLen /\ z.recordSize <= MaxMetadata
                       /\ lead # None /\ checked_add(lead, LeadLen) = limit
        /\ count <= MaxEntries /\ size <= MaxMetadata
Zips ==
    {[plain |-> q # 1, signed |-> q # 2, locator |-> l, pos |-> p, record |-> r, recordSize |-> s, count |-> c, size |-> 1, offset |-> o, count64 |-> c64, size64 |-> z64] :
        q \in 1 .. 3, l \in BOOLEAN, p \in {0, 2, 6, 9, 15}, r \in {0, 2, 3, 14, 15}, s \in {0, 2, 3, 4, 8, 15}, c \in {1, U16}, o \in {0, U32},
        c64 \in {1, MaxEntries + 1}, z64 \in {1, MaxMetadata + 1}}
ZipIsSound(z) ==
    preflight_zip(z) =>
        z.plain /\ IF z.locator /\ z.pos >= LocatorLen
        THEN z.record + LeadLen + z.recordSize = z.pos - LocatorLen /\ z.count64 <= MaxEntries /\ z.size64 <= MaxMetadata
        ELSE z.count < U16 /\ z.offset < U32

PathNames == UNION {[1 .. n -> {"a", ".", "..", "/", "x:"}] : n \in 0 .. 3} \cup {[i \in 1 .. MaxPath + 1 |-> "a"]}
PathIsInside(n) == LET p == relative_path(n) IN p = <<>> \/ (ToSet(p) \subseteq {"a"} /\ Len(p) <= MaxPath)

FreshValues == {[kind |-> "zip", z |-> z] : z \in Zips} \cup {[kind |-> "path", n |-> n] : n \in PathNames}

-----------------------------------------------------------------------------
Idle == Fresh("tar", <<>>, "idle", "Reject")
Init ==
    \/ facet = "extract" /\ ex \in FreshExtractions \cup FreshGraphs /\ value = [kind |-> "off"]
    \/ facet = "value" /\ ex = Idle /\ value \in FreshValues

Next ==
    \/ extract_file \/ (\E e \in TarRecords : next_header(e)) \/ EndOfEntries \/ SkipBody \/ Drain
    \/ extract_tar \/ copy_entry_bounded \/ preflight_ok \/ MetadataBudget_read \/ open_zip
    \/ (\E e \in ZipRecords : extract_zip(e)) \/ LastZipEntry
    \/ LinkParents \/ ValidateLinks \/ (\E p \in ex.todo : InstallLink(p)) \/ Extracted

Spec == Init /\ [][Next]_vars

-----------------------------------------------------------------------------
(* Properties.                                                             *)

(* What the operating system finds behind a link: the path, "escape" above *)
(* the destination, "missing", or "loop".                                  *)
RECURSIVE OsFinds(_, _, _, _)
OsFinds(tree, cur, rest, hops) ==
    IF rest = <<>> THEN cur
    ELSE LET c == Head(rest)
             next == Append(cur, c)
         IN  IF c = "/" THEN <<"escape">>
             ELSE IF ~IsDir(tree, cur) THEN <<"missing">>
             ELSE IF c = "." THEN OsFinds(tree, cur, Tail(rest), hops)
             ELSE IF c = ".." THEN IF cur = <<>> THEN <<"escape">> ELSE OsFinds(tree, Parent(cur), Tail(rest), hops)
             ELSE IF next \notin DOMAIN tree THEN IF Len(rest) = 1 THEN <<"leaf">> ELSE <<"missing">>
             ELSE IF tree[next].kind # "link" THEN OsFinds(tree, next, Tail(rest), hops)
             ELSE IF hops = 0 THEN <<"loop">>
             ELSE OsFinds(tree, cur, tree[next].target \o Tail(rest), hops - 1)
Leads(tree, p) == OsFinds(tree, Parent(p), tree[p].target, 8)
LinkPaths(tree) == {p \in DOMAIN tree : tree[p].kind = "link"}

(* Links stay inside.  However the links of an archive lead through one    *)
(* another, no link that extraction places leads above the destination, at *)
(* any moment of the installation; after a success none is a loop, each    *)
(* leads to an entry or, under PreserveMissingLeaf, to a missing last      *)
(* component, and one spelled with a final separator leads to a directory  *)
(* (resolve_link_path and install_links of archive.rs).                    *)
LinksStayInside ==
    facet = "extract" =>
        \A p \in LinkPaths(ex.tree) :
            LET found == Leads(ex.tree, p)
            IN  /\ found # <<"escape">>
                /\ ex.at = "ok" => /\ found \notin {<<"loop">>, <<"missing">>}
                                   /\ found = <<"leaf">> => ex.policy = "PreserveMissingLeaf"
                                   /\ ex.tree[p].slash /\ found # <<"leaf">> => IsDir(ex.tree, found)

(* Extraction is bounded.  Whatever sizes the archive declares, and also   *)
(* when it fails half way, no file is larger than the entry ceiling, all   *)
(* together stay within the output ceiling, the decoder is read at most    *)
(* one byte past its allowance and at most one extension record is held    *)
(* (Guard of tar_format.rs, copy_bounded and MetadataBudget of archive.rs). *)
ExtractionIsBounded ==
    facet = "extract" =>
        /\ MapThenSumSet(LAMBDA p : ex.tree[p].bytes, DOMAIN ex.tree) <= MaxOutput
        /\ \A p \in DOMAIN ex.tree : ex.tree[p].bytes <= MaxEntry
        /\ ex.pulled <= (IF ex.format = "tar" THEN MaxOutput + MaxMetadata + 1 ELSE MaxMetadata + TailBytes)
        /\ ex.retained <= Block + MaxExtension + Padding(MaxExtension)

(* Success covers the whole input.  Nothing is written before the          *)
(* destination was found fit; no link is on disk while entries are still   *)
(* written, so none redirects them; the guard and the backend agree on     *)
(* where a member ends; a success has read the input to its end, and one   *)
(* selected member leaves nothing but itself.                              *)
SuccessCoversTheInput ==
    facet = "extract" =>
        /\ ex.at \in {"open", "next", "entry", "copy", "skip", "drain"} => LinkPaths(ex.tree) = {}
        /\ (ex.dest = "busy") => ex.tree = [p \in {} |-> Dir]
        /\ (ex.at = "entry" /\ ex.cur.kind # "global") => ex.cur.size = ex.backend.size
        /\ ex.at = "ok" => ex.eof
        /\ ex.member # <<>> => DOMAIN ex.tree \subseteq {ex.member} /\ (ex.at = "ok" => ex.member \in DOMAIN ex.tree)

(* The pure functions keep their promises: an accepted ZIP64 record ends   *)
(* exactly at its locator, in arithmetic that does not wrap, and declares  *)
(* no more than the ceilings (preflight_zip); an accepted name holds only  *)
(* plain components (relative_path).                                       *)
ArchiveValuesAgree ==
    facet = "value" => IF value.kind = "zip" THEN ZipIsSound(value.z) ELSE PathIsInside(value.n)

=============================================================================
