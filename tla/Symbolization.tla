--------------------------- MODULE Symbolization ---------------------------
(***************************************************************************)
(* Symbols: finding them, splitting them out of a binary, asking the       *)
(* isolated worker.  Independent parts, one per `facet`:                   *)
(*   discover  the worker walks the discovery tiers for one module while   *)
(*             files it reads may be replaced;                             *)
(*   servers   the configured symbol servers, asked one after another;     *)
(*   split     debug information is moved out of a linked binary by tools  *)
(*             that may fail or do less than they were asked;              *)
(*   client    the process that writes a capture to a worker's pipe and    *)
(*             collects its report;                                        *)
(*   value     pure functions: wire messages, tables, identities, reports. *)
(* The captured build is "A"; "B" is any other one.                        *)
(***************************************************************************)
EXTENDS Integers, Sequences, FiniteSets, SequencesExt

CONSTANTS MaxServers,    \* servers asked (8)
          MaxResponse,   \* units one response may have (64 MiB)
          MaxAggregate,  \* units all responses may have (128 MiB)
          Pipe,          \* units a pipe holds
          MaxInput       \* units of a capture the worker accepts (64 MiB)

VARIABLES facet, host, walk, servers, split, client, value

vars == <<facet, host, walk, servers, split, client, value>>

Off == [phase |-> "off"]
Others(f) ==
    /\ UNCHANGED <<facet, host, value>>
    /\ IF f = "discover" THEN TRUE ELSE UNCHANGED walk
    /\ IF f = "servers" THEN TRUE ELSE UNCHANGED servers
    /\ IF f = "split" THEN TRUE ELSE UNCHANGED split
    /\ IF f = "client" THEN TRUE ELSE UNCHANGED client

(***************************************************************************)
(* Discovery.  Path 1 is the image, 2 an artifact a manifest beside it     *)
(* names, 3 the registered file, which is also the one beside the image,   *)
(* 4 a file of the configured store.                                       *)
(***************************************************************************)
DiscoveryPaths == 1..4
ModuleRefs == {[debug_id |-> "A", code_id |-> "none", hint |-> TRUE], [debug_id |-> "none", code_id |-> "A", hint |-> TRUE],
               [debug_id |-> "none", code_id |-> "none", hint |-> TRUE], [debug_id |-> "A", code_id |-> "none", hint |-> FALSE],
               [debug_id |-> "none", code_id |-> "none", hint |-> FALSE]}
Candidate(source, path, claim) == [source |-> source, path |-> path, claim |-> claim]
\* What a manifest claims is compared before its artifact is opened.
extend_manifest(claim) == <<Candidate("AdjacentManifest", 2, claim)>>
\* The windows worker has no embedded tier; the other one offers the image itself.
candidates(m, claim) ==
    (IF host = "windows" \/ ~m.hint THEN <<>> ELSE <<Candidate("Embedded", 1, "none")>>)
    \o (IF m.hint THEN extend_manifest(claim) ELSE <<>>)
    \o <<Candidate("Registration", 3, "none")>>
    \o (IF m.hint THEN <<Candidate("AdjacentNative", 3, "none")>> ELSE <<>>)
    \o <<Candidate("ConfiguredStore", 4, "none")>>

FreshWalks == {[phase |-> "on", at |-> "start", disk |-> d, m |-> m, claim |-> c, wants |-> w, expected |-> "none",
                i |-> 1, rejected |-> 0, table |-> "none", lines |-> "none", source |-> "none", path |-> 0,
                replaced |-> {}, first |-> d] :
               d \in [DiscoveryPaths -> {"none", "A", "B"}], m \in ModuleRefs, c \in {"A", "B"}, w \in BOOLEAN}
Walk(r) == walk' = r /\ Others("discover")

\* Somebody rebuilds the image or the file beside it; once is enough.
FileReplaced(p) ==
    /\ facet = "discover" /\ walk.replaced = {} /\ walk.at \notin {"Found", "NotFound", "Mismatched", "NoDebugDirectory"}
    /\ \E b \in {"A", "B"} \ {walk.disk[p]} : Walk([walk EXCEPT !.disk[p] = b, !.replaced = {p}])

captured_image_still_matches ==
    /\ facet = "discover" /\ walk.at = "start"
    /\ LET m == walk.m
           still == m.code_id = "none" \/ walk.disk[1] = m.code_id
       IN  Walk(IF m.debug_id = "none" /\ ~m.hint THEN [walk EXCEPT !.at = "NotFound"]
                ELSE IF ~still THEN [walk EXCEPT !.at = "Mismatched", !.rejected = 1]
                ELSE [walk EXCEPT !.at = "hashed"])
\* The declared identity, else the one the image carries now.
discover_module ==
    /\ facet = "discover" /\ walk.at = "hashed"
    /\ LET m == walk.m
           id == IF m.debug_id # "none" THEN m.debug_id ELSE walk.disk[1]
       IN  Walk(IF id = "none" \/ (host # "windows" /\ ~m.hint) THEN [walk EXCEPT !.at = "NoDebugDirectory"]
                ELSE [walk EXCEPT !.at = "walk", !.expected = id])
\* The candidate is copied, and what is verified and parsed is the copy.
snapshot_candidate(c) == walk.disk[c.path]
resolve_symbols ==
    /\ facet = "discover" /\ walk.at = "walk" /\ walk.i <= Len(candidates(walk.m, walk.claim))
    /\ LET c == candidates(walk.m, walk.claim)[walk.i]
       IN  Walk(IF walk.disk[c.path] = "none" THEN [walk EXCEPT !.i = @ + 1]
                ELSE IF c.claim \in {"none", walk.expected} /\ snapshot_candidate(c) = walk.expected
                THEN [walk EXCEPT !.at = IF walk.wants THEN "lines" ELSE "Found", !.table = snapshot_candidate(c),
                                  !.source = c.source, !.path = c.path]
                ELSE [walk EXCEPT !.i = @ + 1, !.rejected = @ + 1])
WalkEnds ==
    /\ facet = "discover" /\ walk.at = "walk" /\ walk.i > Len(candidates(walk.m, walk.claim))
    /\ Walk([walk EXCEPT !.at = IF walk.rejected = 0 THEN "NotFound" ELSE "Mismatched"])
\* The line program is read from the path again, not from the copy.
LineTable_from_path ==
    /\ facet = "discover" /\ walk.at = "lines"
    /\ Walk([walk EXCEPT !.at = "Found", !.lines = walk.disk[walk.path]])

(***************************************************************************)
(* Symbol servers.  An answer is what the transport and the verifier see.  *)
(***************************************************************************)
Answers == [kind : {"badUrl"}, size : {0}] \cup [kind : {"refused"}, size : {0}]
           \cup [kind : {"other", "match"}, size : 1..(MaxResponse + 1)]
FreshServers == {[phase |-> "on", at |-> "asking", list |-> l, i |-> 1, aggregate |-> 0, rejected |-> 0, temp |-> {},
                  value |-> "none", local |-> n] : l \in UNION {[1..k -> Answers] : k \in 0..3}, n \in {0, 1}}
SmallerOf(a, b) == IF a <= b THEN a ELSE b
response_limit == SmallerOf(MaxResponse, MaxAggregate - servers.aggregate)
Ask(r) == servers' = r /\ Others("servers")
MoreServers == servers.at = "asking" /\ servers.i <= SmallerOf(Len(servers.list), MaxServers)
               /\ MaxAggregate > servers.aggregate

\* One server: an unusable address or a failed request costs nothing; a body is
\* read up to one unit past its limit, and counted.
resolve_from_servers ==
    /\ facet = "servers" /\ MoreServers
    /\ LET a == servers.list[servers.i]
           copied == SmallerOf(a.size, response_limit + 1)
           next == [servers EXCEPT !.i = @ + 1, !.aggregate = @ + copied]
       IN  Ask(IF a.kind \in {"badUrl", "refused"} THEN [servers EXCEPT !.i = @ + 1]
               ELSE IF copied <= response_limit /\ a.kind = "match"
               THEN [next EXCEPT !.at = "Found", !.value = "match", !.temp = {servers.i}]
               ELSE [next EXCEPT !.rejected = @ + 1])
\* What the local tiers rejected is added to what the servers were rejected for.
server_symbols ==
    /\ facet = "servers" /\ servers.at = "asking" /\ ~MoreServers
    /\ LET total == servers.local + servers.rejected
       IN  Ask([servers EXCEPT !.at = IF total = 0 THEN "NotFound" ELSE "Mismatched", !.rejected = total])

(***************************************************************************)
(* Splitting.  A file is [debug, id, link]: whether it has debug           *)
(* information, its build identity, and the checksum its link records.     *)
(* `crashed` is the end of the process at any point.                       *)
(***************************************************************************)
NoFile == [debug |-> FALSE, id |-> "none", link |-> "missing", whole |-> FALSE]
Binary(debug, id) == [debug |-> debug, id |-> id, link |-> "none", whole |-> TRUE]
FreshSplits == {[phase |-> "on", at |-> "read", binary |-> Binary(d, i), symbol |-> NoFile, stripped |-> NoFile,
                 linked |-> NoFile, identity |-> "none", result |-> "none", original |-> TRUE] :
                d \in BOOLEAN, i \in {"A", "none"}}
Split(r) == split' = r /\ Others("split")
Return(r, result) == [r EXCEPT !.at = "done", !.result = result]

\* Both gates come before any tool runs; only ELF keeps the debug sections in the image.
split_debug_symbols ==
    /\ facet = "split" /\ split.at = "read"
    /\ LET b == split.binary
       IN  Split(IF host = "linux" /\ ~b.debug THEN Return(split, "DebugInfoMissing")
                 ELSE IF b.id = "none" THEN Return(split, "BuildIdentityMissing")
                 ELSE [split EXCEPT !.identity = b.id,
                                    !.at = IF host = "windows" THEN "locate" ELSE "probe"])
probe_tool ==
    /\ facet = "split" /\ split.at = "probe"
    /\ \E found \in BOOLEAN :
          Split(IF found THEN [split EXCEPT !.at = "carve"] ELSE Return(split, "MechanismUnavailable"))
\* --only-keep-debug, or dsymutil; a tool may exit with success and a useless file.
CarveSymbols ==
    /\ facet = "split" /\ split.at = "carve"
    /\ \/ Split(Return(split, "Tool"))
       \/ \E s \in [debug : BOOLEAN, id : {split.identity, "B"}, link : {"none"}, whole : {TRUE}] :
             Split([split EXCEPT !.symbol = s, !.at = IF host = "macos" THEN "stripInPlace" ELSE "strip"])
StripToSibling ==
    /\ facet = "split" /\ split.at = "strip"
    /\ \/ Split([split EXCEPT !.at = "undo", !.result = "Tool"])
       \/ \E d \in BOOLEAN : Split([split EXCEPT !.stripped = [split.binary EXCEPT !.debug = d], !.at = "link"])
\* The link records the checksum of the symbol file as it is now.
AddDebugLink ==
    /\ facet = "split" /\ split.at = "link"
    /\ \/ Split([split EXCEPT !.at = "undo", !.result = "Tool"])
       \/ \E l \in {"none", "crc", "otherName"} :
             Split([split EXCEPT !.linked = [split.stripped EXCEPT !.link = l], !.at = "rename"])
\* Permissions are copied first; the rename replaces the shipped binary at once.
RenameLinked ==
    /\ facet = "split" /\ split.at = "rename"
    /\ \/ Split([split EXCEPT !.at = "undo", !.result = "Io"])
       \/ Split([split EXCEPT !.binary = split.linked, !.original = FALSE, !.linked = NoFile, !.at = "undo"])
RemoveSiblings ==
    /\ facet = "split" /\ split.at = "undo"
    /\ LET clean == [split EXCEPT !.stripped = NoFile, !.linked = IF split.result = "none" THEN @ ELSE NoFile]
       IN  Split(IF split.result = "none" THEN [clean EXCEPT !.at = "inspect"] ELSE [clean EXCEPT !.at = "done"])
\* strip -x rewrites the binary itself.
split_dsym_bundle ==
    /\ facet = "split" /\ split.at = "stripInPlace"
    /\ \/ \E w \in BOOLEAN : Split([Return(split, "Tool") EXCEPT !.binary.whole = w, !.original = FALSE])
       \/ Split([split EXCEPT !.original = FALSE, !.at = "inspect"])
inspect_gnu_debuglink ==
    /\ facet = "split" /\ split.at = "inspect"
    /\ LET linux == host = "linux"
           holds == /\ linux => ~split.binary.debug /\ split.binary.link = "crc"
                    /\ split.symbol.debug /\ split.symbol.id = split.identity
       IN  Split(Return(split, IF holds THEN "Ok" ELSE "IncompleteSplit"))
\* Nothing is carved: the recorded path, else the sibling, must exist.
locate_linker_pdb ==
    /\ facet = "split" /\ split.at = "locate"
    /\ \E found \in BOOLEAN : Split(Return(split, IF found THEN "Ok" ELSE "SymbolFileMissing"))
SplitProcessDies ==
    /\ facet = "split" /\ split.at # "done"
    /\ \E w \in {TRUE, split.at # "stripInPlace"} : Split([Return(split, "crashed") EXCEPT !.binary.whole = @ /\ w])

(***************************************************************************)
(* The client of the worker.  Bytes are counted; `inp` and `outp` are what *)
(* the two pipes hold.                                                     *)
(***************************************************************************)
FreshClients == {[phase |-> "on", parent |-> "spawn", worker |-> "none", input |-> n, report |-> r, sent |-> 0, inp |-> 0, eof |-> FALSE,
                  got |-> 0, outp |-> 0, put |-> 0, have |-> 0, valid |-> v, status |-> "none", result |-> "none"] :
                 n \in 1..(MaxInput + 2), r \in 1..(Pipe + 1), v \in BOOLEAN}
Client(r) == client' = r /\ Others("client")
Ends(c, result) == [c EXCEPT !.parent = "done", !.result = result]

SymbolizerWorker_symbolize ==
    /\ facet = "client" /\ client.parent = "spawn"
    /\ \/ Client(Ends(client, "Spawn"))
       \/ Client([client EXCEPT !.parent = "write", !.worker = "read"])
\* write_all of the whole capture, then the pipe is closed.
WriteCapture ==
    /\ facet = "client" /\ client.parent = "write"
    /\ \/ client.worker = "dead" /\ client.sent < client.input /\ Client(Ends(client, "Io"))
       \/ client.worker # "dead" /\ client.sent < client.input /\ client.inp < Pipe
          /\ Client([client EXCEPT !.sent = @ + 1, !.inp = @ + 1])
       \/ client.sent = client.input /\ Client([client EXCEPT !.parent = "collect", !.eof = TRUE])
\* The worker reads to the end, or one unit past its limit, before anything else.
WorkerReads ==
    /\ facet = "client" /\ client.worker = "read"
    /\ \/ client.inp > 0 /\ client.got <= MaxInput /\ Client([client EXCEPT !.inp = @ - 1, !.got = @ + 1])
       \/ ((client.inp = 0 /\ client.eof) \/ client.got > MaxInput)
          /\ Client([client EXCEPT !.worker = IF client.got > MaxInput \/ ~client.valid THEN "fails" ELSE "write"])
WorkerFails ==
    /\ facet = "client" /\ client.worker = "fails"
    /\ Client([client EXCEPT !.worker = "dead", !.status = "1"])
WorkerWrites ==
    /\ facet = "client" /\ client.worker = "write"
    /\ \/ client.put < client.report /\ client.outp < Pipe
          /\ Client([client EXCEPT !.put = @ + 1, !.outp = @ + 1])
       \/ client.put = client.report /\ Client([client EXCEPT !.worker = "dead", !.status = "0"])
WorkerCrashes ==
    /\ facet = "client" /\ client.worker \in {"read", "write"}
    /\ Client([client EXCEPT !.worker = "dead", !.status = "signal"])
wait_with_output ==
    /\ facet = "client" /\ client.parent = "collect"
    /\ \/ client.outp > 0 /\ Client([client EXCEPT !.outp = @ - 1, !.have = @ + 1])
       \/ client.outp = 0 /\ client.worker = "dead"
          /\ Client(Ends(client, IF client.status = "0" THEN "Ok" ELSE "Failed"))
\* kill_on_drop.
ClientDropped ==
    /\ facet = "client" /\ client.parent \in {"write", "collect"}
    /\ Client([Ends(client, "dropped") EXCEPT !.worker = "dead"])

(***************************************************************************)
(* Pure functions.  A protobuf message is the sequence of its fields in    *)
(* tag order: a plain field that has its default is not sent, a field of   *)
(* kind "many" is sent once per element, and optional fields are "many"    *)
(* with at most one.                                                       *)
(***************************************************************************)
Field(name, tag, kind) == [name |-> name, tag |-> tag, kind |-> kind]
Default(kind) == IF kind = "str" THEN "" ELSE 0
EncodeField(f, v) ==
    IF f.kind = "many" THEN [i \in DOMAIN v |-> <<f.tag, v[i]>>] ELSE IF v = Default(f.kind) THEN <<>> ELSE <<<<f.tag, v>>>>
Encode(schema, r) == FoldLeft(LAMBDA w, f : w \o EncodeField(f, r[f.name]), <<>>, schema)
DecodeField(f, w) ==
    LET mine == SelectSeq(w, LAMBDA p : p[1] = f.tag)
    IN  IF f.kind = "many" THEN [i \in DOMAIN mine |-> mine[i][2]]
        ELSE IF mine = <<>> THEN Default(f.kind) ELSE mine[Len(mine)][2]
Named(schema, n) == schema[CHOOSE i \in DOMAIN schema : schema[i].name = n]
Decode(schema, w) == [n \in {schema[i].name : i \in DOMAIN schema} |-> DecodeField(Named(schema, n), w)]

ModuleRef == <<Field("name", 1, "str"), Field("base_avma", 2, "num"), Field("code_id", 3, "many"), Field("debug_id", 4, "many"),
               Field("debug_file", 5, "many"), Field("path_hint", 6, "many"), Field("embedded_symbol_path", 7, "many")>>
DiscoveryConfig == <<Field("registered_manifest", 1, "many"), Field("registered_symbol_paths", 2, "many")>>
RawFrame == <<Field("module_index", 1, "num"), Field("relative_address", 2, "num")>>
PyFrame == <<Field("file", 1, "str"), Field("line", 2, "num"), Field("func", 3, "str")>>
RawThread == <<Field("os_tid", 1, "num"), Field("name", 2, "many"), Field("frames", 3, "many"), Field("py_frames", 4, "many")>>
RawCapture == <<Field("format", 1, "num"), Field("discovery", 2, "many"), Field("modules", 3, "many"), Field("threads", 4, "many")>>
SymFrame == <<Field("module", 1, "str"), Field("relative_address", 2, "num"), Field("function", 3, "many"), Field("file", 4, "many"),
              Field("line", 5, "many"), Field("inline_frames", 6, "many"), Field("status", 7, "num")>>
ModuleReport == <<Field("name", 1, "str"), Field("status", 2, "num"), Field("symbol_file", 3, "many"), Field("symbol_source", 4, "many"),
                  Field("rejected_candidates", 5, "num")>>

EncodeAll(schema, s) == [i \in DOMAIN s |-> Encode(schema, s[i])]
DecodeAll(schema, s) == [i \in DOMAIN s |-> Decode(schema, s[i])]
EncodeThread(t) ==
    Encode(RawThread, [t EXCEPT !.frames = EncodeAll(RawFrame, @), !.py_frames = EncodeAll(PyFrame, @)])
DecodeThread(w) ==
    LET t == Decode(RawThread, w)
    IN  [t EXCEPT !.frames = DecodeAll(RawFrame, @), !.py_frames = DecodeAll(PyFrame, @)]
\* An unknown number is the default of its enumeration; an unknown tier is dropped.
capture_format(n) == IF n = 1 THEN 1 ELSE 0
frame_status(n) == IF n \in 1..2 THEN n ELSE 0
module_status(n) == IF n \in 1..4 THEN n ELSE 0
discovery_source(s) == SelectSeq(s, LAMBDA n : n \in 0..6)
encode_wire(c) ==
    Encode(RawCapture, [c EXCEPT !.discovery = EncodeAll(DiscoveryConfig, @), !.modules = EncodeAll(ModuleRef, @),
                                 !.threads = [i \in DOMAIN @ |-> EncodeThread(@[i])]])
NoDiscovery == [registered_manifest |-> <<>>, registered_symbol_paths |-> <<>>]
decode_wire(w) ==
    LET c == Decode(RawCapture, w)
    IN  [c EXCEPT !.format = capture_format(@), !.modules = DecodeAll(ModuleRef, @),
                  !.discovery = IF @ = <<>> THEN <<NoDiscovery>> ELSE DecodeAll(DiscoveryConfig, @),
                  !.threads = [i \in DOMAIN @ |-> DecodeThread(@[i])]]
DecodeReport(w) ==
    LET m == Decode(ModuleReport, w)
    IN  [m EXCEPT !.status = module_status(@), !.symbol_source = discovery_source(@)]
DecodeFrame(w) == LET f == Decode(SymFrame, w) IN [f EXCEPT !.status = frame_status(@)]

Optional(v) == {<<>>, <<v>>}
WireModules == [name : {"", "m"}, base_avma : {0, 7}, code_id : Optional("c"), debug_id : Optional(""), debug_file : {<<>>},
                path_hint : Optional("p"), embedded_symbol_path : {<<>>}]
WireThreads == [os_tid : {0, 9}, name : Optional("t"), frames : {<<>>, <<[module_index |-> 0, relative_address |-> 0],
                                                                     [module_index |-> 1, relative_address |-> 5]>>},
                py_frames : {<<>>, <<[file |-> "", line |-> 0, func |-> "f"]>>}]
WireCaptures == [format : {0, 1}, discovery : {<<NoDiscovery>>, <<[registered_manifest |-> <<"m">>, registered_symbol_paths |-> <<"a", "b">>]>>},
                 modules : {<<m>> : m \in WireModules}, threads : {<<>>} \cup {<<t, t>> : t \in WireThreads}]
WireReports == [name : {"", "m"}, status : -1..5, symbol_file : Optional("u"), symbol_source : {<<>>} \cup {<<n>> : n \in -1..7},
                rejected_candidates : 0..1]
WireFrames == [module : {"", "m"}, relative_address : {0, 5}, function : Optional("f"), file : Optional(""), line : Optional(0),
               inline_frames : {<<>>, <<"g", "h">>}, status : -1..3]

\* Tables: starts are ordered and unique; the search finds the last start not above.
from_file(entries, base) ==
    LET kept == {e \in entries : e.kind = "Text" /\ e.address >= base}
        starts == SetToSortSeq({e.address - base : e \in kept}, <)
    IN  [i \in DOMAIN starts |-> [start |-> starts[i], names |-> {e.name : e \in {x \in kept : x.address - base = starts[i]}}]]
Below(table, a) == Cardinality({i \in DOMAIN table : table[i].start <= a})
lookup(table, a) == IF Below(table, a) = 0 THEN {} ELSE table[Below(table, a)].names
LineTable_lookup(table, a) ==
    LET i == Below(table, a) IN IF i = 0 THEN <<>> ELSE IF a < table[i].end THEN <<table[i].line>> ELSE <<>>
LineRanges == {<<>>} \cup {<<[start |-> s, end |-> s + n, line |-> 1]>> : s \in 0..2, n \in 1..2}
              \cup {<<[start |-> 0, end |-> n, line |-> 1], [start |-> 2, end |-> 2 + k, line |-> 2]>> : n \in 1..2, k \in 1..2}

\* Identities.  A digit is lower or upper case; hyphens are allowed where the code removes them.
Lower(c) == IF c = "F" THEN "f" ELSE c
normalized_hex(v, length, hyphens) ==
    LET compact == IF hyphens THEN SelectSeq(v, LAMBDA c : c # "-") ELSE v
    IN  IF compact = <<>> \/ Len(compact) % 2 # 0 \/ (length > 0 /\ Len(compact) # length)
           \/ \E i \in DOMAIN compact : compact[i] \notin {"f", "F", "0"}
        THEN <<>> ELSE [i \in DOMAIN compact |-> Lower(compact[i])]
\* The first three fields of a GUID are little-endian in the image.
guid_pe_to_rfc4122(g) ==
    Reverse(SubSeq(g, 1, 4)) \o Reverse(SubSeq(g, 5, 6)) \o Reverse(SubSeq(g, 7, 8)) \o SubSeq(g, 9, 16)
StoredGuid(rfc) == guid_pe_to_rfc4122(rfc)
identity_of(f) ==
    IF f.build_id # <<>> THEN <<"elf", f.build_id>> ELSE IF f.uuid # <<>> THEN <<"macho", f.uuid>>
    ELSE IF f.guid # <<>> THEN <<"pdb", guid_pe_to_rfc4122(f.guid), f.age>> ELSE <<>>
cache_candidate(id, name) ==
    CASE id[1] = "elf" -> <<".build-id", SubSeq(id[2], 1, SmallerOf(2, Len(id[2]))), SubSeq(id[2], SmallerOf(2, Len(id[2])) + 1, Len(id[2]))>>
      [] id[1] = "pdb" -> <<name, id[2] \o <<id[3]>>, name>>
      [] OTHER -> <<id[2], name>>
server_key(id, name) ==
    CASE id[1] = "elf" -> <<"buildid", id[2], "debuginfo">> [] id[1] = "pdb" -> <<name, id[2] \o <<id[3]>>, name>>
      [] OTHER -> <<id[2], name>>

\* The report: every thread and frame stays, whatever could be found.
symbolize_thread(modules, table, frames) ==
    [i \in DOMAIN frames |->
        LET f == frames[i]
            known == f.module_index < Len(modules)
            name == IF known /\ modules[f.module_index + 1] = "Resolved" THEN lookup(table, f.relative_address) ELSE {}
        IN  [at |-> f.relative_address, function |-> name,
             status |-> IF ~known THEN "ModuleUnknown" ELSE IF name = {} THEN "RawOnly" ELSE "Resolved"]]
render_frame(f) ==
    CASE f.status = "Resolved" -> "name" [] f.status = "RawOnly" -> "no symbols" [] OTHER -> "no module"
Symbols == {{}, {[kind |-> "Text", address |-> 2, name |-> "f"], [kind |-> "Data", address |-> 3, name |-> "d"]},
            {[kind |-> "Text", address |-> 1, name |-> "low"], [kind |-> "Text", address |-> 2, name |-> "f"],
             [kind |-> "Text", address |-> 4, name |-> "g"], [kind |-> "Text", address |-> 4, name |-> "alias"]}}

\* Manifests.  An identity or a format nobody knows refuses the whole manifest.
ManifestModule == <<Field("name", 1, "str"), Field("identity", 2, "many"), Field("artifacts", 3, "many")>>
Artifact == <<Field("format", 1, "num"), Field("relative_path", 2, "str"), Field("sha256", 3, "many"), Field("expected_size", 4, "many")>>
encode_manifest(modules) ==
    [i \in DOMAIN modules |-> Encode(ManifestModule, [modules[i] EXCEPT !.artifacts = EncodeAll(Artifact, @)])]
ReadModule(w) == LET r == Decode(ManifestModule, w) IN [r EXCEPT !.artifacts = DecodeAll(Artifact, @)]
TryFromModule(r) == r.identity # <<>> /\ \A a \in ToSet(r.artifacts) : a.format \in 0..2
decode_manifest(w) ==
    LET all == [i \in DOMAIN w |-> ReadModule(w[i])] IN IF \A r \in ToSet(all) : TryFromModule(r) THEN <<all>> ELSE <<>>
\* The artifacts a manifest may offer: relative, and under its directory once links are followed.
MaxArtifacts == 2
StaysInside(path) == path \in {"inside", "linkInside"}
ManifestCandidates(w) ==
    FoldLeft(LAMBDA out, r : IF Len(r.artifacts) > MaxArtifacts THEN out
                             ELSE out \o SelectSeq([i \in DOMAIN r.artifacts |-> [claim |-> r.identity[1], path |-> r.artifacts[i].relative_path]],
                                                   LAMBDA c : StaysInside(c.path)),
             <<>>, IF decode_manifest(w) = <<>> THEN <<>> ELSE decode_manifest(w)[1])
WireArtifacts == [format : {0, 2, 3}, relative_path : {"inside", "outside", "linkInside", "linkOutside"}, sha256 : {<<>>}, expected_size : Optional(0)]
WireManifests == {<<[name |-> "m", identity |-> i, artifacts |-> a]>> :
                  i \in Optional("A"), a \in {<<>>} \cup {<<x>> : x \in WireArtifacts} \cup {<<x, x, x>> : x \in WireArtifacts}}
                 \cup {<<[name |-> "", identity |-> <<"B">>, artifacts |-> <<x>>], [name |-> "m", identity |-> <<"A">>, artifacts |-> <<y>>]>> :
                       x, y \in WireArtifacts}

\* The file beside the image is asked first, then every search directory.
identity_matches(expected, actual) == expected = actual
locate(expected, files) ==
    LET there == SelectSeq(files, LAMBDA f : f.build # "none")
        exact == {i \in DOMAIN there : identity_matches(expected, there[i].build)}
    IN  IF expected = "none" THEN [kind |-> "NoDebugDirectory"]
        ELSE IF exact # {} THEN [kind |-> "Found", path |-> there[CHOOSE i \in exact : \A j \in exact : i <= j].path]
        ELSE IF there = <<>> THEN [kind |-> "NotFound"] ELSE [kind |-> "Mismatched", rejected |-> Len(there)]

\* Every address a module's frames mention is asked once.
build_line_cache(nmodules, found, frames, requested) ==
    [m \in 1..nmodules |->
        IF ~requested \/ m \notin found THEN {}
        ELSE {frames[i].relative_address : i \in {j \in DOMAIN frames : frames[j].module_index = m - 1}}]
resolve_lines(addresses, known) == {a \in addresses : a <= 3 /\ a \in known}
lookup_line(cache, f, known) ==
    IF f.module_index + 1 \in DOMAIN cache THEN f.relative_address \in resolve_lines(cache[f.module_index + 1], known) ELSE FALSE

\* The proof of a split: the right name, from the file the split produced.
resolution_image(mechanism) == IF mechanism = "LinkerPdb" THEN "binary" ELSE "symbols"
verify_resolves(mechanism, r) ==
    IF r.address = "unknown" THEN "FunctionAddressUnknown"
    ELSE IF r.status # "Resolved" \/ r.function # "f" THEN "Unresolved"
    ELSE IF mechanism # "LinkerPdb" /\ r.file # resolution_image(mechanism) THEN "IncompleteSplit"
    ELSE "Ok"
module_reports(symbols) ==
    [status |-> IF symbols.kind = "Found" THEN "Resolved" ELSE symbols.kind,
     symbol_source |-> IF symbols.kind = "Found" THEN <<symbols.source>> ELSE <<>>,
     rejected |-> IF symbols.kind = "Mismatched" THEN symbols.rejected ELSE 0]

FreshValues ==
    [phase : {"capture"}, c : WireCaptures]
    \cup [phase : {"report"}, m : WireReports]
    \cup [phase : {"frame"}, f : WireFrames]
    \cup [phase : {"table"}, symbols : Symbols, base : 0..3, a : 0..5]
    \cup [phase : {"line"}, table : LineRanges, a : 0..5]
    \cup [phase : {"hex"}, v : UNION {[1..k -> {"f", "F", "-", "x"}] : k \in 0..4}, length : {0, 2}, hyphens : BOOLEAN]
    \cup [phase : {"guid"}, age : 1..2]
    \cup [phase : {"manifest"}, modules : WireManifests]
    \cup [phase : {"locate"}, expected : {"none", "A"}, builds : [1..3 -> {"none", "A", "B"}]]
    \cup [phase : {"lines"}, requested : BOOLEAN, found : SUBSET {1, 2}, index : 0..2, address : 0..4, known : {{}, {1, 4}}]
    \cup [phase : {"proof"}, mechanism : {"GnuDebugLink", "DsymBundle", "LinkerPdb"},
          r : [address : {"known", "unknown"}, status : {"Resolved", "Mismatched"}, function : {"f", "g"}, file : {"symbols", "binary", "cache"}]]
    \cup [phase : {"module"}, symbols : [kind : {"Found"}, source : {1, 5}] \cup [kind : {"Mismatched"}, rejected : 1..2]
                                      \cup [kind : {"NotFound", "NoDebugDirectory"}]]
    \cup [phase : {"frames"}, symbols : Symbols, modules : {<<>>, <<"Resolved">>, <<"Mismatched", "Resolved">>},
          frames : {<<[module_index |-> i, relative_address |-> a], [module_index |-> 1, relative_address |-> 2]>> : i \in 0..2, a \in 0..4}]

(***************************************************************************)
(* The specification                                                       *)
(***************************************************************************)
Init ==
    /\ facet \in {"discover", "servers", "split", "client", "value"}
    /\ host \in IF facet \in {"discover", "split"} THEN {"linux", "macos", "windows"} ELSE {"any"}
    /\ walk \in IF facet = "discover" THEN FreshWalks ELSE {Off}
    /\ servers \in IF facet = "servers" THEN FreshServers ELSE {Off}
    /\ split \in IF facet = "split" THEN FreshSplits ELSE {Off}
    /\ client \in IF facet = "client" THEN FreshClients ELSE {Off}
    /\ value \in IF facet = "value" THEN FreshValues ELSE {Off}

DiscoverNext ==
    \/ \E p \in {1, 3} : FileReplaced(p)
    \/ captured_image_still_matches \/ discover_module \/ resolve_symbols \/ WalkEnds \/ LineTable_from_path
ServersNext == resolve_from_servers \/ server_symbols
SplitNext ==
    \/ split_debug_symbols \/ probe_tool \/ CarveSymbols \/ StripToSibling \/ AddDebugLink \/ RenameLinked
    \/ RemoveSiblings \/ split_dsym_bundle \/ inspect_gnu_debuglink \/ locate_linker_pdb \/ SplitProcessDies
ClientNext ==
    \/ SymbolizerWorker_symbolize \/ WriteCapture \/ WorkerReads \/ WorkerFails \/ WorkerWrites \/ WorkerCrashes
    \/ wait_with_output \/ ClientDropped
Next == DiscoverNext \/ ServersNext \/ SplitNext \/ ClientNext

Spec == Init /\ [][Next]_vars

(***************************************************************************)
(* Properties                                                              *)
(***************************************************************************)
\* Names come only from a file that is the expected build, although files are
\* replaced while the tiers are walked; the expected build is the captured one
\* when the capture declares it, or when the image has the captured hash and is
\* not replaced meanwhile (captured_image_still_matches, resolve_symbols).
SymbolsNameTheBuild ==
    facet = "discover" =>
        /\ walk.table # "none" => walk.table = walk.expected
        /\ walk.expected # "none" /\ (walk.m.debug_id = "A" \/ (walk.m.code_id = "A" /\ walk.replaced = {})) => walk.expected = "A"
        /\ walk.at = "Found" => walk.table # "none"
        /\ walk.at = "Mismatched" => walk.rejected > 0

\* Without a replacement the tiers decide: the first candidate that is the
\* expected build wins, and a search that finds nothing says whether anything
\* was there (candidates, resolve_symbols).
FirstExactWins ==
    facet = "discover" /\ walk.replaced = {} /\ walk.expected # "none" =>
        LET cs == candidates(walk.m, walk.claim)
            exact == {i \in DOMAIN cs : walk.disk[cs[i].path] = walk.expected /\ cs[i].claim \in {"none", walk.expected}}
            there == {i \in DOMAIN cs : walk.disk[cs[i].path] # "none"}
        IN  /\ walk.at = "Found" => exact # {} /\ \A i \in exact : walk.i <= i
            /\ walk.at = "NotFound" => there = {}
            /\ walk.at = "Mismatched" => exact = {} /\ walk.rejected = Cardinality(there)

\* Servers are asked in order and in bounds: never more of them nor more bytes
\* than allowed (one unit past the limit is read to see it was passed), the
\* download that is kept is the verified one, and a refused one is not kept
\* (resolve_from_servers).
ServersAreBounded ==
    facet = "servers" =>
        /\ servers.i <= MaxServers + 1 /\ servers.aggregate <= MaxAggregate + 1
        /\ servers.temp # {} <=> servers.at = "Found"
        /\ \A k \in servers.temp : servers.list[k].kind = "match" /\ servers.list[k].size <= MaxResponse
        /\ servers.at = "Mismatched" <=> servers.at \in {"Mismatched", "NotFound"} /\ servers.rejected > 0

\* A split that reports success has moved the debug information into a file of
\* the same build that the binary's link checksums; on Linux the shipped binary
\* is at every moment, crash included, a whole one, and a call that returns
\* leaves no siblings (split_gnu_debuglink, inspect_gnu_debuglink).
SplitPairHolds ==
    facet = "split" =>
        /\ split.result = "Ok" /\ host # "windows" => split.symbol.debug /\ split.symbol.id = split.identity
        /\ split.result = "Ok" /\ host = "linux" => ~split.binary.debug /\ split.binary.link = "crc"
        /\ host = "linux" => split.binary.whole /\ (split.original \/ split.binary.link # "missing")
        /\ split.at = "done" /\ split.result # "crashed" => split.stripped = NoFile /\ split.linked = NoFile

\* The client takes a report only from a worker that read the whole capture and
\* ended well, and then has all of it; the two never wait for each other's
\* pipe; a dropped client leaves no worker (SymbolizerWorker::symbolize, run).
WorkerReportsWhole ==
    facet = "client" =>
        /\ client.result = "Ok" => client.have = client.report /\ client.got = client.input /\ client.valid /\ client.input <= MaxInput
        /\ ~(client.parent = "write" /\ client.inp = Pipe /\ client.worker = "write" /\ client.outp = Pipe)
        /\ client.result = "dropped" => client.worker = "dead"

\* A capture, report or frame read back is the one sent, unknown numbers apart; a
\* table names the function whose start is the last one not above the address
\* and a line only inside its range; identities agree whichever side computes
\* them; a report keeps every frame and its offset.
SymbolValuesAgree ==
    facet = "value" =>
        CASE value.phase = "capture" -> decode_wire(encode_wire(value.c)) = value.c
          [] value.phase = "report" ->
                 DecodeReport(Encode(ModuleReport, value.m)) =
                     [value.m EXCEPT !.status = IF @ \in 0..4 THEN @ ELSE 0, !.symbol_source = IF @ \in {<<-1>>, <<7>>} THEN <<>> ELSE @]
          [] value.phase = "frame" ->
                 DecodeFrame(Encode(SymFrame, value.f)) = [value.f EXCEPT !.status = IF @ \in 0..2 THEN @ ELSE 0]
          [] value.phase = "table" ->
                 LET t == from_file(value.symbols, value.base)
                     code == {e \in value.symbols : e.kind = "Text" /\ e.address >= value.base /\ e.address - value.base <= value.a}
                 IN  lookup(t, value.a) = {e.name : e \in {x \in code : \A y \in code : y.address <= x.address}}
          [] value.phase = "line" ->
                 LET hit == {i \in DOMAIN value.table : value.table[i].start <= value.a /\ value.a < value.table[i].end}
                 IN  LineTable_lookup(value.table, value.a) = IF hit = {} THEN <<>> ELSE <<value.table[CHOOSE i \in hit : TRUE].line>>
          [] value.phase = "hex" ->
                 LET n == normalized_hex(value.v, value.length, value.hyphens)
                 IN  n # <<>> => /\ normalized_hex(n, value.length, value.hyphens) = n
                                 /\ Len(n) % 2 = 0 /\ ToSet(n) \subseteq {"f", "0"}
          [] value.phase = "guid" ->
                 LET rfc == [i \in 1..16 |-> i]
                     id == identity_of([build_id |-> <<>>, uuid |-> <<>>, guid |-> StoredGuid(rfc), age |-> value.age])
                 IN  /\ id = <<"pdb", rfc, value.age>>
                     /\ cache_candidate(id, "n") = server_key(id, "n")
          [] value.phase = "manifest" ->
                 LET w == encode_manifest(value.modules)
                     good == \A m \in ToSet(value.modules) : m.identity # <<>> /\ \A a \in ToSet(m.artifacts) : a.format # 3
                 IN  /\ decode_manifest(w) = IF good THEN <<value.modules>> ELSE <<>>
                     /\ \A c \in ToSet(ManifestCandidates(w)) :
                           /\ c.path \in {"inside", "linkInside"}
                           /\ \E m \in ToSet(value.modules) : m.identity = <<c.claim>> /\ c.path \in {a.relative_path : a \in ToSet(m.artifacts)}
          [] value.phase = "locate" ->
                 LET files == [i \in 1..3 |-> [path |-> i, build |-> value.builds[i]]]
                     r == locate(value.expected, files)
                     exact == {i \in 1..3 : value.builds[i] = value.expected}
                 IN  /\ r.kind = "Found" => r.path \in exact /\ \A i \in exact : r.path <= i
                     /\ r.kind = "NotFound" => value.builds = [i \in 1..3 |-> "none"]
                     /\ r.kind = "Mismatched" => exact = {} /\ r.rejected = Cardinality({i \in 1..3 : value.builds[i] = "B"})
          [] value.phase = "lines" ->
                 LET f == [module_index |-> value.index, relative_address |-> value.address]
                     cache == build_line_cache(2, value.found, <<f, f>>, value.requested)
                 IN  lookup_line(cache, f, value.known) <=>
                         value.requested /\ value.index + 1 \in value.found /\ value.address \in value.known /\ value.address <= 3
          [] value.phase = "proof" ->
                 verify_resolves(value.mechanism, value.r) = "Ok" =>
                     value.r.function = "f" /\ (value.mechanism # "LinkerPdb" => value.r.file = "symbols")
          [] value.phase = "module" ->
                 LET m == module_reports(value.symbols)
                 IN  /\ m.status = "Resolved" <=> m.symbol_source # <<>>
                     /\ m.rejected > 0 <=> m.status = "Mismatched"
          [] OTHER ->
                 LET t == from_file(value.symbols, 0)
                     r == symbolize_thread(value.modules, t, value.frames)
                 IN  \A i \in DOMAIN value.frames :
                        /\ r[i].at = value.frames[i].relative_address
                        /\ r[i].status = "Resolved" <=> r[i].function # {}
                        /\ r[i].status = "ModuleUnknown" <=> value.frames[i].module_index >= Len(value.modules)
                        /\ render_frame(r[i]) = "name" <=> r[i].status = "Resolved"
=============================================================================
