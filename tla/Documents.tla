----------------------------- MODULE Documents -----------------------------
(***************************************************************************)
(* The data facades: the SQLite connection, content digests, tree          *)
(* fingerprints, JSON documents, command lines and the C++ scanner.        *)
(* Independent parts, one per facet:                                       *)
(*   backup  Connection::backup_to against writers, rivals and a crash;    *)
(*   tx      immediate transactions of two connections;                    *)
(*   read    the bounded digest readers, buffered or mapped;               *)
(*   tree    blake3_tree: scan, prune, hash on workers, aggregate;         *)
(*   value   pure functions: query limits, JSON, schemas, signatures.      *)
(***************************************************************************)
EXTENDS Integers, Sequences, FiniteSets, SequencesExt

CONSTANTS Pages,            \* steps a backup needs to copy the database
          BackupMaxRetries, \* BACKUP_MAX_RETRIES (10 in the code)
          MaxStatements,    \* statements of one transaction
          MaxInput,         \* bytes of a hashed input; also stands for u64::MAX
          BufferLength,     \* READ_BUFFER_LENGTH
          MaxFiles,         \* TreeHashOptions.maximum_files
          MaxWorkers        \* TreeHashOptions.workers after clamping

VARIABLES facet, bk, tx, rd, tr, value

vars == <<facet, bk, tx, rd, tr, value>>

Off == [phase |-> "off"]
Others(f) ==
    /\ UNCHANGED <<facet, value>>
    /\ IF f = "backup" THEN TRUE ELSE UNCHANGED bk
    /\ IF f = "tx" THEN TRUE ELSE UNCHANGED tx
    /\ IF f = "read" THEN TRUE ELSE UNCHANGED rd
    /\ IF f = "tree" THEN TRUE ELSE UNCHANGED tr

(***************************************************************************)
(* Connection::backup_to.  `dest` is what the destination names, `stage`   *)
(* whether the private staging directory exists, `copied` the pages of the *)
(* staged database that belong to the source's current version (a commit   *)
(* on the source restarts SQLite's backup), `durable` whether the staged   *)
(* file was synced, `rival` whether another process ever created `dest`.   *)
(***************************************************************************)
FreshBackups == {[phase |-> "on", at |-> "idle", dest |-> d, rival |-> d = "theirs", stage |-> FALSE, copied |-> 0, whole |-> FALSE, durable |-> FALSE,
                  retries |-> 0, commits |-> 0, out |-> "none"] : d \in {"none", "theirs"}}
Bk(r) == bk' = r /\ Others("backup")
BkAt(at) == facet = "backup" /\ bk.at = at
\* Every return drops the staging directory and what is in it.
BackupReturns(r, out) == [r EXCEPT !.at = "returned", !.stage = FALSE, !.out = out]

StageBackup(made) ==
    /\ BkAt("idle")
    /\ Bk(IF bk.dest # "none" THEN BackupReturns(bk, "exists")
          ELSE IF ~made THEN BackupReturns(bk, "io")
          ELSE [bk EXCEPT !.at = "copy", !.stage = TRUE])
\* backup.step(100) and what the loop does with each result.
StepBackup(r) ==
    /\ BkAt("copy")
    /\ LET n == bk.copied + 1
       IN  CASE r = "busy" -> Bk(IF bk.retries + 1 = BackupMaxRetries THEN BackupReturns(bk, "busy") ELSE [bk EXCEPT !.retries = @ + 1])
             [] r = "error" -> Bk(BackupReturns(bk, "sqlite"))
             [] OTHER -> Bk(IF n = Pages THEN [bk EXCEPT !.at = "sync", !.copied = n, !.whole = TRUE] ELSE [bk EXCEPT !.copied = n, !.retries = 0])
BackupDeadline == BkAt("copy") /\ Bk(BackupReturns(bk, "busy"))
SyncBackup(ok) == BkAt("sync") /\ Bk(IF ok THEN [bk EXCEPT !.at = "publish", !.durable = TRUE] ELSE BackupReturns(bk, "io"))
\* hard_link never replaces an entry.
PublishBackup(ok) ==
    /\ BkAt("publish")
    /\ Bk(IF bk.dest # "none" THEN BackupReturns(bk, "exists")
          ELSE IF ok THEN BackupReturns([bk EXCEPT !.dest = "ours"], "ok") ELSE BackupReturns(bk, "io"))
\* External: another process, another connection, the machine.
RivalCreates == facet = "backup" /\ bk.at \notin {"crashed"} /\ bk.dest = "none" /\ Bk([bk EXCEPT !.dest = "theirs", !.rival = TRUE])
SourceCommits == BkAt("copy") /\ bk.commits < 1 /\ Bk([bk EXCEPT !.copied = 0, !.commits = @ + 1])
MachineCrashes == facet = "backup" /\ bk.at \notin {"idle", "crashed"} /\ Bk([bk EXCEPT !.at = "crashed"])
BackupNext ==
    \/ \E b \in BOOLEAN : StageBackup(b) \/ SyncBackup(b) \/ PublishBackup(b)
    \/ \E r \in {"ok", "busy", "error"} : StepBackup(r)
    \/ BackupDeadline \/ RivalCreates \/ SourceCommits \/ MachineCrashes

(***************************************************************************)
(* Transaction.  `sql` is SQLite's own transaction state of a connection,  *)
(* `active` the handle's flag, `wrote` the statements executed inside the  *)
(* SQL transaction, `said` those reported successful to the caller, `kept` *)
(* those in the database; a statement executed with no SQL transaction     *)
(* open is its own transaction and is kept at once.                        *)
(***************************************************************************)
Connections == {1, 2}
FreshConnection == [handle |-> "none", active |-> FALSE, sql |-> FALSE, wrote |-> 0, said |-> 0, failed |-> FALSE, kept |-> 0, out |-> "none"]
FreshTransactions == {[phase |-> "on", conns |-> [c \in Connections |-> FreshConnection]]}
Tx(c, r) == tx' = [tx EXCEPT !.conns[c] = r] /\ Others("tx")
Live(c) == facet = "tx" /\ tx.conns[c].handle = "live"
RolledBack(r) == [r EXCEPT !.sql = FALSE, !.wrote = 0]
\* ROLLBACK with nothing open is an error the handle ignores.
abort(r) == IF r.active THEN [RolledBack(r) EXCEPT !.active = FALSE] ELSE r
Transaction_result(r, ok) == IF ok THEN r ELSE abort([r EXCEPT !.failed = TRUE])
Dropped(r, out) == [abort(r) EXCEPT !.handle = "gone", !.out = out]
begin_immediate(c) ==
    /\ facet = "tx" /\ tx.conns[c].handle = "none"
    /\ IF \E d \in Connections \ {c} : tx.conns[d].sql
       THEN Tx(c, [tx.conns[c] EXCEPT !.handle = "gone", !.out = "busy"])
       ELSE Tx(c, [tx.conns[c] EXCEPT !.handle = "live", !.active = TRUE, !.sql = TRUE])
\* `how`: the statement succeeds, fails alone, or fails and SQLite rolls back.
Statement(r, how) ==
    CASE how = "ok" -> IF r.sql THEN [r EXCEPT !.wrote = @ + 1, !.said = @ + 1] ELSE [r EXCEPT !.kept = @ + 1, !.said = @ + 1]
      [] how = "fails" -> r
      [] OTHER -> RolledBack(r)
require_active(r) == r.active
Transaction_execute(c, how) ==
    /\ Live(c) /\ tx.conns[c].said < MaxStatements
    /\ IF require_active(tx.conns[c]) THEN Tx(c, Transaction_result(Statement(tx.conns[c], how), how = "ok"))
       ELSE Tx(c, [tx.conns[c] EXCEPT !.failed = TRUE])
\* A query that breaks its limits aborts the transaction like any failure.
Transaction_query(c, ok) ==
    /\ Live(c)
    /\ IF require_active(tx.conns[c]) THEN Tx(c, Transaction_result(tx.conns[c], ok)) ELSE Tx(c, [tx.conns[c] EXCEPT !.failed = TRUE])
\* COMMIT with nothing open fails; a failed COMMIT leaves the handle active and the drop rolls back.
commit(c, ok) ==
    /\ Live(c)
    /\ LET r == tx.conns[c]
       IN  Tx(c, IF r.sql /\ ok THEN Dropped([r EXCEPT !.active = FALSE, !.sql = FALSE, !.kept = @ + r.wrote, !.wrote = 0], "ok") ELSE Dropped(r, "error"))
rollback(c) ==
    /\ Live(c)
    /\ LET r == tx.conns[c] IN Tx(c, IF r.sql THEN Dropped([RolledBack(r) EXCEPT !.active = FALSE], "undone") ELSE Dropped(r, "error"))
DropTransaction(c) == Live(c) /\ Tx(c, Dropped(tx.conns[c], "undone"))
TransactionNext == \E c \in Connections :
    \/ begin_immediate(c) \/ rollback(c) \/ DropTransaction(c)
    \/ \E how \in {"ok", "fails", "undoes"} : Transaction_execute(c, how)
    \/ \E ok \in BOOLEAN : Transaction_query(c, ok) \/ commit(c, ok)

(***************************************************************************)
(* The bounded readers.  `limit` -1 is no maximum, `size` what the input   *)
(* holds, `pos` what was read of it, `hashed` what went into the digest.   *)
(***************************************************************************)
Least(a, b) == IF a < b THEN a ELSE b
\* Mapping is tried first when asked for; a file that does not open is an error.
blake3_open_file(m) == IF m THEN "map" ELSE "loop"
blake3_file(m, opened) == IF opened THEN blake3_open_file(m) ELSE "returned"
FreshReads == {[phase |-> "on", at |-> blake3_file(m, opened), algo |-> a, limit |-> l, size |-> n, pos |-> 0, hashed |-> 0, grown |-> FALSE, interrupted |-> FALSE, out |-> "none"]
                 : a \in {"blake3"}, l \in -1 .. MaxInput, n \in 0 .. MaxInput - 1, m, opened \in BOOLEAN}
              \cup {[phase |-> "on", at |-> "loop", algo |-> "sha256", limit |-> l, size |-> n, pos |-> 0, hashed |-> 0, grown |-> FALSE, interrupted |-> FALSE, out |-> "none"]
                 : l \in 0 .. MaxInput, n \in 0 .. MaxInput - 1}
Rd(r) == rd' = r /\ Others("read")
RdAt(at) == facet = "read" /\ rd.at = at
Digest(r, out) == [r EXCEPT !.at = "returned", !.out = out]
\* At most one byte past the accepted prefix is asked for.
next_read_length(r) == IF r.limit = -1 THEN BufferLength ELSE Least(r.limit - r.hashed, BufferLength - 1) + 1
Sha256Capacity(r) == Least(Least(r.limit - r.hashed + 1, MaxInput), BufferLength)
ReadLength(r) == IF r.algo = "blake3" THEN next_read_length(r) ELSE Sha256Capacity(r)
\* One read returned n > 0 bytes.
Absorb(r, n) == IF r.limit # -1 /\ n > r.limit - r.hashed THEN Digest([r EXCEPT !.pos = @ + n], "limit") ELSE [r EXCEPT !.pos = @ + n, !.hashed = @ + n]
blake3_reader(n) == RdAt("loop") /\ rd.algo = "blake3" /\ n <= Least(ReadLength(rd), rd.size - rd.pos) /\ Rd(Absorb(rd, n))
sha256_reader(n) == RdAt("loop") /\ rd.algo = "sha256" /\ n <= Least(ReadLength(rd), rd.size - rd.pos) /\ Rd(Absorb(rd, n))
ReadEnds == RdAt("loop") /\ rd.pos = rd.size /\ Rd(Digest(rd, "ok"))
\* An interrupted read fails a BLAKE3 digest and is repeated for SHA-256.
ReadInterrupted == RdAt("loop") /\ ~rd.interrupted /\ Rd(IF rd.algo = "blake3" THEN Digest([rd EXCEPT !.interrupted = TRUE], "io") ELSE [rd EXCEPT !.interrupted = TRUE])
\* blake3_file with memory_map: the whole file at once, or the buffered path.
blake3_file_memory_mapped(mapped) ==
    /\ RdAt("map")
    /\ Rd(IF rd.size = 0 THEN [rd EXCEPT !.at = "loop"]
          ELSE IF rd.limit # -1 /\ rd.size > rd.limit THEN Digest(rd, "limit")
          ELSE IF mapped THEN Digest([rd EXCEPT !.pos = rd.size, !.hashed = rd.size], "ok")
          ELSE [rd EXCEPT !.at = "loop"])
\* External: a writer appends while the buffered path reads.
InputGrows == RdAt("loop") /\ ~rd.grown /\ Rd([rd EXCEPT !.size = @ + 1, !.grown = TRUE])
ReadNext ==
    \/ \E n \in 1 .. BufferLength : blake3_reader(n) \/ sha256_reader(n)
    \/ ReadEnds \/ ReadInterrupted \/ InputGrows
    \/ \E b \in BOOLEAN : blake3_file_memory_mapped(b)

(***************************************************************************)
(* blake3_tree.  A path is a sequence of component numbers; a pattern is a *)
(* literal path or (`star`) a literal directory followed by a wildcard,    *)
(* which crosses separators.  `kinds[p]` is what the tree holds at p.      *)
(***************************************************************************)
TreePaths == {<<3>>, <<1, 1>>, <<1, 2>>, <<1, 3, 1>>, <<2, 1>>}
Patterns == {[lit |-> <<>>, star |-> TRUE], [lit |-> <<1>>, star |-> TRUE], [lit |-> <<1, 3>>, star |-> TRUE], [lit |-> <<1>>, star |-> FALSE],
             [lit |-> <<1, 1>>, star |-> FALSE], [lit |-> <<3>>, star |-> FALSE]}
is_match(set, path) == \E p \in set : IF p.star THEN IsStrictPrefix(p.lit, path) ELSE p.lit = path
FreshTrees ==
    {[phase |-> "on", at |-> "scan", kinds |-> [p \in TreePaths |-> IF p = odd THEN k ELSE base[p]], include |-> i, exclude |-> e, workers |-> w,
      left |-> TreePaths, found |-> <<>>, done |-> <<>>, out |-> <<"none">>]
       : base \in {[p \in TreePaths |-> IF p \in s THEN "file" ELSE "absent"] : s \in {TreePaths \ {<<2, 1>>}, {<<1, 1>>, <<1, 3, 1>>, <<3>>}, {<<1, 2>>, <<2, 1>>}}},
         odd \in {<<1, 1>>}, k \in {"file", "link", "big", "undecodable"},
         i \in {{}} \cup {{p} : p \in Patterns} \cup {{[lit |-> <<1, 3>>, star |-> TRUE], [lit |-> <<1, 1>>, star |-> FALSE]}, {[lit |-> <<>>, star |-> TRUE], [lit |-> <<1>>, star |-> TRUE]}},
         e \in {{}} \cup {{p} : p \in Patterns}, w \in 1 .. MaxWorkers}
Tr(r) == tr' = r /\ Others("tree")
TrAt(at) == facet = "tree" /\ tr.at = at
TreeFails(why) == [tr EXCEPT !.at = "returned", !.out = <<why>>, !.left = {}, !.found = <<>>, !.done = <<>>]
\* The directory part of a pattern before its first wildcard; {} stands for None.
Prefix(p) == IF p.star THEN p.lit ELSE Front(p.lit)
include_prefixes(i) == IF i = {} \/ \E p \in i : Prefix(p) = <<>> THEN {} ELSE {Prefix(p) : p \in i}
\* The predicate DirectoryWalk asks of every directory below the root.
KeepDirectory(t, dir) ==
    LET prefixes == include_prefixes(t.include)
    IN  /\ ~is_match(t.exclude, dir)
        /\ ~\E p \in t.exclude : p.star /\ p.lit = dir
        /\ prefixes = {} \/ \E p \in prefixes : IsPrefix(p, dir) \/ IsPrefix(dir, p)
Directories(path) == {SubSeq(path, 1, n) : n \in 1 .. Len(path) - 1}
walk(t) == {p \in t.left : t.kinds[p] # "absent" /\ \A d \in Directories(p) : KeepDirectory(t, d)}
Selected(t, p) == ~is_match(t.exclude, p) /\ (t.include = {} \/ is_match(t.include, p))
TakeEntry(p) ==
    /\ TrAt("scan") /\ p \in walk(tr)
    /\ LET t == [tr EXCEPT !.left = @ \ {p}]
       IN  Tr(CASE tr.kinds[p] = "link" -> t
                [] tr.kinds[p] = "undecodable" -> TreeFails("undecodable")
                [] ~Selected(tr, p) -> t
                [] Len(tr.found) >= MaxFiles -> TreeFails("limit")
                [] OTHER -> [t EXCEPT !.found = Append(@, p)])
\* Path order of the sorted inventory.
Before(a, b) == \E n \in 1 .. Len(b) : (n > Len(a) \/ a[n] < b[n]) /\ \A k \in 1 .. n - 1 : a[k] = b[k]
Chunk(files, workers) == LET count == Least(workers, Len(files)) IN IF Len(files) = 0 THEN 1 ELSE (Len(files) + count - 1) \div count
Chunks(files, size) == [i \in 1 .. (Len(files) + size - 1) \div size |-> SubSeq(files, (i - 1) * size + 1, Least(i * size, Len(files)))]
SpawnHashers ==
    /\ TrAt("scan") /\ walk(tr) = {}
    /\ LET files == SetToSortSeq({tr.found[i] : i \in DOMAIN tr.found}, Before)
           parts == Chunks(files, Chunk(files, tr.workers))
       IN  Tr([tr EXCEPT !.at = "hash", !.left = {}, !.found = parts, !.done = [i \in DOMAIN parts |-> <<>>]])
Ended(i) == Len(tr.done[i]) = Len(tr.found[i]) \/ (tr.done[i] # <<>> /\ Last(tr.done[i])[1] = "failed")
\* A worker digests the next file of its chunk; the first failure ends it.
hash_files(i) ==
    /\ TrAt("hash") /\ ~Ended(i)
    /\ LET p == tr.found[i][Len(tr.done[i]) + 1]
       IN  Tr([tr EXCEPT !.done[i] = Append(@, IF tr.kinds[p] = "big" THEN <<"failed", p>> ELSE <<"digest", p>>)])
\* Joined in spawn order, zipped with the sorted names and counted.
AggregateTree ==
    /\ TrAt("hash") /\ \A i \in DOMAIN tr.found : Ended(i)
    /\ LET names == FlattenSeq(tr.found)
           digests == FlattenSeq(tr.done)
       IN  IF \E k \in DOMAIN digests : digests[k][1] = "failed" THEN Tr(TreeFails("unreadable"))
           ELSE Tr([tr EXCEPT !.at = "returned", !.out = <<"ok", [k \in DOMAIN names |-> <<names[k], digests[k]>>], Len(names)>>, !.found = <<Len(tr.found)>>, !.done = <<>>])
TreeNext ==
    \/ \E p \in TreePaths : TakeEntry(p)
    \/ SpawnHashers \/ AggregateTree
    \/ \E i \in 1 .. MaxWorkers + 1 : TrAt("hash") /\ i \in DOMAIN tr.found /\ hash_files(i)

(***************************************************************************)
(* SQLite values and limits.  A stored cell is [kind, size]; the row and   *)
(* cell overheads count one each.                                          *)
(***************************************************************************)
Stored == [null |-> "NULL", integer |-> "INTEGER", real |-> "REAL", text |-> "TEXT", blob |-> "BLOB"]
Kind(stored) == CHOOSE k \in DOMAIN Stored : Stored[k] = stored
Cells == [kind : {"INTEGER", "BLOB"}, size : {0, 3}] \cup {[kind |-> "TEXT", size |-> 0 - 1], [kind |-> "TEXT", size |-> 1]}
Binding_to_sql(v) == [kind |-> Stored[v.kind], size |-> v.size]
\* Scalars cost a fixed amount, here 1; a text of size -1 is not UTF-8.
value_cost(c) == IF c.kind \in {"TEXT", "BLOB"} THEN (IF c.size < 0 THEN 1 ELSE c.size) ELSE 1
value_from(c) == IF c.kind = "TEXT" /\ c.size < 0 THEN [kind |-> "error", size |-> 0] ELSE [kind |-> Kind(c.kind), size |-> c.size]
QueryRow(acc, row, most) ==
    LET used == acc.used + 1 + Len(row) + FoldSeq(LAMBDA c, n : n + value_cost(c), 0, row)
        copied == [k \in DOMAIN row |-> value_from(row[k])]
    IN  IF acc.out # "ok" THEN acc
        ELSE IF Len(acc.rows) = most.rows \/ used > most.bytes THEN [acc EXCEPT !.out = "limit", !.rows = <<>>]
        ELSE IF \E k \in DOMAIN copied : copied[k].kind = "error" THEN [acc EXCEPT !.out = "sqlite", !.rows = <<>>]
        ELSE [acc EXCEPT !.used = used, !.rows = Append(@, copied)]
query(rows, most) ==
    IF most.rows = 0 \/ most.bytes = 0 THEN [out |-> "invalid", used |-> 0, rows |-> <<>>]
    ELSE FoldLeft(LAMBDA acc, row : QueryRow(acc, row, most), [out |-> "ok", used |-> 0, rows |-> <<>>], rows)
map_error(code) == IF code \in {"DatabaseBusy", "DatabaseLocked"} THEN "busy" ELSE "sqlite"
\* u32 counters stand modulo 4: a frame count past the width wraps.
checkpoint(row) == IF Len(row) < 3 \/ \E k \in 1 .. 3 : row[k] < 0 THEN <<>> ELSE <<row[1] # 0, row[2] % 4, row[3] % 4>>
integrity_check(rows) == IF rows = <<>> THEN "invalid" ELSE IF Head(rows) = "ok" THEN "ok" ELSE "failed"
open_with_busy_timeout(wait, most) == IF wait > most THEN {} ELSE {"busy_timeout", "foreign_keys", "WAL"}
open_read_only_with_busy_timeout(wait, most) == IF wait > most THEN {} ELSE {"busy_timeout", "read_only"}
QueryCases == {[phase |-> "query", rows |-> r, most |-> m] : r \in UNION {[1 .. n -> [1 .. 1 -> Cells]] : n \in 0 .. 2}, m \in [rows : 0 .. 2, bytes : {0, 3, 6, 10}]}

(***************************************************************************)
(* Digest text: bytes are pairs of hexadecimal digits.                     *)
(***************************************************************************)
Hex == <<"0", "1", "9", "a", "f">>
HexUpper == <<"0", "1", "9", "A", "F">>
Nibbles == 1 .. Len(Hex)
to_hex(bytes) == FlattenSeq([k \in DOMAIN bytes |-> <<Hex[bytes[k][1]], Hex[bytes[k][2]]>>])
Sha256_to_hex(bytes) == FoldLeft(LAMBDA out, b : out \o <<Hex[b[1]], Hex[b[2]]>>, <<>>, bytes)
hex_digit(c) == IF \E n \in Nibbles : c \in {Hex[n], HexUpper[n]} THEN CHOOSE n \in Nibbles : c \in {Hex[n], HexUpper[n]} ELSE 0
from_hex(text, length) ==
    IF Len(text) # 2 * length THEN <<"length">>
    ELSE LET n == [k \in DOMAIN text |-> hex_digit(text[k])]
         IN  IF \E k \in DOMAIN n : n[k] = 0 THEN <<"character">> ELSE <<"ok", [b \in 1 .. length |-> <<n[2 * b - 1], n[2 * b]>>]>>
HexCases == {[phase |-> "hex", bytes |-> b] : b \in [1 .. 2 -> {<<1, 4>>, <<5, 2>>, <<3, 3>>}]}
            \cup {[phase |-> "nothex", text |-> t] : t \in {<<"0">>, <<"0", "g", "0", "0">>, <<"0", "0", "0", "0", "0">>, <<"A", "0", "F", "1">>}}

(***************************************************************************)
(* JSON.  A document is a scalar, an array or an object; its children are  *)
(* <<key, document>> pairs (key 0 in an array); a decoded object is        *)
(* "object" (merged) or "members" (unmerged).                             *)
(***************************************************************************)
MaxNodes == 4
MaxDepth == 1
NonFinite == 9
Scalar(v) == [t |-> "scalar", v |-> v, c |-> <<>>]
Arr(c) == [t |-> "array", v |-> 0, c |-> [k \in DOMAIN c |-> <<0, c[k]>>]]
Obj(c) == [t |-> "members", v |-> 0, c |-> c]
Flat == {Scalar(1), Scalar(2)}
Lists(s, n) == UNION {[1 .. k -> s] : k \in 0 .. n}
Keyed(s, n) == Lists({<<1, d>> : d \in s} \cup {<<2, d>> : d \in s}, n)
Shallow == Flat \cup {Arr(c) : c \in Lists({Scalar(1)}, 4)} \cup {Obj(c) : c \in Keyed(Flat, 2)}
Documents_ == Shallow \cup {Arr(c) : c \in Lists(Shallow, 2)} \cup {Obj(c) : c \in Keyed({Scalar(1), Arr(<<>>), Arr(<<Scalar(1)>>), Obj(<<<<1, Scalar(1)>>, <<1, Scalar(2)>>>>)}, 2)}
\* One budgeted visit: <<error or "ok", nodes left>>.
visit(depth, remaining) == IF depth > MaxDepth THEN <<"deep", remaining>> ELSE IF remaining = 0 THEN <<"nodes", 0>> ELSE <<"ok", remaining - 1>>
Kids(d) == [k \in DOMAIN d.c |-> d.c[k][2]]
WithKids(d, kids) == [d EXCEPT !.c = [k \in DOMAIN d.c |-> <<d.c[k][1], kids[k]>>]]
RECURSIVE Merged(_), convert(_, _, _), MemberSeed_deserialize(_, _, _), validate(_, _, _), Tokens(_), Nodes(_), Height(_)
\* External: serde_json's map keeps one member per key, the last, in key order.
Merged(d) ==
    LET kids == [k \in DOMAIN d.c |-> Merged(Kids(d)[k])]
        last(key) == CHOOSE k \in DOMAIN d.c : d.c[k][1] = key /\ \A j \in DOMAIN d.c : d.c[j][1] = key => j <= k
        keys == SetToSortSeq({d.c[k][1] : k \in DOMAIN d.c}, <)
    IN  CASE d.t = "members" -> [t |-> "object", v |-> 0, c |-> [i \in DOMAIN keys |-> <<keys[i], kids[last(keys[i])]>>]]
          [] d.t = "array" -> Arr(kids)
          [] OTHER -> d
\* Children in order under one budget: <<error or "ok", left, converted>>.
Each(Step(_, _), kids, remaining) ==
    FoldLeft(LAMBDA acc, kid : IF acc[1] # "ok" THEN acc ELSE LET r == Step(kid, acc[2]) IN <<r[1], r[2], Append(acc[3], r[3])>>, <<"ok", remaining, <<>>>>, kids)
convert(d, depth, remaining) ==
    LET here == visit(depth, remaining)
        below == Each(LAMBDA kid, left : convert(kid, depth + 1, left), Kids(d), here[2])
    IN  IF here[1] # "ok" THEN <<here[1], here[2], d>> ELSE IF below[1] # "ok" THEN <<below[1], below[2], d>> ELSE <<"ok", below[2], WithKids(d, below[3])>>
parse(d) == convert(Merged(d), 0, MaxNodes)
\* visit_seq and visit_map: every member in order, repeated keys included.
visit_seq(d, depth, remaining) == Each(LAMBDA kid, left : MemberSeed_deserialize(kid, depth + 1, left), Kids(d), remaining)
visit_map(d, depth, remaining) == Each(LAMBDA kid, left : MemberSeed_deserialize(kid, depth + 1, left), Kids(d), remaining)
MemberSeed_deserialize(d, depth, remaining) ==
    LET here == visit(depth, remaining)
        below == IF d.t = "members" THEN visit_map(d, depth, here[2]) ELSE IF d.t = "array" THEN visit_seq(d, depth, here[2]) ELSE <<"ok", here[2], <<>>>>
    IN  IF here[1] # "ok" THEN <<here[1], here[2], d>> ELSE IF below[1] # "ok" THEN <<below[1], below[2], d>> ELSE <<"ok", below[2], WithKids(d, below[3])>>
\* state.failure names the limit; the parser's own error is InvalidSyntax.
parse_members(d) == MemberSeed_deserialize(d, 0, MaxNodes)
validate(d, depth, remaining) ==
    LET here == visit(depth, remaining)
        below == Each(LAMBDA kid, left : validate(kid, depth + 1, left), Kids(d), here[2])
    IN  IF here[1] # "ok" THEN <<here[1], here[2], d>>
        ELSE IF d.t = "scalar" /\ d.v = NonFinite THEN <<"nonfinite", here[2], d>> ELSE <<below[1], below[2], d>>
\* The document as written: one token per scalar, bracket and key.
Tokens(d) ==
    CASE d.t = "scalar" -> <<<<"value", d.v>>>>
      [] d.t = "array" -> <<<<"[", 0>>>> \o FlattenSeq([k \in DOMAIN d.c |-> Tokens(d.c[k][2])]) \o <<<<"]", 0>>>>
      [] OTHER -> <<<<"{", 0>>>> \o FlattenSeq([k \in DOMAIN d.c |-> <<<<"key", d.c[k][1]>>>> \o Tokens(d.c[k][2])]) \o <<<<"}", 0>>>>
Output_write(out, token, most) == IF out.exceeded \/ 1 > most - Len(out.bytes) THEN [out EXCEPT !.exceeded = TRUE] ELSE [out EXCEPT !.bytes = Append(@, token)]
encode(d, most) ==
    LET checked == validate(d, 0, MaxNodes)
        out == FoldLeft(LAMBDA o, token : Output_write(o, token, most), [bytes |-> <<>>, exceeded |-> FALSE], Tokens(d))
    IN  IF checked[1] # "ok" THEN <<checked[1], <<>>>> ELSE IF out.exceeded THEN <<"output", <<>>>> ELSE <<"ok", out.bytes>>
\* Integers of i64 and u64, modelled as 0 .. 3 and 0 .. 7.
Number(n) == IF n \in -4 .. 3 THEN <<"signed", n>> ELSE IF n \in 0 .. 7 THEN <<"unsigned", n>> ELSE <<"float", n>>
Nodes(d) == 1 + FoldLeft(LAMBDA n, kid : n + Nodes(kid), 0, Kids(d))
Height(d) == IF Kids(d) = <<>> THEN 0 ELSE 1 + (CHOOSE h \in 0 .. 3 : (\E k \in DOMAIN Kids(d) : Height(Kids(d)[k]) = h) /\ \A k \in DOMAIN Kids(d) : Height(Kids(d)[k]) <= h)
JsonCases == {[phase |-> "json", doc |-> d] : d \in Documents_} \cup {[phase |-> "number", n |-> n] : n \in -5 .. 9}

(***************************************************************************)
(* Command schemas and lines.  Names are numbers (0 is not a valid name,   *)
(* 9 is "help"); values are classes of text; a word is an option with or   *)
(* without its value, a plain value, the child's name or `--`.             *)
(***************************************************************************)
ValueKinds == {"string", "enumeration", "f64", "u32"}
Texts == {"word", "number", "infinite", "nul"}
valid_name(n) == n # 0
valid_value(kind, t) ==
    CASE kind = "string" -> t # "nul"
      [] kind = "enumeration" -> t = "word"
      [] OTHER -> t = "number"
OptionSpec(n, kind) == [name |-> n, kind |-> kind, default |-> "none", missing |-> "none", repeated |-> FALSE, conflicts |-> {}, requires |-> {}]
Bare(name) == [name |-> name, options |-> <<>>, positionals |-> <<>>, groups |-> {}, child |-> <<>>]
OptionValid(o) ==
    /\ valid_name(o.name) /\ o.name # 9
    /\ o.kind = "flag" => o.default = "none" /\ o.missing = "none" /\ ~o.repeated
    /\ o.kind # "flag" =>
         /\ o.repeated => o.default = "none" /\ o.kind = "string"
         /\ o.default # "none" => valid_value(o.kind, o.default)
         /\ o.missing # "none" => valid_value(o.kind, o.missing)
RECURSIVE SchemaNames(_), validate_into(_), validate_references(_, _)
SchemaNames(c) ==
    [k \in DOMAIN c.options |-> c.options[k].name] \o [k \in DOMAIN c.positionals |-> c.positionals[k].name]
    \o FlattenSeq([k \in DOMAIN c.child |-> SchemaNames(c.child[k])])
Distinct(seq) == Cardinality({seq[k] : k \in DOMAIN seq}) = Len(seq)
validate_into(c) ==
    /\ valid_name(c.name) /\ c.name # 9
    /\ \A k \in DOMAIN c.options : OptionValid(c.options[k])
    /\ \A k \in DOMAIN c.positionals : valid_name(c.positionals[k].name) /\ c.positionals[k].name # 9
    /\ \A j, k \in DOMAIN c.positionals : j < k /\ c.positionals[j].optional => c.positionals[k].optional
    /\ Distinct([k \in DOMAIN c.child |-> c.child[k].name])
    /\ \A k \in DOMAIN c.child : validate_into(c.child[k])
validate_references(c, names) ==
    /\ \A k \in DOMAIN c.options : c.options[k].conflicts \cup c.options[k].requires \subseteq names
    /\ \A g \in c.groups : Cardinality(g) >= 2 /\ g \subseteq names
    /\ \A k \in DOMAIN c.child : validate_references(c.child[k], names)
validate_schema(c) == LET names == SchemaNames(c) IN validate_into(c) /\ Distinct(names) /\ validate_references(c, {names[k] : k \in DOMAIN names})

\* External: what clap asserts of the command built by clap_command, whose options are all global.
RECURSIVE ClapAccepts(_, _)
ClapAccepts(c, inherited) ==
    LET own == [k \in DOMAIN c.options |-> c.options[k].name] \o [k \in DOMAIN c.positionals |-> c.positionals[k].name]
    IN  /\ Distinct(own) /\ {own[k] : k \in DOMAIN own} \cap (inherited \cup {9}) = {}
        /\ \A k \in DOMAIN c.options : LET o == c.options[k]
             IN  /\ o.kind = "flag" => o.missing = "none"
                 /\ \A t \in {o.default, o.missing} \ {"none"} : o.kind \in {"enumeration", "u32", "f64"} => valid_value(o.kind, t)
        /\ \A j, k \in DOMAIN c.positionals : j < k /\ c.positionals[j].optional => c.positionals[k].optional
        /\ Distinct([k \in DOMAIN c.child |-> c.child[k].name])
        /\ \A k \in DOMAIN c.child : ClapAccepts(c.child[k], inherited \cup {c.options[i].name : i \in DOMAIN c.options})

\* Words, and the names the code finds in them by itself.
Opt(n, t) == [k |-> "option", n |-> n, t |-> t]
Plain(t) == [k |-> "plain", n |-> 0, t |-> t]
Sub == [k |-> "child", n |-> 0, t |-> "none"]
Ends_ == [k |-> "--", n |-> 0, t |-> "none"]
IndexOf(words, k) == IF \E i \in DOMAIN words : words[i].k = k THEN CHOOSE i \in DOMAIN words : words[i].k = k /\ \A j \in 1 .. i - 1 : words[j].k # k ELSE Len(words) + 1
NamesAnywhere(words) == {words[i].n : i \in {j \in DOMAIN words : words[j].k = "option"}}
explicit_option_names(words) == NamesAnywhere(SubSeq(words, 1, IndexOf(words, "--") - 1))
\* How one option is declared to clap: accepted texts, and whether the value may be missing or repeated.
clap_command(o) ==
    [texts |-> CASE o.kind = "flag" -> {} [] o.kind = "enumeration" -> {"word"} [] o.kind = "u32" -> {"number"} [] o.kind = "f64" -> {"number", "infinite"} [] OTHER -> Texts,
     bare |-> o.kind = "flag" \/ o.missing # "none", append |-> o.repeated]
\* External: clap on a command, a child and the words; `given` maps an option to the values of its occurrences.
ClapMatches(c, words) ==
    LET cut == IndexOf(words, "--")
        child == IndexOf(words, "child")
        descends == child < cut /\ c.child # <<>>
        path == IF descends THEN <<c, c.child[1]>> ELSE <<c>>
        specs(level) == {path[level].options[k] : k \in DOMAIN path[level].options}
        known(i) == IF i < child \/ ~descends THEN specs(1) ELSE specs(1) \cup specs(2)
        options == {i \in DOMAIN words : i < cut /\ words[i].k = "option"}
        plain(i) == i # cut /\ i \notin options /\ ~(descends /\ i = child)
        level(i) == IF descends /\ i > child THEN 2 ELSE 1
        values(l) == [j \in DOMAIN words |-> IF plain(j) /\ level(j) = l THEN <<IF words[j].k = "plain" THEN words[j].t ELSE "word">> ELSE <<>>]
        placed == [l \in DOMAIN path |-> FlattenSeq(values(l))]
        spec(i) == CHOOSE o \in known(i) : o.name = words[i].n
        takes(o, t) == IF t = "none" THEN clap_command(o).bare ELSE t \in clap_command(o).texts
        text(i) == IF spec(i).kind = "flag" THEN "true" ELSE IF words[i].t = "none" THEN spec(i).missing ELSE words[i].t
        ok == /\ \A i \in options : \E o \in known(i) : o.name = words[i].n /\ takes(o, words[i].t)
              /\ \A i, j \in options : i # j /\ words[i].n = words[j].n => clap_command(spec(i)).append
              /\ \A l \in DOMAIN path : /\ Len(placed[l]) <= Len(path[l].positionals)
                                        /\ \A k \in DOMAIN path[l].positionals : path[l].positionals[k].optional \/ k <= Len(placed[l])
    IN  IF ~ok THEN [ok |-> FALSE]
        ELSE [ok |-> TRUE, path |-> path, placed |-> placed,
              given |-> [n \in {words[i].n : i \in options} |-> FlattenSeq([j \in DOMAIN words |-> IF j \in options /\ words[j].n = n THEN <<text(j)>> ELSE <<>>])]]
\* A declared option's value: what was given, else its default, else absent.
collect_value(o, m) ==
    LET got == IF o.name \in DOMAIN m.given THEN m.given[o.name] ELSE IF o.default # "none" THEN <<o.default>> ELSE <<>>
    IN  CASE o.kind = "flag" -> <<"flag", got # <<>>>>
          [] got = <<>> -> <<"absent">>
          [] o.repeated -> <<"strings", got>>
          [] o.kind = "f64" /\ got[1] = "infinite" -> <<"invalid">>
          [] OTHER -> <<o.kind, got[1]>>
collect_positional(p, k, placed) ==
    CASE k > Len(placed) -> <<"absent">>
      [] p.kind = "f64" /\ placed[k] = "infinite" -> <<"invalid">>
      [] OTHER -> <<p.kind, placed[k]>>
collect_values(m) ==
    [o \in UNION {{c.options[k] : k \in DOMAIN c.options} : c \in {m.path[l] : l \in DOMAIN m.path}} |-> collect_value(o, m)]
validate_selected_relations(path, explicit) ==
    \A l \in DOMAIN path :
       /\ \A k \in DOMAIN path[l].options : LET o == path[l].options[k]
            IN  o.name \in explicit => o.conflicts \cap explicit = {} /\ (o.requires # {} => o.requires \cap explicit # {})
       /\ \A g \in path[l].groups : Cardinality(g \cap explicit) <= 1
parse_command(c, words) ==
    LET explicit == explicit_option_names(words)
        m == ClapMatches(c, words)
    IN  IF ~validate_schema(c) THEN <<"schema">>
        ELSE IF ~m.ok THEN <<"arguments">>
        ELSE IF \E o \in DOMAIN collect_values(m) : collect_values(m)[o] = <<"invalid">> THEN <<"arguments">>
        ELSE IF \E l \in DOMAIN m.path : \E k \in DOMAIN m.path[l].positionals : collect_positional(m.path[l].positionals[k], k, m.placed[l]) = <<"invalid">> THEN <<"arguments">>
        ELSE IF ~validate_selected_relations(m.path, explicit) THEN <<"arguments">>
        ELSE <<"ok", collect_values(m), Len(m.path)>>
\* The typed readers: each answers for exactly one variant.
ParsedCommand_readers(v) == {r \in {"flag", "string", "strings", "f64", "u32"} : v[1] = r \/ (r = "string" /\ v[1] = "enumeration")}
\* The words are bounded before any is parsed; a word is its byte count, -1 one with a NUL.
Admit(acc, n, most) ==
    CASE acc.out # "ok" -> acc
      [] acc.words = most -> [acc EXCEPT !.out = "count"]
      [] n < 0 -> [acc EXCEPT !.out = "nul"]
      [] n > most -> [acc EXCEPT !.out = "word"]
      [] acc.total + n > 2 * most -> [acc EXCEPT !.out = "total"]
      [] OTHER -> [acc EXCEPT !.words = @ + 1, !.total = @ + n]
AdmitWords(sizes, most) == FoldLeft(LAMBDA acc, n : Admit(acc, n, most), [out |-> "ok", words |-> 0, total |-> 0], sizes)

A == [OptionSpec(1, "flag") EXCEPT !.conflicts = {2}]
ASchemas ==
    LET leaf(n) == [Bare(2) EXCEPT !.options = <<OptionSpec(n, "flag")>>, !.positionals = <<[name |-> 5, kind |-> "string", optional |-> TRUE]>>]
        b == {[OptionSpec(2, k) EXCEPT !.default = d, !.missing = m, !.repeated = r] : k \in ValueKinds \cup {"flag"}, d \in Texts \cup {"none"}, m \in {"none", "word", "number"}, r \in BOOLEAN}
    IN  {[Bare(1) EXCEPT !.options = <<A, o>>, !.child = <<leaf(n)>>] : o \in b, n \in {0, 1, 3, 9}}
        \cup {[Bare(n) EXCEPT !.positionals = <<[name |-> 5, kind |-> "string", optional |-> x], [name |-> p, kind |-> "f64", optional |-> y]>>] : n \in {1, 9}, x, y \in BOOLEAN, p \in {5, 6}}
        \cup {[Bare(1) EXCEPT !.options = <<A>>, !.groups = {{1, 3}}], [Bare(1) EXCEPT !.options = <<OptionSpec(1, "flag")>>, !.groups = {{1}}], [Bare(1) EXCEPT !.child = <<Bare(2), Bare(2)>>]}
Schemas ==
    LET leaf == [Bare(2) EXCEPT !.options = <<[OptionSpec(3, "flag") EXCEPT !.requires = {1, 2}]>>, !.positionals = <<[name |-> 5, kind |-> "f64", optional |-> TRUE]>>]
    IN  {[Bare(1) EXCEPT !.options = <<A, o>>, !.groups = g, !.child = <<leaf>>]
           : o \in {[OptionSpec(2, "string") EXCEPT !.default = "word"], [OptionSpec(2, "string") EXCEPT !.repeated = TRUE], [OptionSpec(2, "f64") EXCEPT !.missing = "number"]}, g \in {{}, {{2, 3}}}}
Words == {Opt(1, "none"), Opt(2, "word"), Opt(2, "number"), Opt(2, "infinite"), Opt(2, "none"), Opt(3, "none"), Plain("number"), Sub, Ends_}
CommandCases ==
    {[phase |-> "schema", c |-> c] : c \in ASchemas}
    \cup {[phase |-> "command", c |-> c, words |-> w] : c \in Schemas, w \in Lists(Words, 3)}
    \cup {[phase |-> "words", sizes |-> s] : s \in Lists(-1 .. 3, 3)}

(***************************************************************************)
(* analyze_cpp over the syntax tree.  A function's header is its           *)
(* parameters, each a declarator and perhaps a default, and the text up to *)
(* the body; characters are "a", blanks, newlines and "=".                 *)
(***************************************************************************)
MaxVisited == 9
MaxSourceDepth == 3
MaxFunctions == 2
Function(params, tail, body) == [kind |-> "function_definition", params |-> params, tail |-> tail, body |-> body, c |-> <<>>]
Region(kind, c) == [kind |-> kind, params |-> <<>>, tail |-> <<>>, body |-> FALSE, c |-> c]
NoContext == [namespace |-> FALSE, aggregate |-> FALSE, linkage |-> FALSE]
Inside(kind, context) ==
    CASE kind = "namespace_definition" -> [context EXCEPT !.namespace = TRUE]
      [] kind = "class_specifier" -> [context EXCEPT !.aggregate = TRUE]
      [] kind = "linkage_specification" -> [context EXCEPT !.linkage = TRUE]
      [] OTHER -> context
\* -1 is LimitExceeded.
charge(remaining, depth) == IF depth > MaxSourceDepth \/ remaining = 0 THEN -1 ELSE remaining - 1
\* The nodes of a definition: itself, its parameters and its body, in order.
DefinitionCharge(f, depth, remaining) ==
    LET parts == Len(f.params) + 1
        own == charge(remaining, depth)
    IN  IF own = -1 \/ parts > own \/ depth + 1 > MaxSourceDepth THEN -1 ELSE own - parts
Blank(c) == c \in {" ", "\t"}
\* The default is removed from its "=" back over blanks, never past a newline.
KeepDeclarator(p) ==
    IF p.default = <<>> THEN p.decl
    ELSE SubSeq(p.decl, 1, CHOOSE n \in 0 .. Len(p.decl) : (\A k \in n + 1 .. Len(p.decl) : Blank(p.decl[k])) /\ (n > 0 => ~Blank(p.decl[n])))
Trimmed(text) == SubSeq(text, 1, CHOOSE n \in 0 .. Len(text) : (\A k \in n + 1 .. Len(text) : Blank(text[k])) /\ (n > 0 => ~Blank(text[n])))
definition(f) == Trimmed(FlattenSeq([k \in DOMAIN f.params |-> KeepDeclarator(f.params[k]) \o <<",">>]) \o f.tail)
RECURSIVE Visit(_, _, _), Charges(_), Deepest(_), Inventory(_, _)
\* The explicit stack: <<node, depth, context>> of every pending node, the next one last.
Visit(pending, remaining, out) ==
    IF pending = <<>> THEN <<"ok", out>>
    ELSE LET node == Last(pending)[1]
             depth == Last(pending)[2]
             context == Inside(node.kind, Last(pending)[3])
             left == charge(remaining, depth)
             rest == Front(pending)
         IN  IF left = -1 THEN <<"limit", <<>>>>
             ELSE IF node.kind = "function_definition"
             THEN IF Len(out) = MaxFunctions THEN <<"limit", <<>>>>
                  ELSE IF ~node.body THEN <<"unsupported", <<>>>>
                  ELSE IF DefinitionCharge(node, depth, left) = -1 THEN <<"limit", <<>>>>
                  ELSE Visit(rest, DefinitionCharge(node, depth, left), Append(out, <<definition(node), context>>))
             ELSE IF Len(rest) + Len(node.c) > left THEN <<"limit", <<>>>>
             ELSE Visit(rest \o Reverse([k \in DOMAIN node.c |-> <<node.c[k], depth + 1, context>>]), left, out)
\* `stop`: the source is too large, its parse ran out of time, or it has errors.
analyze_cpp(root, stop) == IF stop # "none" THEN <<stop, <<>>>> ELSE Visit(<<<<root, 0, NoContext>>>>, MaxVisited, <<>>)
\* Reference: what the whole tree costs, and its definitions in source order.
Charges(d) == IF d.kind = "function_definition" THEN 3 + Len(d.params) ELSE 1 + FoldLeft(LAMBDA n, kid : n + Charges(kid), 0, d.c)
Deepest(d) == IF d.kind = "function_definition" THEN 1 ELSE IF d.c = <<>> THEN 0
              ELSE 1 + (CHOOSE h \in 0 .. 5 : (\E k \in DOMAIN d.c : Deepest(d.c[k]) = h) /\ \A k \in DOMAIN d.c : Deepest(d.c[k]) <= h)
Inventory(d, context) ==
    IF d.kind = "function_definition" THEN <<<<definition(d), context>>>>
    ELSE FlattenSeq([k \in DOMAIN d.c |-> Inventory(d.c[k], Inside(d.kind, context))])
Params == {[decl |-> <<"a">>, default |-> <<>>], [decl |-> <<"a", " ">>, default |-> <<"=", "a">>], [decl |-> <<"a", "\n", " ">>, default |-> <<"=", " ", "a">>]}
Functions_ == {Function(p, t, TRUE) : p \in Lists(Params, 2), t \in {<<" ">>, <<"\n">>, <<"a", " ", " ">>}} \cup {Function(<<>>, <<>>, FALSE)}
Leaves == {Function(<<>>, <<" ">>, TRUE), Function(<<[decl |-> <<"a">>, default |-> <<>>]>>, <<"\n">>, TRUE), Region("other", <<>>)}
Regions == {Region(k, c) : k \in {"namespace_definition", "class_specifier"}, c \in Lists(Leaves, 2)}
SourceCases == {[phase |-> "source", root |-> Region("other", c), stop |-> e] : c \in Lists(Leaves \cup Regions, 2), e \in {"none", "large", "late", "syntax"}}
               \cup {[phase |-> "source", root |-> Region("linkage_specification", <<Region("namespace_definition", <<Region("class_specifier", c)>>)>>), stop |-> "none"] : c \in Lists(Leaves, 1)}
               \cup {[phase |-> "signature", f |-> f] : f \in Functions_}

FreshValues == QueryCases \cup HexCases \cup JsonCases \cup CommandCases \cup SourceCases
               \cup {[phase |-> "checkpoint", row |-> r] : r \in Lists(-1 .. 5, 3)}
               \cup {[phase |-> "policy", wait |-> w, code |-> c, rows |-> r] : w \in 0 .. 6, c \in {"DatabaseBusy", "DatabaseLocked", "Constraint"}, r \in {<<>>, <<"ok">>, <<"row 1 missing">>}}

Init ==
    /\ facet \in {"backup", "tx", "read", "tree", "value"}
    /\ bk \in IF facet = "backup" THEN FreshBackups ELSE {Off}
    /\ tx \in IF facet = "tx" THEN FreshTransactions ELSE {Off}
    /\ rd \in IF facet = "read" THEN FreshReads ELSE {Off}
    /\ tr \in IF facet = "tree" THEN FreshTrees ELSE {Off}
    /\ value \in IF facet = "value" THEN FreshValues ELSE {Off}
Next == BackupNext \/ TransactionNext \/ ReadNext \/ TreeNext
Spec == Init /\ [][Next]_vars

(***************************************************************************)
(* Properties.                                                             *)
(***************************************************************************)
\* backup_to never replaces a destination another process created, even one that
\* appears between the check and the publication; it publishes only a
\* complete and synced copy, reports success exactly when it published, and
\* leaves no staging directory behind unless the machine went down.
BackupIsWholeAndNew ==
    facet = "backup" =>
      /\ bk.dest = "ours" => ~bk.rival /\ bk.whole /\ bk.durable /\ bk.copied = Pages
      /\ bk.at = "returned" => ~bk.stage /\ (bk.out = "ok" <=> bk.dest = "ours")
      /\ bk.retries < BackupMaxRetries

\* A transaction's statements are in the database all together after a
\* successful commit in which none failed, and not at all otherwise; the two
\* connections never hold the write lock together.
TransactionsAreAtomic ==
    facet = "tx" =>
      /\ \A c \in Connections : LET r == tx.conns[c]
           IN  /\ r.kept = IF r.out = "ok" THEN r.said ELSE 0
               /\ r.out = "ok" => ~r.failed
               /\ r.handle = "gone" => ~r.sql
      /\ \E c \in Connections : ~tx.conns[c].sql

\* A digest covers the whole input and no more than its limit; a longer input
\* is refused after at most one byte beyond the limit, mapped or buffered.
DigestCoversTheInput ==
    facet = "read" =>
      /\ rd.out = "ok" => rd.hashed = rd.pos /\ rd.pos = rd.size /\ (rd.limit # -1 => rd.hashed <= rd.limit)
      /\ rd.out = "limit" => rd.size > rd.limit
      /\ rd.out = "io" => rd.algo = "blake3"
      /\ rd.limit # -1 => rd.pos <= rd.limit + 1

\* A tree fingerprint pairs every selected file, sorted, with its own digest,
\* whatever order the walk found them in and however many workers hashed them:
\* pruning hides no selected file, and no more threads run than were asked for.
Chosen(t) == {p \in TreePaths : t.kinds[p] \in {"file", "big"} /\ Selected(t, p)
                                 /\ \A d \in Directories(p) : ~is_match(t.exclude, d) /\ ~\E x \in t.exclude : x.star /\ x.lit = d}
TreeDigestIsCanonical ==
    facet = "tree" /\ tr.at = "returned" =>
      IF tr.out[1] = "ok"
      THEN /\ tr.out[2] = LET names == SetToSortSeq(Chosen(tr), Before) IN [k \in DOMAIN names |-> <<names[k], <<"digest", names[k]>>>>]
           /\ tr.out[3] = Cardinality(Chosen(tr)) /\ tr.out[3] <= MaxFiles
           /\ tr.found[1] <= tr.workers
      ELSE \/ tr.out[1] = "limit" /\ Cardinality(Chosen(tr)) > MaxFiles
           \/ tr.out[1] = "unreadable" /\ \E p \in Chosen(tr) : tr.kinds[p] = "big"
           \/ tr.out[1] = "undecodable" /\ \E p \in TreePaths : tr.kinds[p] = "undecodable"

\* The pure parts of the data facades against their contracts: query results
\* within both limits or none at all; hexadecimal text inverse to itself; JSON
\* budgets that count every decoded value, reparse what they encode and keep
\* duplicates only as members; schemas clap accepts, relations judged on what
\* was typed, before any `--`; scanner limits refusing only what does not fit.
DocumentValuesAgree ==
    facet = "value" =>
      CASE value.phase = "query" ->
             LET q == query(value.rows, value.most)
             IN  /\ q.out = "ok" => Len(q.rows) = Len(value.rows) /\ Len(q.rows) <= value.most.rows /\ q.used <= value.most.bytes
                 /\ q.out = "ok" => \A k \in DOMAIN q.rows : \A j \in DOMAIN q.rows[k] : Binding_to_sql(q.rows[k][j]) = value.rows[k][j]
                 /\ q.out # "ok" => q.rows = <<>>
                 /\ q.out = "ok" => \A k \in DOMAIN value.rows : \A j \in DOMAIN value.rows[k] : value.rows[k][j].size >= 0
        [] value.phase = "checkpoint" ->
             LET p == checkpoint(value.row)
             IN  p # <<>> => value.row[1] >= 0 /\ value.row[2] >= 0 /\ value.row[3] >= 0 /\ (p[1] <=> value.row[1] > 0)
        [] value.phase = "policy" ->
             /\ open_with_busy_timeout(value.wait, 5) # {} => value.wait <= 5 /\ "WAL" \in open_with_busy_timeout(value.wait, 5)
             /\ (open_read_only_with_busy_timeout(value.wait, 5) = {}) = (open_with_busy_timeout(value.wait, 5) = {})
             /\ map_error(value.code) = "sqlite" <=> value.code = "Constraint"
             /\ integrity_check(value.rows) = "ok" <=> value.rows = <<"ok">>
        [] value.phase = "hex" -> from_hex(to_hex(value.bytes), 2) = <<"ok", value.bytes>> /\ Sha256_to_hex(value.bytes) = to_hex(value.bytes)
        [] value.phase = "nothex" -> from_hex(value.text, 2)[1] = "ok" <=> Len(value.text) = 4 /\ "g" \notin {value.text[k] : k \in DOMAIN value.text}
        [] value.phase = "json" ->
             LET p == parse(value.doc) m == parse_members(value.doc) merged == Merged(value.doc)
                 fits(d) == Nodes(d) <= MaxNodes /\ Height(d) <= MaxDepth
             IN  /\ p[1] = "ok" <=> fits(merged)
                 /\ m[1] = "ok" <=> fits(value.doc)
                 /\ p[1] = "ok" => p[3] = merged /\ (Len(Tokens(merged)) <= 6 <=> encode(merged, 6) = <<"ok", Tokens(merged)>>)
                 /\ m[1] = "ok" => m[3] = value.doc /\ encode(m[3], 20) = <<"ok", Tokens(value.doc)>> /\ p[1] = "ok"
                 /\ encode(value.doc, 3)[1] # "ok" => encode(value.doc, 3)[2] = <<>>
                 /\ encode(Arr(<<value.doc, Scalar(NonFinite)>>), 20)[1] # "ok"
        [] value.phase = "number" -> /\ Number(value.n)[2] = value.n
                                     /\ value.n \in 0 .. 3 => Number(value.n)[1] = "signed"
        [] value.phase = "schema" -> validate_schema(value.c) => ClapAccepts(value.c, {})
        [] value.phase = "command" ->
             LET r == parse_command(value.c, value.words) m == ClapMatches(value.c, value.words)
             IN  r[1] = "ok" =>
                   /\ explicit_option_names(value.words) = DOMAIN m.given
                   /\ \A o \in DOMAIN r[2] :
                        /\ Cardinality(ParsedCommand_readers(r[2][o])) = IF r[2][o] = <<"absent">> THEN 0 ELSE 1
                        /\ o.name \in DOMAIN m.given =>
                             /\ o.conflicts \cap DOMAIN m.given = {}
                             /\ o.requires = {} \/ o.requires \cap DOMAIN m.given # {}
                             /\ o.repeated => r[2][o] = <<"strings", m.given[o.name]>>
                        /\ o.name \notin DOMAIN m.given /\ o.kind = "string" => r[2][o] = IF o.default = "none" THEN <<"absent">> ELSE <<"string", o.default>>
                   /\ \A g \in value.c.groups : Cardinality(g \cap DOMAIN m.given) <= 1
        [] value.phase = "words" ->
             LET a == AdmitWords(value.sizes, 2)
             IN  a.out = "ok" <=> Len(value.sizes) <= 2 /\ \A k \in DOMAIN value.sizes : value.sizes[k] \in 0 .. 2
        [] value.phase = "source" ->
             LET a == analyze_cpp(value.root, value.stop)
                 fits == Charges(value.root) <= MaxVisited /\ Deepest(value.root) <= MaxSourceDepth /\ Len(Inventory(value.root, NoContext)) <= MaxFunctions
             IN  IF value.stop # "none" THEN a[2] = <<>> ELSE a = IF fits THEN <<"ok", Inventory(value.root, NoContext)>> ELSE <<"limit", <<>>>>
        [] value.phase = "signature" ->
             LET text == definition(value.f)
                 newlines(s) == Cardinality({k \in DOMAIN s : s[k] = "\n"})
             IN  /\ "=" \notin {text[k] : k \in DOMAIN text}
                 /\ newlines(text) = newlines(FlattenSeq([k \in DOMAIN value.f.params |-> value.f.params[k].decl])) + newlines(value.f.tail)
        [] OTHER -> TRUE
============================================================================
