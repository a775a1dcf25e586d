--------------------------- MODULE SketchAdmission ---------------------------
(***************************************************************************)
(* The admission of a guest module by the sketch compiler: the host's      *)
(* module policy, the two preflights that walk the binary's sections       *)
(* before the engine sees it, and the compilation that follows.            *)
(*                                                                         *)
(* A module is a choice for every slot (an import, an export, a section):  *)
(* how often the item occurs and in which variant.  The parser meets the   *)
(* slots in the order of Order; the preflight accumulates what it saw in   *)
(* `sc` and stops at the first error.  Names, signatures and metadata      *)
(* bytes are variants: "right" is the one the profile prescribes.          *)
(***************************************************************************)
EXTENDS Integers, Sequences, FiniteSets, SequencesExt

CONSTANTS MaxDeviations,   \* items of a module that differ from the plain one
          InitialPages,    \* THREADED_RUST_INITIAL_PAGES
          MaxPages,        \* THREADED_RUST_MAX_PAGES
          MaxGuestThreads  \* MAX_GUEST_THREADS_V1

VARIABLES policy,          \* the SketchModulePolicy, or the error of its constructor
          module,          \* slot -> [n, v]: what the binary holds
          pos,             \* how many slots the parser has passed
          sc,              \* the preflight's local variables
          verdict,         \* "scanning", "preflighted", "admitted" or an error
          compilations     \* SketchCompiler::compilations

vars == <<policy, module, pos, sc, verdict, compilations>>

Lifecycle == {"submit", "poll", "yield"}
ImportNames == {"thread_spawn", "kernel_yield", "cancel", "wasi"} \cup Lifecycle
ExportNames == {"memory_export", "_start", "__main_void", "wasi_thread_start", "entry", "report"}
Order == <<"memory", "thread_spawn", "kernel_yield", "submit", "poll", "yield", "cancel",
           "wasi", "foreign", "defined_memory", "memory_export", "_start", "__main_void",
           "wasi_thread_start", "entry", "report", "stray_export", "start", "abi",
           "profile", "features", "debug", "custom">>
(***************************************************************************)
(* The memory type of each variant of the imported memory.                 *)
(***************************************************************************)
MemoryType(v) ==
    [initial  |-> IF v = "inverted" THEN MaxPages + 1 ELSE InitialPages,
     maximum  |-> CASE v = "large" -> MaxPages + 1 [] v = "nomax" -> -1 [] OTHER -> MaxPages,
     shared   |-> v # "unshared",
     memory64 |-> v = "memory64",
     paged    |-> v = "paged"]

Variants(s) ==
    CASE s = "memory" -> {"right", "large", "nomax", "inverted", "unshared", "memory64", "paged"}
      [] s \in ImportNames -> {"right", "othertype", "nofunction"}
      [] s = "memory_export" -> {"right", "second", "function"}
      [] s \in ExportNames \ {"memory_export"} ->
             {"right", "othertype", "nofunction", "imported", "beyond", "notfunction"}
      [] s = "start" -> {"right", "othertype", "nofunction", "beyond"}
      [] s \in {"abi", "profile", "debug"} -> {"right", "different", "oversized"}
      [] s = "features" -> {"right", "different", "malformed"}
      [] OTHER -> {"right"}

Absent == [n |-> 0, v |-> "right"]
ItemChoices(s) == {Absent} \cup [n : {1, 2}, v : Variants(s)]

\* What a plain module of a profile holds; its protocol imports are free.
Plain(p, s) ==
    CASE s \in Lifecycle \cup {"kernel_yield", "cancel"} -> {Absent, [n |-> 1, v |-> "right"]}
      [] s \in {"wasi", "foreign", "defined_memory", "stray_export", "debug", "custom"} -> {Absent}
      [] p.profile = "synthetic" /\ s \in (ExportNames \ {"entry"}) \cup {"start", "features"} -> {Absent}
      [] ~p.validation /\ p.profile = "threaded" /\ s \in {"report", "profile"} -> {Absent}
      [] OTHER -> {[n |-> 1, v |-> "right"]}
Deviations(p, m) == Cardinality({s \in DOMAIN m : m[s] \notin Plain(p, s)})

(***************************************************************************)
(* SketchModulePolicy: its constructors and the guest thread bound.        *)
(***************************************************************************)
PolicyNew(bytes, pages) ==
    IF bytes = 0 THEN [err |-> "InvalidModuleLimit"]
    ELSE IF pages = 0 THEN [err |-> "InvalidSharedMemoryLimit"]
    ELSE [err |-> "", bytes |-> bytes, pages |-> pages, threads |-> MaxGuestThreads,
          profile |-> "synthetic", validation |-> FALSE]
ThreadedRustV1(bytes, pages) ==
    LET p == PolicyNew(bytes, pages)
    IN  IF p.err # "" THEN p ELSE [p EXCEPT !.profile = "threaded"]
ThreadedRustValidationV1(bytes, pages) ==
    LET p == ThreadedRustV1(bytes, pages)
    IN  IF p.err # "" THEN p ELSE [p EXCEPT !.validation = TRUE]
WithMaxGuestThreads(p, maximum) ==
    IF p.err # "" THEN p
    ELSE IF maximum = 0 THEN [err |-> "InvalidThreadLimit"]
    ELSE IF maximum > MaxGuestThreads THEN [err |-> "ThreadLimitExceedsV1Maximum"]
    ELSE [p EXCEPT !.threads = maximum]

Policies ==
    {WithMaxGuestThreads(p, t) :
        p \in UNION {{PolicyNew(b, g), ThreadedRustV1(b, g), ThreadedRustValidationV1(b, g)} :
                        b \in 0..1, g \in {0, MaxPages - 1, MaxPages, MaxPages + 1}},
        t \in {0, 1, MaxGuestThreads + 1}}

(***************************************************************************)
(* The steps of the walk.  Each returns the scanner after one item, with   *)
(* its `err` set when the preflight returns.                               *)
(***************************************************************************)
Fresh == [err |-> "", memory |-> <<>>, seen |-> {}, exports |-> <<>>,
          start |-> "none", abi |-> 0, profile |-> 0, features |-> "none"]
Fail(c, e) == [c EXCEPT !.err = e]


CheckMemory(ty, p) ==
    CASE ty.memory64 -> "Memory64"
      [] ~ty.memory64 /\ ~ty.shared -> "UnsharedMemory"
      [] ~ty.memory64 /\ ty.shared /\ ty.paged -> "UnsupportedMemoryPageSize"
      [] OTHER -> IF ty.maximum = -1 THEN "SharedMemoryWithoutMaximum"
                  ELSE IF ty.initial > ty.maximum THEN "MemoryInitialExceedsMaximum"
                  ELSE IF ty.initial > p.pages \/ ty.maximum > p.pages
                  THEN "SharedMemoryExceedsPolicy" ELSE ""

MemoryImport(c, p, v) ==
    IF c.memory # <<>> THEN Fail(c, "MultipleMemoryImports")
    ELSE LET e == CheckMemory(MemoryType(v), p)
         IN  IF e # "" THEN Fail(c, e) ELSE [c EXCEPT !.memory = <<MemoryType(v)>>]

CheckSignature(v) == IF v = "right" THEN "" ELSE "ImportTypeMismatch"

\* The synthetic profile knows two functions and lets them occur repeatedly.
SyntheticImport(c, s, v) ==
    IF s \notin {"thread_spawn", "kernel_yield"} THEN Fail(c, "ForbiddenImport")
    ELSE IF CheckSignature(v) # "" THEN Fail(c, CheckSignature(v))
    ELSE [c EXCEPT !.seen = @ \cup {s}]

ThreadedImportSignature(s, v) ==
    IF s \notin ImportNames THEN "ForbiddenImport" ELSE CheckSignature(v)
ThreadedImport(c, s, v) ==
    LET e == ThreadedImportSignature(s, v)
    IN  IF e # "" THEN Fail(c, e)
        ELSE IF s \in c.seen THEN Fail(c, "ForbiddenImport")
        ELSE [c EXCEPT !.seen = @ \cup {s}]

\* A marker section of the synthetic profile: counted, bounded, compared.
SyntheticMetadata(c, s, v) ==
    LET n == c[s] + 1
    IN  IF n > 1 THEN Fail(c, "DuplicateMetadata")
        ELSE IF v = "oversized" THEN Fail(c, "MetadataTooLarge")
        ELSE IF v # "right" THEN Fail(c, "MetadataMismatch")
        ELSE [c EXCEPT ![s] = n]
ThreadedMetadata(c, s, v) ==
    LET n == c[s] + 1
    IN  IF n > 1 THEN Fail(c, "DuplicateMetadata")
        ELSE IF v # "right" THEN Fail(c, "MetadataMismatch")
        ELSE [c EXCEPT ![s] = n]
ParseTargetFeatures(v) == IF v = "malformed" THEN "TargetFeaturesMismatch" ELSE ""
TargetFeatures(c, v) ==
    IF ParseTargetFeatures(v) # "" \/ c.features # "none"
    THEN Fail(c, "TargetFeaturesMismatch") ELSE [c EXCEPT !.features = v]

Export(c, s, v) == [c EXCEPT !.exports = Append(@, [name |-> s, v |-> v])]

PreflightItem(c, p, s, v) ==
    CASE s = "memory" -> MemoryImport(c, p, v)
      [] s \in ImportNames \cup {"foreign"} -> SyntheticImport(c, s, v)
      [] s = "defined_memory" -> Fail(c, "DefinedMemoryForbidden")
      [] s \in ExportNames \cup {"stray_export"} -> Export(c, s, v)
      [] s = "start" -> Fail(c, "StartFunctionForbidden")
      [] s \in {"abi", "profile"} -> SyntheticMetadata(c, s, v)
      [] OTHER -> c

PreflightThreadedRustItem(c, p, s, v) ==
    CASE s = "memory" -> MemoryImport(c, p, v)
      [] s \in ImportNames \cup {"foreign"} -> ThreadedImport(c, s, v)
      [] s = "defined_memory" -> Fail(c, "DefinedMemoryForbidden")
      [] s \in ExportNames \cup {"stray_export"} -> Export(c, s, v)
      [] s = "start" -> [c EXCEPT !.start = v]
      [] s = "abi" \/ (s = "profile" /\ p.validation) -> ThreadedMetadata(c, s, v)
      [] s = "features" -> TargetFeatures(c, v)
      [] s = "debug" -> IF v = "oversized" THEN Fail(c, "MetadataTooLarge") ELSE c
      [] OTHER -> Fail(c, "ForbiddenCustomSection")

(***************************************************************************)
(* What the preflights check once the whole binary was walked.             *)
(***************************************************************************)
\* function_type: an exported index may name an import or a defined function.
FunctionType(v) == IF v = "beyond" THEN "none" ELSE IF v = "imported" THEN "othertype" ELSE v

CheckEntrypointSignature(v) ==
    CASE v = "nofunction" -> "EntrypointMismatch"
      [] v = "othertype" -> "ImportTypeMismatch"
      [] OTHER -> ""

PreflightEnd(c, p) ==
    LET e == c.exports
    IN  IF c.memory = <<>> THEN "MissingSharedMemory"
        ELSE IF ~({"thread_spawn", "kernel_yield"} \subseteq c.seen) THEN "MissingRequiredImport"
        ELSE IF c.abi = 0 \/ c.profile = 0 THEN "MissingMetadata"
        ELSE IF Len(e) # 1 THEN "ExportNotAllowed"
        ELSE IF e[1].name # "entry" \/ e[1].v = "notfunction" THEN "ExportNotAllowed"
        ELSE IF e[1].v \in {"imported", "beyond"} THEN "EntrypointMismatch"
        ELSE CheckEntrypointSignature(e[1].v)

Allowed(p) == IF p.validation THEN ExportNames ELSE ExportNames \ {"report"}

LifecycleIncomplete(c) ==
    LET present == Cardinality(Lifecycle \cap c.seen)
    IN  \/ present = 0 /\ "kernel_yield" \notin c.seen
        \/ present \notin {0, 3}
        \/ "cancel" \in c.seen /\ present # 3

\* by_name: a repeated name keeps its last index.
LastExport(c, s) ==
    LET m == SelectSeq(c.exports, LAMBDA x : x.name = s)
    IN  IF m = <<>> THEN "none" ELSE m[Len(m)].v
ExportError(c, s) ==
    LET v == FunctionType(LastExport(c, s))
    IN  IF v = "none" THEN "EntrypointMismatch" ELSE CheckSignature(v)
ExportMismatch(c, p) ==
    LET order == SelectSeq(<<"_start", "__main_void", "wasi_thread_start", "entry", "report">>,
                           LAMBDA s : s \in Allowed(p))
        errors == SelectSeq([i \in DOMAIN order |-> ExportError(c, order[i])], LAMBDA e : e # "")
    IN  IF \/ Len(c.exports) # Cardinality(Allowed(p))
           \/ \E x \in ToSet(c.exports) : x.name \notin Allowed(p) \/ x.v \in {"notfunction", "function"}
        THEN "ExportNotAllowed"
        ELSE IF errors = <<>> THEN "" ELSE errors[1]

PreflightThreadedRustEnd(c, p) ==
    IF c.memory = <<>> THEN "MissingSharedMemory"
    ELSE IF c.abi = 0 THEN "MissingMetadata"
    ELSE IF c.memory[1].initial # InitialPages \/ c.memory[1].maximum # MaxPages
    THEN "ThreadedMemoryMismatch"
    ELSE IF p.pages < MaxPages THEN "SharedMemoryExceedsPolicy"
    ELSE IF LastExport(c, "memory_export") # "right" THEN "MemoryExportMismatch"
    ELSE IF LifecycleIncomplete(c) THEN "MissingRequiredImport"
    ELSE IF c.features = "none" THEN "MissingTargetFeatures"
    ELSE IF c.features # "right" THEN "TargetFeaturesMismatch"
    ELSE IF p.validation /\ c.profile # 1 THEN "MissingMetadata"
    ELSE IF ExportMismatch(c, p) # "" THEN ExportMismatch(c, p)
    ELSE IF c.start # "right" THEN "StartMismatch" ELSE ""

(***************************************************************************)
(* The walk and the admission.                                             *)
(***************************************************************************)
ScanItem(c, p, s, v) ==
    IF c.err # "" THEN c
    ELSE IF p.profile = "synthetic" THEN PreflightItem(c, p, s, v)
    ELSE PreflightThreadedRustItem(c, p, s, v)

Scan(choice) ==
    /\ verdict = "scanning" /\ pos < Len(Order)
    /\ LET s == Order[pos + 1]
           m == [x \in DOMAIN module \cup {s} |-> IF x = s THEN choice ELSE module[x]]
           once == IF choice.n > 0 THEN ScanItem(sc, policy, s, choice.v) ELSE sc
           c == IF choice.n = 2 THEN ScanItem(once, policy, s, choice.v) ELSE once
       IN  /\ choice \in Plain(policy, s) \/ Deviations(policy, module) < MaxDeviations
           /\ module' = m /\ pos' = pos + 1
           /\ sc' = IF c.err # "" THEN Fail(Fresh, c.err) ELSE c
           /\ verdict' = IF c.err # "" THEN c.err ELSE "scanning"
    /\ UNCHANGED <<policy, compilations>>

EndOfModule ==
    /\ verdict = "scanning" /\ pos = Len(Order)
    /\ LET e == IF policy.profile = "synthetic" THEN PreflightEnd(sc, policy)
                ELSE PreflightThreadedRustEnd(sc, policy)
       IN  verdict' = IF e # "" THEN e ELSE "preflighted"
    /\ UNCHANGED <<policy, module, pos, sc, compilations>>

\* Module::new is the engine's own validation: it may still refuse the bytes.
Compile ==
    /\ verdict = "preflighted"
    /\ \/ verdict' = "admitted" /\ compilations' = compilations + 1
       \/ verdict' = "InvalidBinary" /\ UNCHANGED compilations
    /\ UNCHANGED <<policy, module, pos, sc>>

Init ==
    /\ policy \in {p \in Policies : p.err = ""}
    /\ verdict \in {"scanning", "ModuleTooLarge"}
    /\ module = <<>> /\ pos = 0 /\ sc = Fresh /\ compilations = 0
Next ==
    \/ pos < Len(Order) /\ \E c \in ItemChoices(Order[pos + 1]) : Scan(c)
    \/ EndOfModule
    \/ Compile
Spec == Init /\ [][Next]_vars

(***************************************************************************)
(* Properties.                                                             *)
(***************************************************************************)
Once(s) == module[s] = [n |-> 1, v |-> "right"]
Missing(s) == module[s] = Absent
Memory(p) == MemoryType(module["memory"].v)

SyntheticClosed ==
    /\ module["memory"].n = 1 /\ Memory(policy).shared /\ ~Memory(policy).memory64
    /\ ~Memory(policy).paged /\ Memory(policy).initial <= Memory(policy).maximum
    /\ Memory(policy).maximum <= policy.pages
    /\ \A s \in {"thread_spawn", "kernel_yield"} : module[s].n > 0 /\ module[s].v = "right"
    /\ \A s \in (ImportNames \ {"thread_spawn", "kernel_yield"})
                \cup {"foreign", "defined_memory", "start", "stray_export"}
                \cup (ExportNames \ {"entry"}) : Missing(s)
    /\ \A s \in {"abi", "profile", "entry"} : Once(s)

ThreadedClosed ==
    /\ \A s \in {"memory", "abi", "features"} \cup Allowed(policy) : Once(s)
    /\ module["start"].n > 0 /\ module["start"].v = "right"
    /\ policy.pages >= MaxPages
    /\ \A s \in ImportNames : Missing(s) \/ Once(s)
    /\ \/ \A s \in Lifecycle : Once(s)
       \/ Once("kernel_yield") /\ \A s \in Lifecycle \cup {"cancel"} : Missing(s)
    /\ \A s \in {"foreign", "defined_memory", "stray_export", "custom"}
                \cup (ExportNames \ Allowed(policy)) : Missing(s)
    /\ IF policy.validation THEN Once("profile") ELSE Missing("profile")
    /\ module["debug"].n = 0 \/ module["debug"].v # "oversized"

Closed == IF policy.profile = "synthetic" THEN SyntheticClosed ELSE ThreadedClosed

\* The single-pass preflights let exactly the closed modules of their profile
\* reach the engine: every item present once with its own type and nothing else
\* (preflight, preflight_threaded_rust), and a count of compiled modules is
\* taken only for those (SketchCompiler::admit).  A walk that gives up before
\* the end has met an item outside the profile, so a legal threaded module under
\* a policy with room for its memory is never refused half way.
OnlyClosedModulesCompile ==
    /\ pos \in 1..(Len(Order) - 1) /\ verdict # "scanning"
       /\ policy.profile = "threaded" /\ policy.pages >= MaxPages
           => Deviations(policy, module) > 0
    /\ verdict \in {"preflighted", "admitted", "InvalidBinary"} => Closed
    /\ pos = Len(Order) /\ Closed => verdict \in {"scanning", "preflighted", "admitted", "InvalidBinary"}
    /\ compilations = (IF verdict = "admitted" THEN 1 ELSE 0)
=============================================================================
