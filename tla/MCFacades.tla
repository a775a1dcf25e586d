------------------------ MODULE MCFacades ------------------------
(***************************************************************************)
(* The facades a program built on the repository calls, one component per  *)
(* behaviour: windows, guest bindings, the component host, files, watches, *)
(* archives, local and network connections, and documents. `which` names   *)
(* the component; the slots s1, s2, ... are its variables.                 *)
(***************************************************************************)
EXTENDS Integers, TLC

CONSTANTS Nil, Views, ViewOps

VARIABLES which,   \* the component of this behaviour
          s1, s2, s3, s4, s5, s6, s7, s8, s9, s10, s11, s12, s13, s14, s15,
          s16, s17, s18, s19, s20

vars == <<which, s1, s2, s3, s4, s5, s6, s7, s8, s9, s10, s11, s12, s13, s14,
          s15, s16, s17, s18, s19, s20>>

Sessions == INSTANCE WebviewSessions WITH
    Views <- Views, Ops <- ViewOps, MaxOpens <- 1, MaxCaptures <- 1, MaxJobs <- 2,
    None <- Nil, closed <- s1, view <- s2, op <- s3, job <- s4, watch <- s5,
    listed <- s6, closing <- s7, failed <- s8, explicit <- s9, table <- s10,
    nat <- s11, win <- s12, build <- s13, term <- s14, loadTaken <- s15, cap <- s16,
    entry <- s17, ui <- s18, loop <- s19, shut <- s20
Windows == INSTANCE WebviewHandles WITH
    Callers <- {1, 2}, MaxOps <- 2, MaxCalls <- 2, MaxPages <- 1, MaxEnds <- 1,
    facet <- s1, w <- s2, value <- s3
Facade == INSTANCE GuestFacade WITH
    MaxTokens <- 7, MaxSlots <- 2, Word <- 8, Chunk <- 3, facet <- s1, host <- s2,
    vals <- s3, cur <- s4, probe <- s5
Component == INSTANCE ComponentHost WITH
    Handles <- {1, 2, 3}, Calls <- {1, 2}, MaxOps <- 3, MaxResources <- 3,
    MaxCredit <- 2, MaxUpdate <- 3, MaxFrame <- 2, facet <- s1, st <- s2, input <- s3,
    im <- s4
Permissions == INSTANCE FilePermissions WITH
    host <- s1, facet <- s2, file <- s3, saved <- s4, before <- s5, last <- s6,
    dirs <- s7, call <- s8, made <- s9
Exchange == INSTANCE FileExchange WITH
    MaxBytes <- 1, MaxWrites <- 2, host <- s1, names <- s2, busy <- s3, nodes <- s4,
    call <- s5, moves <- s6
Guards == INSTANCE FileGuards WITH
    Handles <- {1, 2, 3}, Ops <- {1, 2}, MaxOperations <- 1, MaxChunks <- 2,
    MaxMoves <- 3, facet <- s1, host <- s2, locks <- s3, ops <- s4, scratch <- s5,
    lease <- s6, moves <- s7
Watch == INSTANCE FileWatch WITH
    Paths <- {"a"}, MaxWatches <- 2, MaxCalls <- 4, MaxChanges <- 3, facet <- s1,
    client <- s2, actions <- s3, acks <- s4, wake <- s5, server <- s6, watches <- s7,
    ws <- s8, note <- s9
Archive == INSTANCE Archives WITH
    MaxOutput <- 3, MaxEntry <- 2, MaxEntries <- 3, MaxMetadata <- 10, MaxPath <- 3,
    MaxSteps <- 8, MaxDepth <- 3, MaxExtension <- 2, facet <- s1, ex <- s2,
    value <- s3
Ipc == INSTANCE LocalIpc WITH
    MaxBytes <- 2, MaxPayload <- 2, MaxMoves <- 4, MaxPath <- 4, Radix <- 4,
    facet <- s1, host <- s2, relay <- s3, handoff <- s4, name <- s5, dir <- s6,
    stream <- s7, broker <- s8
Net == INSTANCE NetServices WITH
    MaxConnections <- 1, Conns <- {1, 2}, MaxRequests <- 2, MaxBody <- 2,
    MaxRedirects <- 2, MaxTime <- 5, facet <- s1, srv <- s2, body <- s3, pio <- s4,
    cl <- s5, idn <- s6, value <- s7
Document == INSTANCE Documents WITH
    Pages <- 2, BackupMaxRetries <- 2, MaxStatements <- 2, MaxInput <- 4,
    BufferLength <- 3, MaxFiles <- 3, MaxWorkers <- 2, facet <- s1, bk <- s2,
    tx <- s3, rd <- s4, tr <- s5, value <- s6

Init ==
    \/ /\ which = "sessions" /\ Sessions!Init
    \/ /\ which = "windows" /\ Windows!Init
       /\ s4 = 0 /\ s5 = 0 /\ s6 = 0 /\ s7 = 0 /\ s8 = 0 /\ s9 = 0 /\ s10 = 0
       /\ s11 = 0 /\ s12 = 0 /\ s13 = 0 /\ s14 = 0 /\ s15 = 0 /\ s16 = 0 /\ s17 = 0
       /\ s18 = 0 /\ s19 = 0 /\ s20 = 0
    \/ /\ which = "facade" /\ Facade!Init
       /\ s6 = 0 /\ s7 = 0 /\ s8 = 0 /\ s9 = 0 /\ s10 = 0 /\ s11 = 0 /\ s12 = 0
       /\ s13 = 0 /\ s14 = 0 /\ s15 = 0 /\ s16 = 0 /\ s17 = 0 /\ s18 = 0 /\ s19 = 0
       /\ s20 = 0
    \/ /\ which = "component" /\ Component!Init
       /\ s5 = 0 /\ s6 = 0 /\ s7 = 0 /\ s8 = 0 /\ s9 = 0 /\ s10 = 0 /\ s11 = 0
       /\ s12 = 0 /\ s13 = 0 /\ s14 = 0 /\ s15 = 0 /\ s16 = 0 /\ s17 = 0 /\ s18 = 0
       /\ s19 = 0 /\ s20 = 0
    \/ /\ which = "permissions" /\ Permissions!Init
       /\ s10 = 0 /\ s11 = 0 /\ s12 = 0 /\ s13 = 0 /\ s14 = 0 /\ s15 = 0 /\ s16 = 0
       /\ s17 = 0 /\ s18 = 0 /\ s19 = 0 /\ s20 = 0
    \/ /\ which = "exchange" /\ Exchange!Init
       /\ s7 = 0 /\ s8 = 0 /\ s9 = 0 /\ s10 = 0 /\ s11 = 0 /\ s12 = 0 /\ s13 = 0
       /\ s14 = 0 /\ s15 = 0 /\ s16 = 0 /\ s17 = 0 /\ s18 = 0 /\ s19 = 0 /\ s20 = 0
    \/ /\ which = "guards" /\ Guards!Init
       /\ s8 = 0 /\ s9 = 0 /\ s10 = 0 /\ s11 = 0 /\ s12 = 0 /\ s13 = 0 /\ s14 = 0
       /\ s15 = 0 /\ s16 = 0 /\ s17 = 0 /\ s18 = 0 /\ s19 = 0 /\ s20 = 0
    \/ /\ which = "watch" /\ Watch!Init
       /\ s10 = 0 /\ s11 = 0 /\ s12 = 0 /\ s13 = 0 /\ s14 = 0 /\ s15 = 0 /\ s16 = 0
       /\ s17 = 0 /\ s18 = 0 /\ s19 = 0 /\ s20 = 0
    \/ /\ which = "archive" /\ Archive!Init
       /\ s4 = 0 /\ s5 = 0 /\ s6 = 0 /\ s7 = 0 /\ s8 = 0 /\ s9 = 0 /\ s10 = 0
       /\ s11 = 0 /\ s12 = 0 /\ s13 = 0 /\ s14 = 0 /\ s15 = 0 /\ s16 = 0 /\ s17 = 0
       /\ s18 = 0 /\ s19 = 0 /\ s20 = 0
    \/ /\ which = "ipc" /\ Ipc!Init
       /\ s9 = 0 /\ s10 = 0 /\ s11 = 0 /\ s12 = 0 /\ s13 = 0 /\ s14 = 0 /\ s15 = 0
       /\ s16 = 0 /\ s17 = 0 /\ s18 = 0 /\ s19 = 0 /\ s20 = 0
    \/ /\ which = "net" /\ Net!Init
       /\ s8 = 0 /\ s9 = 0 /\ s10 = 0 /\ s11 = 0 /\ s12 = 0 /\ s13 = 0 /\ s14 = 0
       /\ s15 = 0 /\ s16 = 0 /\ s17 = 0 /\ s18 = 0 /\ s19 = 0 /\ s20 = 0
    \/ /\ which = "document" /\ Document!Init
       /\ s7 = 0 /\ s8 = 0 /\ s9 = 0 /\ s10 = 0 /\ s11 = 0 /\ s12 = 0 /\ s13 = 0
       /\ s14 = 0 /\ s15 = 0 /\ s16 = 0 /\ s17 = 0 /\ s18 = 0 /\ s19 = 0 /\ s20 = 0

NextSessions == which = "sessions" /\ Sessions!Next /\ UNCHANGED <<which>>
NextWindows == which = "windows" /\ Windows!Next /\ UNCHANGED <<which, s4, s5, s6, s7, s8, s9, s10, s11, s12, s13, s14, s15, s16, s17, s18, s19, s20>>
NextFacade == which = "facade" /\ Facade!Next /\ UNCHANGED <<which, s6, s7, s8, s9, s10, s11, s12, s13, s14, s15, s16, s17, s18, s19, s20>>
NextComponent == which = "component" /\ Component!Next /\ UNCHANGED <<which, s5, s6, s7, s8, s9, s10, s11, s12, s13, s14, s15, s16, s17, s18, s19, s20>>
NextPermissions == which = "permissions" /\ Permissions!Next /\ UNCHANGED <<which, s10, s11, s12, s13, s14, s15, s16, s17, s18, s19, s20>>
NextExchange == which = "exchange" /\ Exchange!Next /\ UNCHANGED <<which, s7, s8, s9, s10, s11, s12, s13, s14, s15, s16, s17, s18, s19, s20>>
NextGuards == which = "guards" /\ Guards!Next /\ UNCHANGED <<which, s8, s9, s10, s11, s12, s13, s14, s15, s16, s17, s18, s19, s20>>
NextWatch == which = "watch" /\ Watch!Next /\ UNCHANGED <<which, s10, s11, s12, s13, s14, s15, s16, s17, s18, s19, s20>>
NextArchive == which = "archive" /\ Archive!Next /\ UNCHANGED <<which, s4, s5, s6, s7, s8, s9, s10, s11, s12, s13, s14, s15, s16, s17, s18, s19, s20>>
NextIpc == which = "ipc" /\ Ipc!Next /\ UNCHANGED <<which, s9, s10, s11, s12, s13, s14, s15, s16, s17, s18, s19, s20>>
NextNet == which = "net" /\ Net!Next /\ UNCHANGED <<which, s8, s9, s10, s11, s12, s13, s14, s15, s16, s17, s18, s19, s20>>
NextDocument == which = "document" /\ Document!Next /\ UNCHANGED <<which, s7, s8, s9, s10, s11, s12, s13, s14, s15, s16, s17, s18, s19, s20>>
Next ==
    \/ NextSessions
    \/ NextWindows
    \/ NextFacade
    \/ NextComponent
    \/ NextPermissions
    \/ NextExchange
    \/ NextGuards
    \/ NextWatch
    \/ NextArchive
    \/ NextIpc
    \/ NextNet
    \/ NextDocument
Spec == Init /\ [][Next]_vars

\* The operations of a view are interchangeable.
Symmetry == Permutations(ViewOps)

\* A window dies with its view or its handle and reports its end, and what a close or
\* a capture reports as done is done (tauri/sketch.rs, tauri.rs, window_control.rs).
WindowsFollowTheirOwners ==
    /\ which = "sessions" => /\ Sessions!NoWindowOutlivesShutdown
                             /\ Sessions!BackingsMatchViews
                             /\ Sessions!CompletedCloseDestroyed
                             /\ Sessions!CaptureLeavesNothing
    /\ which = "windows" => /\ Windows!WindowDiesWithItsHandle
                            /\ Windows!EndsAreReported
                            /\ Windows!WebviewValuesAgree

\* What a guest or a component holds is closed, reaped or refunded exactly once, and
\* results are committed only by the call that says so (guest.rs, component_host.rs).
GuestResourcesAreSettled ==
    /\ which = "facade" => Facade!NothingIsForgotten /\ Facade!PackedResultsAgree
    /\ which = "component" => /\ Component!ReservationsCoverResults
                              /\ Component!AuthorityHasAnOwner
                              /\ Component!CommitsAreExplicit


\* A relayed or handed-over connection keeps its bytes and has one owner; an HTTP
\* exchange keeps its declared body, its upgrade and its authority (platform/ipc.rs,
\* http_server.rs, http.rs, daemon_identity.rs).
ConnectionsKeepTheirPromises ==
    /\ which = "ipc" => /\ Ipc!RelayKeepsBytes
                        /\ Ipc!HandoffHasOneOwner
                        /\ Ipc!LiveNameIsKept
                        /\ Ipc!DaclFollowsOwner
                        /\ Ipc!FacadeKeepsMeaning
                        /\ Ipc!ValuesAgree
    /\ which = "net" => /\ Net!UpgradesRunToTheirEnd
                        /\ Net!BodiesKeepTheirDeclaration
                        /\ Net!StallsAreReal
                        /\ Net!RedirectsCarryNoAuthority
                        /\ Net!VerifiedMeansThisInstance
                        /\ Net!ServiceValuesAgree

\* An extraction stays inside its root and its bounds and succeeds only when it has
\* read all of its input; a backup is whole and new, a transaction atomic, a digest
\* covers its input, and documents are read as their reference definitions say
\* (archive.rs, sqlite.rs, hash.rs, json.rs, command.rs).
StoredDataIsFaithful ==
    /\ which = "archive" => /\ Archive!LinksStayInside
                            /\ Archive!ExtractionIsBounded
                            /\ Archive!SuccessCoversTheInput
                            /\ Archive!ArchiveValuesAgree
    /\ which = "document" => /\ Document!BackupIsWholeAndNew
                             /\ Document!TransactionsAreAtomic
                             /\ Document!DigestCoversTheInput
                             /\ Document!TreeDigestIsCanonical
                             /\ Document!DocumentValuesAgree
==============================================================================
