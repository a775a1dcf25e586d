------------------------ MODULE MCGuests ------------------------
(***************************************************************************)
(* What a sketch may ask of its host, one component per behaviour: the     *)
(* admission of its module, the limit values, the WASI and hash imports,   *)
(* and the compiler processes. `which` names the component; the slots s1,  *)
(* s2, ... are its variables.                                              *)
(***************************************************************************)
EXTENDS Integers, TLC

CONSTANTS Nil, CompilerGrants, Joiners

VARIABLES which,   \* the component of this behaviour
          s1, s2, s3, s4, s5, s6, s7, s8, s9, s10, s11, s12, s13, s14

vars == <<which, s1, s2, s3, s4, s5, s6, s7, s8, s9, s10, s11, s12, s13, s14>>

Admission == INSTANCE SketchAdmission WITH
    MaxDeviations <- 1, InitialPages <- 1, MaxPages <- 3, MaxGuestThreads <- 2,
    policy <- s1, module <- s2, pos <- s3, sc <- s4, verdict <- s5, compilations <- s6
Limits == INSTANCE SketchLimits WITH
    UsizeMax <- 15, U32Max <- 3, MaxGuestThreads <- 3, Reservation <- 2,
    MaxBytes <- 5, made <- s1, error <- s2
Calls == INSTANCE GuestCalls WITH
    Stores <- {1, 2}, Root <- 1, InitialSize <- 2, MaxSize <- 3, Half <- 2,
    MaxIovecs <- 1, MaxChunk <- 1, MaxHashOps <- 2, MaxUpdates <- 3, MaxHashes <- 2,
    facet <- s1, mem <- s2, pc <- s3, grants <- s4, ready <- s5, hash <- s6,
    created <- s7, ops <- s8, last <- s9, revoked <- s10, digests <- s11, reply <- s12
Compiler == INSTANCE CompilerProcess WITH
    Grants <- CompilerGrants, Joiners <- Joiners, MaxOps <- 2, MaxRes <- 2,
    MaxProcessJobs <- 1, MaxOutput <- 1, MaxSketch <- 9, MaxToken <- 2, None <- Nil,
    closed <- s1, failed <- s2, grant <- s3, proc <- s4, ops <- s5, native <- s6,
    reserved <- s7, job <- s8, held <- s9, cleanup <- s10, child <- s11, io <- s12,
    join <- s13, waker <- s14

Init ==
    \/ /\ which = "admission" /\ Admission!Init
       /\ s7 = 0 /\ s8 = 0 /\ s9 = 0 /\ s10 = 0 /\ s11 = 0 /\ s12 = 0 /\ s13 = 0
       /\ s14 = 0
    \/ /\ which = "limits" /\ Limits!Init
       /\ s3 = 0 /\ s4 = 0 /\ s5 = 0 /\ s6 = 0 /\ s7 = 0 /\ s8 = 0 /\ s9 = 0
       /\ s10 = 0 /\ s11 = 0 /\ s12 = 0 /\ s13 = 0 /\ s14 = 0
    \/ /\ which = "calls" /\ Calls!Init
       /\ s13 = 0 /\ s14 = 0
    \/ /\ which = "compiler" /\ Compiler!Init

NextAdmission == which = "admission" /\ Admission!Next /\ UNCHANGED <<which, s7, s8, s9, s10, s11, s12, s13, s14>>
NextLimits == which = "limits" /\ Limits!Next /\ UNCHANGED <<which, s3, s4, s5, s6, s7, s8, s9, s10, s11, s12, s13, s14>>
NextCalls == which = "calls" /\ Calls!Next /\ UNCHANGED <<which, s13, s14>>
NextCompiler == which = "compiler" /\ Compiler!Next /\ UNCHANGED <<which>>
Next == NextAdmission \/ NextLimits \/ NextCalls \/ NextCompiler
Spec == Init /\ [][Next]_vars


\* A refused import call or hash call takes nothing from its guest: no grant,
\* no result, no memory cell, no hash, no operation slot.
RefusedCallChangesNothing == [][which = "calls" => Calls!RefusedStep]_vars

\* A digest never covers an update that its guest gave up (hash_resource.rs).
DigestCoversKeptUpdates == which = "calls" => Calls!DigestCoversKeptUpdates

\* Compiler processes: the reserved output allowance covers every child that may
\* still write, a revoked grant takes all results back, a process has one reader, a
\* close that reports completion left nothing behind, and a parked joiner has someone
\* to wake it (process_resource.rs).
CompilersAreContained ==
    which = "compiler" =>
      /\ Compiler!AllowanceCoversChildren
      /\ Compiler!RevocationTakesResultsBack
      /\ Compiler!OneReadPerProcess
      /\ Compiler!CompletedCloseIsClean
      /\ Compiler!ParkedJoinerWillBeWoken
==============================================================================
