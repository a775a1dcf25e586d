-------------------------- MODULE OperationPromise --------------------------
(***************************************************************************)
(* What one logical root promises its guests, without the table, the       *)
(* imports in several critical sections, the tasks and the wake-ups that   *)
(* OperationHub has.  A guest sees tokens.  A token is issued once, for an *)
(* operation or for a resource.  An operation is pending until it gets one *)
(* result, and the result is there until it is taken.  A resource is       *)
(* reserved for the operation that creates it, granted in the step that    *)
(* completes that operation, and revoked in the step that completes a      *)
(* Close of it, which also ends whatever still borrows it.  The end of the *)
(* root ends everything.                                                   *)
(***************************************************************************)
EXTENDS Naturals

CONSTANTS Results,  \* what the end of the root may give the pending operations
          Waiting   \* an operation has none yet

VARIABLES results,   \* by operation token: Waiting or the result not yet taken
          reserved,  \* the resources being created
          granted,   \* the resources guests may use
          issued,    \* the last token given out
          over       \* the root has ended

promised == <<results, reserved, granted, issued, over>>

Unresolved == {o \in DOMAIN results : results[o] = Waiting}

AtMostOne(S) == {{}} \cup {{x} : x \in S}

Init ==
  /\ results = [o \in {} |-> Waiting]
  /\ reserved = {} /\ granted = {} /\ issued = 0 /\ over = FALSE

Reserve ==
  /\ ~over
  /\ issued' = issued + 1
  /\ reserved' = reserved \cup {issued + 1}
  /\ UNCHANGED <<results, granted, over>>

\* The creating import could not submit its operation.
Withdraw(r) ==
  /\ reserved' = reserved \ {r}
  /\ UNCHANGED <<results, granted, issued, over>>

Accept ==
  /\ ~over
  /\ issued' = issued + 1
  /\ results' = [o \in DOMAIN results \cup {issued + 1} |->
                   IF o = issued + 1 THEN Waiting ELSE results[o]]
  /\ UNCHANGED <<reserved, granted, over>>

\* The operation created what it gains, if anything.
Complete(o, gained) ==
  /\ ~over
  /\ results' = [results EXCEPT ![o] = "Completed"]
  /\ reserved' = reserved \ gained
  /\ granted' = granted \cup gained
  /\ UNCHANGED <<issued, over>>

\* The operation is a Close of r, which others may be borrowing.
CompleteClose(o, r, borrowers) ==
  /\ results' = [p \in DOMAIN results |->
                   IF p = o THEN "Completed"
                   ELSE IF p \in borrowers THEN "Closed" ELSE results[p]]
  /\ granted' = granted \ {r}
  /\ UNCHANGED <<reserved, issued, over>>

Cancel(o, abandoned) ==
  /\ results' = [results EXCEPT ![o] = "Cancelled"]
  /\ reserved' = reserved \ abandoned
  /\ UNCHANGED <<granted, issued, over>>

Take(o) ==
  /\ results[o] # Waiting
  /\ results' = [p \in DOMAIN results \ {o} |-> results[p]]
  /\ UNCHANGED <<reserved, granted, issued, over>>

End(t) ==
  /\ ~over
  /\ over' = TRUE
  /\ results' = [o \in DOMAIN results |-> IF results[o] = Waiting THEN t ELSE results[o]]
  /\ reserved' = {} /\ granted' = {}
  /\ UNCHANGED issued

Next ==
  \/ Reserve \/ Accept
  \/ \E r \in reserved : Withdraw(r)
  \/ \E o \in Unresolved :
       \/ \E gained \in AtMostOne(reserved) : Complete(o, gained)
       \/ \E r \in granted : \E borrowers \in SUBSET (Unresolved \ {o}) :
             CompleteClose(o, r, borrowers)
       \/ \E abandoned \in AtMostOne(reserved) : Cancel(o, abandoned)
  \/ \E o \in DOMAIN results : Take(o)
  \/ \E t \in Results : End(t)

Spec == Init /\ [][Next]_promised
=============================================================================
