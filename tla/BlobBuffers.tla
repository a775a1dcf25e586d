---------------------------- MODULE BlobBuffers -----------------------------
(***************************************************************************)
(* The byte accounting of operations.rs on the table of HubState: what the *)
(* buffers, inputs, results and native chunks retain, the quotas that      *)
(* admit bytes, and one pass of each drive loop.  Bytes are counted, not   *)
(* kept.                                                                   *)
(***************************************************************************)
EXTENDS HubState, SequencesExt

CONSTANTS MaxChunk,     \* blob_limits.maximum_chunk_bytes
          MaxBlob,      \* blob_limits.maximum_blob_bytes
          MaxSketch,    \* blob_limits.maximum_sketch_bytes
          MaxTransfer,  \* blob_limits.maximum_transfer_bytes
          MaxReads,     \* blob_limits.maximum_pending_reads
          MaxWrites     \* blob_limits.maximum_pending_writes

\* BlobLimits::new and with_maximum_transfer_bytes.
ASSUME BlobLimits ==
  /\ MaxChunk \in Nat \ {0} /\ MaxBlob \in Nat /\ MaxSketch \in Nat
  /\ MaxTransfer \in Nat /\ MaxReads \in Nat /\ MaxWrites \in Nat
  /\ MaxChunk <= MaxBlob /\ MaxBlob <= MaxSketch
  /\ MaxTransfer >= MaxSketch + 2 * MaxChunk

\* create_blob
CreateBlob(h, s) == Activate(Create(h, s, "blob", {"read", "write"}, FALSE), h.last + 1)

Amount(x) == IF x = None THEN 0 ELSE x

Buffers(h) == MapThenSumSet(LAMBDA r : h.res[r].cap, Blobs(h))

Inputs(h) == MapThenSumSet(LAMBDA o : Amount(h.ops[o].write), DOMAIN h.ops)

Results(h) == MapThenSumSet(LAMBDA o : Amount(h.ops[o].result), DOMAIN h.ops)

\* transfer_capacity
Retained(h) == h.native + Buffers(h) + Inputs(h) + Results(h)

\* reserve_blob_capacity
CanReserve(h, b, n) ==
  LET growth == SaturatingSub(h.res[b].len + n, h.res[b].cap)
  IN  /\ Buffers(h) + growth <= MaxSketch
      /\ Retained(h) + growth <= MaxTransfer - MaxChunk

Admits(h, b, n) ==
  /\ h.res[b].len + n <= MaxBlob
  /\ h.ledger + n <= MaxSketch
  /\ CanReserve(h, b, n)

Fill(h, b, n) ==
  LET len == h.res[b].len + n
  IN [h EXCEPT !.res[b].len = len,
               !.res[b].cap = IF @ < len THEN len ELSE @,
               !.ledger = @ + n]

\* Draining a buffer to the end gives its allocation back.
Drain(h, b, n) ==
  LET len == h.res[b].len - n
  IN [h EXCEPT !.res[b].len = len,
               !.res[b].cap = IF len = 0 THEN 0 ELSE @,
               !.ledger = SaturatingSub(@, n)]

Least(a, b) == IF a < b THEN a ELSE b

WriteEnds(h, o) ==
  h.ops[o].res \notin Live(h) \/ h.res[h.ops[o].res].sealed

\* Mutant: a sealed blob still takes the writes that were waiting.
WriteOneSealed(h, o) ==
  IF Admits(h, h.ops[o].res, h.ops[o].write)
  THEN Terminate(Fill(h, h.ops[o].res, h.ops[o].write), {o}, "Completed")
  ELSE h

WriteOne(h, o) ==
  IF WriteEnds(h, o) THEN Terminate(h, {o}, "Closed")
  ELSE IF Admits(h, h.ops[o].res, h.ops[o].write)
  THEN Terminate(Fill(h, h.ops[o].res, h.ops[o].write), {o}, "Completed")
  ELSE h

Readable(h, o) ==
  LET b == h.ops[o].res
      n == Least(h.ops[o].read, h.res[b].len)
  IN /\ b \in Live(h)
     /\ h.res[b].len > 0 \/ h.res[b].sealed
     /\ Results(h) + n <= MaxSketch
     /\ Retained(h) + n <= MaxTransfer

ReadOne(h, o) ==
  LET b == h.ops[o].res
      n == Least(h.ops[o].read, h.res[b].len)
  IN IF Readable(h, o)
     THEN Terminate([Drain(h, b, n) EXCEPT !.ops[o].result = n], {o}, "Completed")
     ELSE h

WritesWaiting(h) == {o \in Pending(h) : h.ops[o].write # None}

ReadsWaiting(h) == {o \in Pending(h) : h.ops[o].read # None}

\* Operations are kept in a BTreeMap: a pass visits them in token order.
Pass(h, O, one(_, _)) == FoldLeft(one, h, SetToSortSeq(O, <))

WritePass(h) == Pass(h, WritesWaiting(h), WriteOne)

ReadPass(h) == Pass(h, ReadsWaiting(h), ReadOne)
=============================================================================
