------------------------------ MODULE KBIndex -------------------------------
(***************************************************************************)
(* The documents of one tenant's knowledge base: the management requests   *)
(* of python_agent/routers_kb.py, the Redis list cs:kb:index:queue and the *)
(* workers of kb_index_worker.py that turn a file into vectors.  A step    *)
(* ends where the code awaits.  Rows, files, vectors and the list outlive  *)
(* a crash of an agent process; its workers and requests do not.           *)
(***************************************************************************)
EXTENDS Naturals, Sequences, FiniteSets

CONSTANTS
    Doc,        \* doc_id values
    Process,    \* agent processes
    Worker,     \* index_worker_loop tasks
    Request,    \* management requests in flight
    ProcOf,     \* the process a task or a request runs in
    Batches,    \* batches of points one document is written in
    MaxDocs,    \* the tenant's max_kb_docs, 0 = no limit
    MaxOps,     \* bound: requests other than uploads
    MaxFaults   \* bound: crashes and failed calls

ASSUME KBAssumption ==
    /\ IsFiniteSet(Doc) /\ IsFiniteSet(Worker) /\ IsFiniteSet(Request)
    /\ ProcOf \in [Worker \cup Request -> Process]
    /\ Worker \cap Request = {}
    /\ Batches \in Nat \ {0}
    /\ MaxDocs \in Nat /\ MaxOps \in Nat /\ MaxFaults \in Nat

VARIABLES
    row,     \* row[d]: kb_documents.status by name; "none" before, "gone" after
    file,    \* documents whose file is on the shared volume
    vec,     \* vec[d]: batches of points with this doc_id in Qdrant
    queue,   \* the list; both LPUSH and BLPOP work at its head
    proc,    \* proc[p]: "up", "down", or "scan" (requeue_pending)
    scan,    \* scan[p]: interrupted documents still to be queued again
    wk,      \* wk[w]: where the worker stands, with which document
    rq,      \* rq[r]: where the request stands, with which documents
    ops, faults,
    raced,   \* documents two tasks or requests had in hand at once (history)
    torn     \* documents a swallowed error or a crash left halfway (history)

vars == <<row, file, vec, queue, proc, scan, wk, rq, ops, faults, raced, torn>>

Status == {"pending", "indexed", "failed", "indexing"}
Live(d) == row[d] \in Status
Rows == {d \in Doc : Live(d)}
Idle == [at |-> "idle"]
None == [at |-> "idle", docs |-> {}]

Holds(w, d) == wk[w] # Idle /\ wk[w].doc = d
Actors(d) == {w \in Worker : Holds(w, d)} \cup {r \in Request : d \in rq[r].docs}
Queued(d) == \E i \in 1..Len(queue) : queue[i] = d

\* UPDATE kb_documents ... WHERE doc_id = d: no row, no effect.
SetStatus(D, s) == row' = [d \in Doc |-> IF d \in D /\ Live(d) THEN s ELSE row[d]]

Types ==
    /\ row \in [Doc -> Status \cup {"none", "gone"}]
    /\ file \subseteq Doc
    /\ vec \in [Doc -> Nat]
    /\ queue \in Seq(Doc)
    /\ proc \in [Process -> {"up", "down", "scan"}]
    /\ scan \in [Process -> SUBSET Doc]
    /\ wk \in [Worker -> {Idle} \cup
                 [at : {"taken", "read", "marked", "adding", "failing"},
                  doc : Doc, n : 0..Batches]]
    /\ rq \in [Request -> [at : {"idle", "saved", "insert", "row", "purge",
                                 "requeue", "enqueue"}, docs : SUBSET Doc]]
    /\ ops \in 0..MaxOps /\ faults \in 0..MaxFaults
    /\ raced \subseteq Doc /\ torn \subseteq Doc

\* Only a process that is up runs workers and requests.
Linked ==
    /\ \A w \in Worker : wk[w] # Idle => proc[ProcOf[w]] = "up"
    /\ \A r \in Request : rq[r] # None => proc[ProcOf[r]] = "up"
    /\ \A p \in Process : proc[p] # "scan" => scan[p] = {}

TypeOK == Types /\ Linked

Init ==
    /\ row = [d \in Doc |-> "none"] /\ file = {} /\ vec = [d \in Doc |-> 0]
    /\ queue = << >>
    /\ proc = [p \in Process |-> "up"] /\ scan = [p \in Process |-> {}]
    /\ wk = [w \in Worker |-> Idle]
    /\ rq = [r \in Request |-> None]
    /\ ops = 0 /\ faults = 0
    /\ raced = {} /\ torn = {}

Fault == faults < MaxFaults /\ faults' = faults + 1
NoFault == UNCHANGED <<faults, torn>>

-----------------------------------------------------------------------------
(* Requests.                                                               *)

Free(r) == rq[r] = None /\ proc[ProcOf[r]] = "up"
Enters(r, at, D) ==
    /\ Free(r) /\ rq' = [rq EXCEPT ![r] = [at |-> at, docs |-> D]]
    /\ UNCHANGED <<queue, proc, scan, wk>>
Starts(r, at, D) == Enters(r, at, D) /\ ops < MaxOps /\ ops' = ops + 1
Goes(r, at) == rq' = [rq EXCEPT ![r].at = at]
Ends(r) == rq' = [rq EXCEPT ![r] = None]
Unmoved == UNCHANGED <<proc, scan, wk, ops>>

\* kb_upload: the file is written before the quota is looked at ...
UploadSave(r, d) ==
    /\ row[d] = "none" /\ Actors(d) = {}
    /\ Enters(r, "saved", {d})
    /\ file' = file \cup {d}
    /\ NoFault /\ UNCHANGED <<row, vec, ops>>

\* Mutant of UploadCheck: the quota itself is let through.
UploadCheckOffByOne(r) ==
    /\ rq[r].at = "saved"
    /\ \/ /\ MaxDocs = 0 \/ Cardinality(Rows) <= MaxDocs
          /\ Goes(r, "insert") /\ UNCHANGED file
       \/ /\ MaxDocs > 0 /\ Cardinality(Rows) > MaxDocs
          /\ Ends(r) /\ file' = file \ rq[r].docs
    /\ NoFault /\ Unmoved /\ UNCHANGED <<row, vec, queue>>

\* ... and removed again when check_kb_quota refuses.
UploadCheck(r) ==
    /\ rq[r].at = "saved"
    /\ \/ /\ MaxDocs = 0 \/ Cardinality(Rows) < MaxDocs
          /\ Goes(r, "insert") /\ UNCHANGED file
       \/ /\ MaxDocs > 0 /\ Cardinality(Rows) >= MaxDocs
          /\ Ends(r) /\ file' = file \ rq[r].docs
    /\ NoFault /\ Unmoved /\ UNCHANGED <<row, vec, queue>>

\* Registered with status 0, and not queued; a failed INSERT removes the file.
UploadInsert(r) ==
    /\ rq[r].at = "insert"
    /\ \/ /\ row' = [d \in Doc |-> IF d \in rq[r].docs THEN "pending" ELSE row[d]]
          /\ UNCHANGED file /\ NoFault
       \/ Fault /\ file' = file \ rq[r].docs /\ UNCHANGED <<row, torn>>
    /\ Ends(r)
    /\ Unmoved /\ UNCHANGED <<vec, queue>>

\* kb_delete: the vectors first; when that fails it answers 500.
Delete(r, d) ==
    /\ Live(d)
    /\ \/ Starts(r, "row", {d}) /\ vec' = [vec EXCEPT ![d] = 0] /\ NoFault
       \/ /\ Free(r) /\ Fault
          /\ UNCHANGED <<queue, vec, torn, rq>> /\ Unmoved
    /\ UNCHANGED <<row, file>>

\* Mutant of DeleteRow: the file goes whether or not the row went.
DeleteRowAndFile(r) ==
    /\ rq[r].at = "row"
    /\ file' = file \ rq[r].docs
    /\ \/ SetStatus(rq[r].docs, "gone") /\ NoFault
       \/ Fault /\ torn' = torn \cup rq[r].docs /\ UNCHANGED row
    /\ Ends(r)
    /\ Unmoved /\ UNCHANGED <<vec, queue>>

\* Then the row, then the file.
DeleteRow(r) ==
    /\ rq[r].at = "row"
    /\ \/ SetStatus(rq[r].docs, "gone") /\ file' = file \ rq[r].docs /\ NoFault
       \/ Fault /\ torn' = torn \cup rq[r].docs /\ UNCHANGED <<row, file>>
    /\ Ends(r)
    /\ Unmoved /\ UNCHANGED <<vec, queue>>

\* kb_batch "delete": the rows first, the files never.
BatchDelete(r, D) ==
    /\ D \subseteq Rows
    /\ Starts(r, "purge", D)
    /\ SetStatus(D, "gone")
    /\ NoFault /\ UNCHANGED <<file, vec>>

\* Then the vectors; an error is swallowed.
BatchPurge(r) ==
    /\ rq[r].at = "purge"
    /\ \/ vec' = [d \in Doc |-> IF d \in rq[r].docs THEN 0 ELSE vec[d]] /\ NoFault
       \/ Fault /\ torn' = torn \cup rq[r].docs /\ UNCHANGED vec
    /\ Ends(r)
    /\ Unmoved /\ UNCHANGED <<row, file, queue>>

\* kb_reindex, alone or for each document of kb_batch "reindex": status 0 ...
Reindex(r, d) ==
    /\ Live(d)
    /\ Starts(r, "requeue", {d})
    /\ SetStatus({d}, "pending")
    /\ NoFault /\ UNCHANGED <<file, vec>>

\* ... the vectors go (an error is swallowed), and the document is queued.
ReindexQueue(r) ==
    /\ rq[r].at = "requeue"
    /\ \E d \in rq[r].docs :
         \/ vec' = [vec EXCEPT ![d] = 0] /\ queue' = <<d>> \o queue /\ NoFault
         \/ Fault /\ queue' = <<d>> \o queue /\ UNCHANGED <<vec, torn>>
         \/ Fault /\ vec' = [vec EXCEPT ![d] = 0] /\ UNCHANGED <<queue, torn>>
    /\ Ends(r)
    /\ Unmoved /\ UNCHANGED <<row, file>>

\* kb_index: the given documents whatever their status, or all of status 0, 2.
Index(r, D) ==
    /\ D # {} /\ D \subseteq Rows
    /\ Starts(r, "enqueue", D)
    /\ SetStatus(D, "pending")
    /\ NoFault /\ UNCHANGED <<file, vec>>

\* One document after the other; one that cannot be queued gets status 2.
IndexQueue(r, d) ==
    /\ rq[r].at = "enqueue" /\ d \in rq[r].docs
    /\ \/ queue' = <<d>> \o queue /\ UNCHANGED row /\ NoFault
       \/ Fault /\ SetStatus({d}, "failed") /\ UNCHANGED <<queue, torn>>
    /\ IF rq[r].docs = {d} THEN Ends(r) ELSE rq' = [rq EXCEPT ![r].docs = @ \ {d}]
    /\ Unmoved /\ UNCHANGED <<vec, file>>

-----------------------------------------------------------------------------
(* Workers: _index_one and the loop around it.                             *)

At(w, at) == wk[w] # Idle /\ wk[w].at = at
To(w, at) == wk' = [wk EXCEPT ![w].at = at]
Rests(w) == wk' = [wk EXCEPT ![w] = Idle]
Aside == UNCHANGED <<file, proc, scan, rq, ops>>

\* BLPOP takes the job off the list before anything is done about it.
Take(w) ==
    /\ wk[w] = Idle /\ proc[ProcOf[w]] = "up" /\ queue # << >>
    /\ wk' = [wk EXCEPT ![w] = [at |-> "taken", doc |-> Head(queue), n |-> 0]]
    /\ queue' = Tail(queue)
    /\ NoFault /\ Aside /\ UNCHANGED <<row, vec>>

ReadRow(w) ==
    /\ At(w, "taken")
    /\ \/ Live(wk[w].doc) /\ To(w, "read") /\ NoFault
       \/ ~Live(wk[w].doc) /\ Rests(w) /\ NoFault
       \/ Rests(w) /\ Fault /\ torn' = torn \cup {wk[w].doc}
    /\ Aside /\ UNCHANGED <<row, vec, queue>>

\* The file is read, and status 3 written, if the row is still there.
Begin(w) ==
    /\ At(w, "read")
    /\ \/ /\ wk[w].doc \in file
          /\ To(w, "marked") /\ SetStatus({wk[w].doc}, "indexing") /\ NoFault
       \/ wk[w].doc \notin file /\ To(w, "failing") /\ UNCHANGED row /\ NoFault
       \/ To(w, "failing") /\ UNCHANGED <<row, torn>> /\ Fault
    /\ Aside /\ UNCHANGED <<vec, queue>>

\* Mutant of Clear: a job is not idempotent.
ClearNothing(w) ==
    /\ At(w, "marked") /\ To(w, "adding")
    /\ NoFault /\ Aside /\ UNCHANGED <<row, vec, queue>>

\* The old vectors go; an error is swallowed and the new ones are added to them.
Clear(w) ==
    /\ At(w, "marked") /\ To(w, "adding")
    /\ \/ vec' = [vec EXCEPT ![wk[w].doc] = 0] /\ NoFault
       \/ Fault /\ torn' = torn \cup {wk[w].doc} /\ UNCHANGED vec
    /\ Aside /\ UNCHANGED <<row, queue>>

\* aadd_texts writes batch after batch, under fresh ids.
AddBatch(w) ==
    /\ At(w, "adding") /\ wk[w].n < Batches
    /\ vec' = [vec EXCEPT ![wk[w].doc] = @ + 1]
    /\ wk' = [wk EXCEPT ![w].n = @ + 1]
    /\ NoFault /\ Aside /\ UNCHANGED <<row, queue>>

Finish(w) ==
    /\ At(w, "adding") /\ wk[w].n = Batches
    /\ SetStatus({wk[w].doc}, "indexed")
    /\ Rests(w)
    /\ NoFault /\ Aside /\ UNCHANGED <<vec, queue>>

\* No chunks or no vector store, or an exception after any of the batches.
Break(w) ==
    /\ At(w, "adding") /\ To(w, "failing")
    /\ (wk[w].n = 0 /\ UNCHANGED faults) \/ Fault
    /\ Aside /\ UNCHANGED <<row, vec, queue, torn>>

\* _mark_failed swallows its own errors.
MarkFailed(w) ==
    /\ At(w, "failing") /\ Rests(w)
    /\ \/ SetStatus({wk[w].doc}, "failed") /\ NoFault
       \/ Fault /\ torn' = torn \cup {wk[w].doc} /\ UNCHANGED row
    /\ Aside /\ UNCHANGED <<vec, queue>>

-----------------------------------------------------------------------------
(* Processes.                                                              *)

Crash(p) ==
    /\ proc[p] # "down" /\ Fault
    /\ proc' = [proc EXCEPT ![p] = "down"] /\ scan' = [scan EXCEPT ![p] = {}]
    /\ wk' = [w \in Worker |-> IF ProcOf[w] = p THEN Idle ELSE wk[w]]
    /\ rq' = [r \in Request |-> IF ProcOf[r] = p THEN None ELSE rq[r]]
    /\ torn' = torn \cup UNION {rq[r].docs : r \in
                 {q \in Request : ProcOf[q] = p /\ rq[q].at \in {"row", "purge"}}}
    /\ UNCHANGED <<row, file, vec, queue, ops>>

\* Mutant of Restart: status 0 is scanned for, as the head of the file has it.
RestartPending(p) ==
    /\ proc[p] = "down"
    /\ proc' = [proc EXCEPT ![p] = "scan"]
    /\ scan' = [scan EXCEPT ![p] = {d \in Doc : row[d] = "pending"}]
    /\ NoFault /\ UNCHANGED <<row, file, vec, queue, wk, rq, ops>>

\* requeue_pending: what status 3 says was interrupted is queued again.
Restart(p) ==
    /\ proc[p] = "down"
    /\ proc' = [proc EXCEPT ![p] = "scan"]
    /\ scan' = [scan EXCEPT ![p] = {d \in Doc : row[d] = "indexing"}]
    /\ NoFault /\ UNCHANGED <<row, file, vec, queue, wk, rq, ops>>

Requeue(p, d) ==
    /\ d \in scan[p]
    /\ \/ queue' = <<d>> \o queue /\ scan' = [scan EXCEPT ![p] = @ \ {d}] /\ NoFault
       \/ Fault /\ torn' = torn \cup scan[p] /\ scan' = [scan EXCEPT ![p] = {}]
                /\ UNCHANGED queue
    /\ UNCHANGED <<row, file, vec, proc, wk, rq, ops>>

\* Mutant of Started: the workers start beside the scan.
StartedAtOnce(p) ==
    /\ proc[p] = "scan"
    /\ proc' = [proc EXCEPT ![p] = "up"]
    /\ NoFault /\ UNCHANGED <<row, file, vec, queue, scan, wk, rq, ops>>

\* The workers start once the scan is through.
Started(p) ==
    /\ proc[p] = "scan" /\ scan[p] = {}
    /\ proc' = [proc EXCEPT ![p] = "up"]
    /\ NoFault /\ UNCHANGED <<row, file, vec, queue, scan, wk, rq, ops>>

RequestStep(r) ==
    \/ \E d \in Doc : UploadSave(r, d) \/ Delete(r, d) \/ Reindex(r, d) \/ IndexQueue(r, d)
    \/ \E D \in SUBSET Doc \ {{}} : BatchDelete(r, D) \/ Index(r, D)
    \/ UploadCheck(r) \/ UploadInsert(r) \/ DeleteRow(r) \/ BatchPurge(r) \/ ReindexQueue(r)
WorkerStep(w) ==
    \/ Take(w) \/ ReadRow(w) \/ Begin(w) \/ Clear(w) \/ AddBatch(w)
    \/ Finish(w) \/ Break(w) \/ MarkFailed(w)
ProcessStep(p) ==
    \/ Crash(p) \/ Restart(p) \/ Started(p)
    \/ \E d \in Doc : Requeue(p, d)

\* Who has had what in hand at the same time.
Note == raced' = raced \cup {d \in Doc : Cardinality(Actors(d)') > 1}

Next ==
    /\ \/ \E r \in Request : RequestStep(r)
       \/ \E w \in Worker : WorkerStep(w)
       \/ \E p \in Process : ProcessStep(p)
    /\ Note

Spec == Init /\ [][Next]_vars

-----------------------------------------------------------------------------
(* Properties.                                                             *)

\* A document has its file for as long as it has its row: kb_upload writes the
\* file before the row, kb_delete removes it after.
RowHasFile == \A d \in Doc : Live(d) => d \in file

\* What was never in two hands at once, and never left halfway, is exact once
\* nobody works on it: an indexed document has each of its points once and a
\* deleted one has none, whatever crashed, failed or was queued twice.
ExactIndex ==
    \A d \in Doc \ (raced \cup torn) : Actors(d) = {} =>
        /\ row[d] = "indexed" => vec[d] = Batches
        /\ row[d] \in {"none", "gone"} => vec[d] = 0

\* A document that says it is being indexed is in somebody's hands, on the list,
\* or about to be found by the scan of a process that starts.
IndexingIsOwned ==
    \A d \in Doc \ torn : row[d] = "indexing" =>
        \/ Queued(d) \/ \E w \in Worker : Holds(w, d)
        \/ \E p \in Process : proc[p] = "down" \/ d \in scan[p]

\* The quota is read before the row is inserted: each further upload in flight
\* can exceed it by one document, and no more.
QuotaOvershoot ==
    MaxDocs > 0 => Cardinality(Rows) < MaxDocs + Cardinality(Request)

=============================================================================
