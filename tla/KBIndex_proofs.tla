---------------------------- MODULE KBIndex_proofs ----------------------------
(***************************************************************************)
(* Documents and their files, documents that are being indexed, vectors at *)
(* rest and the quota, for any number of documents, processes, workers and *)
(* requests.                                                               *)
(***************************************************************************)
EXTENDS KBIndex, SequenceTheorems, FiniteSetTheorems, TLAPS

WkType == [at : {"taken", "read", "marked", "adding", "failing"}, doc : Doc, n : 0..Batches]
RqType == [at : {"idle", "saved", "insert", "row", "purge", "requeue", "enqueue"}, docs : SUBSET Doc]

\* Every action is one of these.
LEMMA NextCases ==
    ASSUME Next
    PROVE  \/ \E r \in Request, d \in Doc : UploadSave(r, d) \/ Delete(r, d) \/ Reindex(r, d) \/ IndexQueue(r, d)
           \/ \E r \in Request, D \in SUBSET Doc : BatchDelete(r, D) \/ Index(r, D)
           \/ \E r \in Request : UploadCheck(r) \/ UploadInsert(r) \/ DeleteRow(r) \/ BatchPurge(r) \/ ReindexQueue(r)
           \/ \E w \in Worker : Take(w) \/ ReadRow(w) \/ Begin(w) \/ Clear(w)
           \/ \E w \in Worker : AddBatch(w) \/ Finish(w) \/ Break(w) \/ MarkFailed(w)
           \/ \E p \in Process : Crash(p) \/ Restart(p) \/ Started(p)
           \/ \E p \in Process, d \in Doc : Requeue(p, d)
  BY DEF Next, RequestStep, WorkerStep, ProcessStep

LEMMA NextNotes == ASSUME Next PROVE raced' = raced \cup {d \in Doc : Cardinality(Actors(d)') > 1}
  BY DEF Next, Note

LEMMA StatusType ==
    ASSUME row \in [Doc -> Status \cup {"none", "gone"}], NEW D, NEW s \in Status \cup {"gone"}, SetStatus(D, s)
    PROVE  row' \in [Doc -> Status \cup {"none", "gone"}]
  BY DEF SetStatus

\* A document put at the head of the list is in it, and so is what was there.
LEMMA Pushed ==
    ASSUME queue \in Seq(Doc), NEW d \in Doc
    PROVE  /\ <<d>> \o queue \in Seq(Doc)
           /\ Len(<<d>> \o queue) = Len(queue) + 1
           /\ (<<d>> \o queue)[1] = d
           /\ \A i \in 1..Len(queue) : (<<d>> \o queue)[i + 1] = queue[i]
<1>1. <<d>> \in Seq(Doc) /\ Len(<<d>>) = 1 /\ <<d>>[1] = d
  OBVIOUS
<1>2. QED
  BY <1>1, ConcatProperties

-----------------------------------------------------------------------------
\* The parts of Types, by who changes them.
Data == row \in [Doc -> Status \cup {"none", "gone"}] /\ file \subseteq Doc /\ vec \in [Doc -> Nat] /\ queue \in Seq(Doc)
Procs == proc \in [Process -> {"up", "down", "scan"}] /\ scan \in [Process -> SUBSET Doc]
Tasks == wk \in [Worker -> {Idle} \cup WkType] /\ rq \in [Request -> RqType]
Bounds == ops \in 0..MaxOps /\ faults \in 0..MaxFaults /\ torn \subseteq Doc

LEMMA TypesParts == Types <=> Data /\ Procs /\ Tasks /\ Bounds /\ raced \subseteq Doc
  BY DEF Types, Data, Procs, Tasks, Bounds, WkType, RqType

LEMMA DataStep == ASSUME Data, Procs, Tasks, Bounds, Next PROVE Data'
<1> USE DEF Data, Tasks, WkType, RqType
<1>1. ASSUME NEW r \in Request, NEW d \in Doc, UploadSave(r, d) PROVE Data'
  BY <1>1 DEF UploadSave, Enters
<1>2. ASSUME NEW r \in Request, NEW d \in Doc, Delete(r, d) PROVE Data'
  BY <1>2 DEF Delete, Starts, Enters, Unmoved
<1>3. ASSUME NEW r \in Request, NEW d \in Doc, Reindex(r, d) PROVE Data'
  BY <1>3, StatusType DEF Reindex, Starts, Enters, Status
<1>4. ASSUME NEW r \in Request, NEW d \in Doc, IndexQueue(r, d) PROVE Data'
  BY <1>4, StatusType, Pushed DEF IndexQueue, Status
<1>5. ASSUME NEW r \in Request, NEW D \in SUBSET Doc, BatchDelete(r, D) PROVE Data'
  BY <1>5, StatusType DEF BatchDelete, Starts, Enters
<1>6. ASSUME NEW r \in Request, NEW D \in SUBSET Doc, Index(r, D) PROVE Data'
  BY <1>6, StatusType DEF Index, Starts, Enters, Status
<1>7. ASSUME NEW r \in Request, UploadCheck(r) PROVE Data'
  BY <1>7 DEF UploadCheck
<1>8. ASSUME NEW r \in Request, UploadInsert(r) PROVE Data'
  BY <1>8 DEF UploadInsert, Status
<1>9. ASSUME NEW r \in Request, DeleteRow(r) PROVE Data'
  BY <1>9, StatusType DEF DeleteRow
<1>10. ASSUME NEW r \in Request, BatchPurge(r) PROVE Data'
  BY <1>10 DEF BatchPurge
<1>11. ASSUME NEW r \in Request, ReindexQueue(r) PROVE Data'
  <2>1. PICK d \in rq[r].docs :
           /\ vec' = [vec EXCEPT ![d] = 0] \/ UNCHANGED vec
           /\ queue' = <<d>> \o queue \/ UNCHANGED queue
    BY <1>11 DEF ReindexQueue
  <2>2. d \in Doc
    OBVIOUS
  <2>3. queue' \in Seq(Doc)
    BY <2>1, <2>2, Pushed
  <2>4. vec' \in [Doc -> Nat]
    BY <2>1, <2>2
  <2>5. UNCHANGED <<row, file>>
    BY <1>11 DEF ReindexQueue
  <2>6. QED
    BY <2>3, <2>4, <2>5
<1>12. ASSUME NEW w \in Worker, Take(w) PROVE Data'
  BY <1>12 DEF Take, Aside
<1>13. ASSUME NEW w \in Worker, ReadRow(w) PROVE Data'
  BY <1>13 DEF ReadRow, Aside
<1>14. ASSUME NEW w \in Worker, Begin(w) PROVE Data'
  BY <1>14, StatusType DEF Begin, Aside, Status
<1>15. ASSUME NEW w \in Worker, Clear(w) PROVE Data'
  BY <1>15 DEF Clear, Aside
<1>16. ASSUME NEW w \in Worker, AddBatch(w) PROVE Data'
  BY <1>16 DEF AddBatch, Aside, At
<1>17. ASSUME NEW w \in Worker, Finish(w) PROVE Data'
  BY <1>17, StatusType DEF Finish, Aside, Status
<1>18. ASSUME NEW w \in Worker, Break(w) PROVE Data'
  BY <1>18 DEF Break, Aside
<1>19. ASSUME NEW w \in Worker, MarkFailed(w) PROVE Data'
  BY <1>19, StatusType DEF MarkFailed, Aside, Status
<1>20. ASSUME NEW p \in Process, Crash(p) \/ Restart(p) \/ Started(p) PROVE Data'
  BY <1>20 DEF Crash, Restart, Started
<1>21. ASSUME NEW p \in Process, NEW d \in Doc, Requeue(p, d) PROVE Data'
  <2>1. queue' = <<d>> \o queue \/ UNCHANGED queue
    BY <1>21 DEF Requeue
  <2>2. queue \in Seq(Doc) /\ <<d>> \o queue \in Seq(Doc)
    BY Pushed
  <2>3. queue' \in Seq(Doc)
    BY <2>1, <2>2
  <2>4. QED
    BY <1>21, <2>3 DEF Requeue
<1>22. QED
  BY NextCases, <1>1, <1>2, <1>3, <1>4, <1>5, <1>6, <1>7, <1>8, <1>9, <1>10, <1>11, <1>12, <1>13,
     <1>14, <1>15, <1>16, <1>17, <1>18, <1>19, <1>20, <1>21

LEMMA ProcsStep == ASSUME Data, Procs, Tasks, Bounds, Next PROVE Procs'
<1> USE DEF Procs
<1>1. ASSUME NEW r \in Request, NEW d \in Doc, UploadSave(r, d) \/ Delete(r, d) \/ Reindex(r, d) \/ IndexQueue(r, d)
      PROVE  Procs'
  BY <1>1 DEF UploadSave, Delete, Reindex, IndexQueue, Starts, Enters, Unmoved
<1>2. ASSUME NEW r \in Request, NEW D \in SUBSET Doc, BatchDelete(r, D) \/ Index(r, D) PROVE Procs'
  BY <1>2 DEF BatchDelete, Index, Starts, Enters
<1>3. ASSUME NEW r \in Request,
             UploadCheck(r) \/ UploadInsert(r) \/ DeleteRow(r) \/ BatchPurge(r) \/ ReindexQueue(r)
      PROVE  Procs'
  BY <1>3 DEF UploadCheck, UploadInsert, DeleteRow, BatchPurge, ReindexQueue, Unmoved
<1>4. ASSUME NEW w \in Worker, Take(w) \/ ReadRow(w) \/ Begin(w) \/ Clear(w) PROVE Procs'
  BY <1>4 DEF Take, ReadRow, Begin, Clear, Aside
<1>5. ASSUME NEW w \in Worker, AddBatch(w) \/ Finish(w) \/ Break(w) \/ MarkFailed(w) PROVE Procs'
  BY <1>5 DEF AddBatch, Finish, Break, MarkFailed, Aside
<1>6. ASSUME NEW p \in Process, Crash(p) PROVE Procs'
  BY <1>6 DEF Crash
<1>7. ASSUME NEW p \in Process, Restart(p) \/ Started(p) PROVE Procs'
  BY <1>7 DEF Restart, Started
<1>8. ASSUME NEW p \in Process, NEW d \in Doc, Requeue(p, d) PROVE Procs'
  BY <1>8 DEF Requeue
<1>9. QED
  BY NextCases, <1>1, <1>2, <1>3, <1>4, <1>5, <1>6, <1>7, <1>8

LEMMA BoundsStep == ASSUME Data, Procs, Tasks, Bounds, Next PROVE Bounds'
<1> USE KBAssumption DEF Bounds, Fault, NoFault
<1>1. ASSUME NEW r \in Request, NEW d \in Doc, UploadSave(r, d) \/ Delete(r, d) \/ Reindex(r, d) \/ IndexQueue(r, d)
      PROVE  Bounds'
  BY <1>1 DEF UploadSave, Delete, Reindex, IndexQueue, Starts, Enters, Unmoved
<1>2. ASSUME NEW r \in Request, NEW D \in SUBSET Doc, BatchDelete(r, D) \/ Index(r, D) PROVE Bounds'
  BY <1>2 DEF BatchDelete, Index, Starts, Enters
<1>3. ASSUME NEW r \in Request, UploadCheck(r) \/ UploadInsert(r) \/ ReindexQueue(r) PROVE Bounds'
  <2>1. ASSUME UploadCheck(r) \/ UploadInsert(r) PROVE Bounds'
    BY <2>1 DEF UploadCheck, UploadInsert, Unmoved
  <2>2. ASSUME ReindexQueue(r) PROVE Bounds'
    <3>1. faults' \in 0..MaxFaults /\ torn' = torn
      BY <2>2 DEF ReindexQueue
    <3>2. QED
      BY <2>2, <3>1 DEF ReindexQueue, Unmoved
  <2>3. QED
    BY <1>3, <2>1, <2>2
<1>4. ASSUME NEW r \in Request, DeleteRow(r) \/ BatchPurge(r) PROVE Bounds'
  <2>1. rq[r].docs \subseteq Doc
    BY DEF Tasks, RqType
  <2>2. QED
    BY <1>4, <2>1 DEF DeleteRow, BatchPurge, Unmoved
<1>5. ASSUME NEW w \in Worker, Take(w) \/ AddBatch(w) \/ Finish(w) \/ Break(w) PROVE Bounds'
  BY <1>5 DEF Take, AddBatch, Finish, Break, Aside
<1>6. ASSUME NEW w \in Worker, ReadRow(w) \/ Begin(w) \/ Clear(w) \/ MarkFailed(w) PROVE Bounds'
  <2>1. wk[w].doc \in Doc
    BY <1>6 DEF Tasks, WkType, ReadRow, Begin, Clear, MarkFailed, At
  <2>2. QED
    BY <1>6, <2>1 DEF ReadRow, Begin, Clear, MarkFailed, Aside
<1>7. ASSUME NEW p \in Process, Crash(p) PROVE Bounds'
  <2>1. UNION {rq[r].docs : r \in {q \in Request : ProcOf[q] = p /\ rq[q].at \in {"row", "purge"}}} \subseteq Doc
    BY DEF Tasks, RqType
  <2>2. QED
    BY <1>7, <2>1 DEF Crash
<1>8. ASSUME NEW p \in Process, Restart(p) \/ Started(p) PROVE Bounds'
  BY <1>8 DEF Restart, Started
<1>9. ASSUME NEW p \in Process, NEW d \in Doc, Requeue(p, d) PROVE Bounds'
  BY <1>9 DEF Requeue, Procs
<1>10. QED
  BY NextCases, <1>1, <1>2, <1>3, <1>4, <1>5, <1>6, <1>7, <1>8, <1>9

LEMMA TasksStep == ASSUME Data, Procs, Tasks, Bounds, Next PROVE Tasks'
<1> USE DEF Tasks, WkType, RqType
<1>1. ASSUME NEW r \in Request, NEW d \in Doc, UploadSave(r, d) PROVE Tasks'
  BY <1>1 DEF UploadSave, Enters
<1>2. ASSUME NEW r \in Request, NEW d \in Doc, Delete(r, d) PROVE Tasks'
  BY <1>2 DEF Delete, Starts, Enters, Unmoved
<1>3. ASSUME NEW r \in Request, NEW d \in Doc, Reindex(r, d) PROVE Tasks'
  BY <1>3 DEF Reindex, Starts, Enters
<1>4. ASSUME NEW r \in Request, NEW d \in Doc, IndexQueue(r, d) PROVE Tasks'
  BY <1>4 DEF IndexQueue, Ends, Unmoved, None
<1>5. ASSUME NEW r \in Request, NEW D \in SUBSET Doc, BatchDelete(r, D) \/ Index(r, D) PROVE Tasks'
  BY <1>5 DEF BatchDelete, Index, Starts, Enters
<1>6. ASSUME NEW r \in Request, UploadCheck(r) PROVE Tasks'
  BY <1>6 DEF UploadCheck, Goes, Ends, None, Unmoved
<1>7. ASSUME NEW r \in Request, UploadInsert(r) PROVE Tasks'
  BY <1>7 DEF UploadInsert, Ends, None, Unmoved
<1>8. ASSUME NEW r \in Request, DeleteRow(r) \/ BatchPurge(r) PROVE Tasks'
  BY <1>8 DEF DeleteRow, BatchPurge, Ends, None, Unmoved
<1>9. ASSUME NEW r \in Request, ReindexQueue(r) PROVE Tasks'
  BY <1>9 DEF ReindexQueue, Ends, None, Unmoved
<1>10. ASSUME NEW w \in Worker, Take(w) PROVE Tasks'
  <2>1. Head(queue) \in Doc
    BY <1>10 DEF Data, Take
  <2>2. [at |-> "taken", doc |-> Head(queue), n |-> 0] \in WkType
    BY <2>1, KBAssumption
  <2>3. QED
    BY <1>10, <2>2 DEF Take, Aside
<1>11. ASSUME NEW w \in Worker, ReadRow(w) PROVE Tasks'
  BY <1>11 DEF ReadRow, At, To, Rests, Aside
<1>12. ASSUME NEW w \in Worker, Begin(w) PROVE Tasks'
  BY <1>12 DEF Begin, At, To, Aside
<1>13. ASSUME NEW w \in Worker, Clear(w) PROVE Tasks'
  BY <1>13 DEF Clear, At, To, Aside
<1>14. ASSUME NEW w \in Worker, AddBatch(w) PROVE Tasks'
  <2>1. wk[w] \in WkType /\ wk[w].n + 1 \in 0..Batches
    BY <1>14, KBAssumption DEF AddBatch, At
  <2>2. [wk[w] EXCEPT !.n = @ + 1] \in WkType
    BY <2>1
  <2>3. wk' = [wk EXCEPT ![w] = [wk[w] EXCEPT !.n = @ + 1]]
    BY <1>14 DEF AddBatch
  <2>4. QED
    BY <1>14, <2>2, <2>3 DEF AddBatch, Aside
<1>15. ASSUME NEW w \in Worker, Finish(w) \/ MarkFailed(w) PROVE Tasks'
  BY <1>15 DEF Finish, MarkFailed, Rests, Aside
<1>16. ASSUME NEW w \in Worker, Break(w) PROVE Tasks'
  BY <1>16 DEF Break, At, To, Aside
<1>17. ASSUME NEW p \in Process, Crash(p) PROVE Tasks'
  BY <1>17 DEF Crash, None
<1>18. ASSUME NEW p \in Process, Restart(p) \/ Started(p) PROVE Tasks'
  BY <1>18 DEF Restart, Started
<1>19. ASSUME NEW p \in Process, NEW d \in Doc, Requeue(p, d) PROVE Tasks'
  BY <1>19 DEF Requeue
<1>20. QED
  BY NextCases, <1>1, <1>2, <1>3, <1>4, <1>5, <1>6, <1>7, <1>8, <1>9, <1>10, <1>11, <1>12, <1>13,
     <1>14, <1>15, <1>16, <1>17, <1>18, <1>19

LEMMA TypesStep == ASSUME Types, [Next]_vars PROVE Types'
<1>1. ASSUME Next PROVE Types'
  <2>1. Data' /\ Procs' /\ Tasks' /\ Bounds'
    BY <1>1, TypesParts, DataStep, ProcsStep, TasksStep, BoundsStep
  <2>2. raced' \subseteq Doc
    BY <1>1, TypesParts, NextNotes
  <2>3. QED
    BY <2>1, <2>2 DEF Types, Data, Procs, Tasks, Bounds, WkType, RqType
<1>2. ASSUME UNCHANGED vars PROVE Types'
  BY <1>2 DEF vars, Types
<1>3. QED
  BY <1>1, <1>2

LEMMA LinkedStep == ASSUME Types, Linked, Next PROVE Linked'
<1>0. Data /\ Procs /\ Tasks
  BY TypesParts
<1> USE DEF Linked, Tasks, Procs
<1>1. ASSUME NEW r \in Request, NEW d \in Doc, UploadSave(r, d) \/ Delete(r, d) \/ Reindex(r, d) PROVE Linked'
  BY <1>0, <1>1 DEF UploadSave, Delete, Reindex, Starts, Enters, Free, Unmoved
<1>2. ASSUME NEW r \in Request, NEW d \in Doc, IndexQueue(r, d) PROVE Linked'
  <2>1. rq[r] # None
    BY <1>2 DEF IndexQueue, None
  <2>2. QED
    BY <1>0, <1>2, <2>1 DEF IndexQueue, Ends, Unmoved
<1>3. ASSUME NEW r \in Request, NEW D \in SUBSET Doc, BatchDelete(r, D) \/ Index(r, D) PROVE Linked'
  BY <1>0, <1>3 DEF BatchDelete, Index, Starts, Enters, Free
<1>4. ASSUME NEW r \in Request,
             UploadCheck(r) \/ UploadInsert(r) \/ DeleteRow(r) \/ BatchPurge(r) \/ ReindexQueue(r)
      PROVE  Linked'
  <2>1. rq[r] # None
    BY <1>4 DEF UploadCheck, UploadInsert, DeleteRow, BatchPurge, ReindexQueue, None
  <2>2. Goes(r, "insert") \/ Ends(r)
    BY <1>4 DEF UploadCheck, UploadInsert, DeleteRow, BatchPurge, ReindexQueue
  <2>3. Unmoved
    BY <1>4 DEF UploadCheck, UploadInsert, DeleteRow, BatchPurge, ReindexQueue
  <2>4. QED
    BY <1>0, <2>1, <2>2, <2>3 DEF Goes, Ends, Unmoved
<1>5. ASSUME NEW w \in Worker, Take(w) PROVE Linked'
  BY <1>0, <1>5 DEF Take, Aside
<1>6. ASSUME NEW w \in Worker,
             ReadRow(w) \/ Begin(w) \/ Clear(w) \/ AddBatch(w) \/ Finish(w) \/ Break(w) \/ MarkFailed(w)
      PROVE  Linked'
  <2>1. wk[w] # Idle /\ Aside
    BY <1>6 DEF ReadRow, Begin, Clear, AddBatch, Finish, Break, MarkFailed, At
  <2>2. \A v \in Worker \ {w} : wk'[v] = wk[v]
    BY <1>0, <1>6 DEF ReadRow, Begin, Clear, AddBatch, Finish, Break, MarkFailed, To, Rests
  <2>3. QED
    BY <1>0, <2>1, <2>2 DEF Aside
<1>7. ASSUME NEW p \in Process, Crash(p) PROVE Linked'
  BY <1>0, <1>7 DEF Crash
<1>8. ASSUME NEW p \in Process, Restart(p) PROVE Linked'
  BY <1>0, <1>8 DEF Restart
<1>9. ASSUME NEW p \in Process, Started(p) PROVE Linked'
  BY <1>0, <1>9 DEF Started
<1>10. ASSUME NEW p \in Process, NEW d \in Doc, Requeue(p, d) PROVE Linked'
  BY <1>0, <1>10 DEF Requeue
<1>11. QED
  BY NextCases, <1>1, <1>2, <1>3, <1>4, <1>5, <1>6, <1>7, <1>8, <1>9, <1>10

\* Rows, files, vectors and tasks are what kb_index_worker.py and routers_kb.py make
\* them, and only a process that is up has tasks.
THEOREM TypeCorrect == Spec => []TypeOK
<1>1. Init => TypeOK
  <2> SUFFICES ASSUME Init PROVE TypeOK
    OBVIOUS
  <2>1. Data
    BY DEF Init, Data
  <2>2. Procs
    BY DEF Init, Procs
  <2>3. Tasks
    BY DEF Init, Tasks, RqType, None
  <2>4. Bounds /\ raced \subseteq Doc
    BY KBAssumption DEF Init, Bounds
  <2>5. Linked
    BY DEF Init, Linked
  <2>6. QED
    BY <2>1, <2>2, <2>3, <2>4, <2>5, TypesParts DEF TypeOK
<1>2. TypeOK /\ [Next]_vars => TypeOK'
  <2> SUFFICES ASSUME TypeOK, [Next]_vars PROVE TypeOK'
    OBVIOUS
  <2>1. Types'
    BY TypesStep DEF TypeOK
  <2>2. ASSUME Next PROVE Linked'
    BY <2>2, LinkedStep DEF TypeOK
  <2>3. ASSUME UNCHANGED vars PROVE Linked'
    BY <2>3 DEF TypeOK, Linked, vars
  <2>4. QED
    BY <2>1, <2>2, <2>3 DEF TypeOK
<1>3. QED
  BY <1>1, <1>2, PTL DEF Spec

-----------------------------------------------------------------------------
\* A document that says it is being indexed is in somebody's hands.
Owned(d) ==
    \/ d \in torn \/ row[d] # "indexing"
    \/ Queued(d) \/ \E w \in Worker : Holds(w, d)
    \/ \E p \in Process : proc[p] = "down" \/ d \in scan[p]

LEMMA OwnedDef == IndexingIsOwned <=> \A d \in Doc : Owned(d)
  BY DEF IndexingIsOwned, Owned

\* Nothing is taken off the list by who puts a document at its head.
LEMMA PushedQueued ==
    ASSUME queue \in Seq(Doc), NEW e \in Doc, queue' = <<e>> \o queue, NEW d, Queued(d)
    PROVE  Queued(d)'
<1>1. PICK i \in 1..Len(queue) : queue[i] = d
  BY DEF Queued
<1>2. i + 1 \in 1..Len(queue') /\ queue'[i + 1] = d
  BY <1>1, Pushed
<1>3. QED
  BY <1>2 DEF Queued

\* What a request does keeps a document owned: it moves no worker and no process,
\* takes nothing off the list, and makes no document "indexing".
LEMMA RequestOwned ==
    ASSUME Data, UNCHANGED <<proc, scan, wk>>, torn \subseteq torn',
           UNCHANGED queue \/ \E e \in Doc : queue' = <<e>> \o queue,
           NEW d, Owned(d), row'[d] = "indexing" => row[d] = "indexing"
    PROVE  Owned(d)'
<1>1. Queued(d) => Queued(d)'
  <2>1. CASE UNCHANGED queue
    BY <2>1 DEF Queued
  <2>2. CASE \E e \in Doc : queue' = <<e>> \o queue
    BY <2>2, PushedQueued DEF Data
  <2>3. QED
    BY <2>1, <2>2
<1>2. \A w \in Worker : Holds(w, d) => Holds(w, d)'
  BY DEF Holds
<1>3. QED
  BY <1>1, <1>2 DEF Owned

LEMMA OwnedStep == ASSUME Types, Next, NEW d \in Doc, Owned(d) PROVE Owned(d)'
<1>0. Data /\ Procs /\ Tasks
  BY TypesParts
<1>1. ASSUME NEW r \in Request, NEW e \in Doc, UploadSave(r, e) \/ Delete(r, e) PROVE Owned(d)'
  <2>1. UNCHANGED <<proc, scan, wk, queue, torn, row>>
    BY <1>1 DEF UploadSave, Delete, Starts, Enters, Unmoved, NoFault
  <2>2. QED
    BY <1>0, <2>1, RequestOwned
<1>2. ASSUME NEW r \in Request, NEW e \in Doc, Reindex(r, e) PROVE Owned(d)'
  <2>1. UNCHANGED <<proc, scan, wk, queue, torn>> /\ (row'[d] = "indexing" => row[d] = "indexing")
    BY <1>2 DEF Reindex, Starts, Enters, NoFault, SetStatus
  <2>2. QED
    BY <1>0, <2>1, RequestOwned
<1>3. ASSUME NEW r \in Request, NEW e \in Doc, IndexQueue(r, e) PROVE Owned(d)'
  <2>1. UNCHANGED <<proc, scan, wk, torn>> /\ (row'[d] = "indexing" => row[d] = "indexing")
    BY <1>3 DEF IndexQueue, Unmoved, NoFault, SetStatus
  <2>2. UNCHANGED queue \/ queue' = <<e>> \o queue
    BY <1>3 DEF IndexQueue
  <2>3. QED
    BY <1>0, <2>1, <2>2, RequestOwned
<1>4. ASSUME NEW r \in Request, NEW D \in SUBSET Doc, BatchDelete(r, D) \/ Index(r, D) PROVE Owned(d)'
  <2>1. UNCHANGED <<proc, scan, wk, queue, torn>> /\ (row'[d] = "indexing" => row[d] = "indexing")
    BY <1>4 DEF BatchDelete, Index, Starts, Enters, NoFault, SetStatus
  <2>2. QED
    BY <1>0, <2>1, RequestOwned
<1>5. ASSUME NEW r \in Request, UploadCheck(r) \/ UploadInsert(r) \/ DeleteRow(r) \/ BatchPurge(r)
      PROVE  Owned(d)'
  <2>1. UNCHANGED <<proc, scan, wk, queue>> /\ torn \subseteq torn'
    BY <1>5 DEF UploadCheck, UploadInsert, DeleteRow, BatchPurge, Unmoved, NoFault
  <2>2. row'[d] = "indexing" => row[d] = "indexing"
    BY <1>5 DEF UploadCheck, UploadInsert, DeleteRow, BatchPurge, SetStatus
  <2>3. QED
    BY <1>0, <2>1, <2>2, RequestOwned
<1>6. ASSUME NEW r \in Request, ReindexQueue(r) PROVE Owned(d)'
  <2>1. UNCHANGED <<proc, scan, wk, torn, row>>
    BY <1>6 DEF ReindexQueue, Unmoved, NoFault
  <2>2. rq[r].docs \subseteq Doc
    BY <1>0 DEF Tasks, RqType
  <2>3. UNCHANGED queue \/ \E e \in Doc : queue' = <<e>> \o queue
    BY <1>6, <2>2 DEF ReindexQueue
  <2>4. QED
    BY <1>0, <2>1, <2>3, RequestOwned
<1>7. ASSUME NEW w \in Worker, Take(w) PROVE Owned(d)'
  <2>1. UNCHANGED <<proc, scan, torn, row>> /\ queue' = Tail(queue) /\ queue # << >>
    BY <1>7 DEF Take, Aside, NoFault
  <2>2. wk[w] = Idle /\ wk' = [wk EXCEPT ![w] = [at |-> "taken", doc |-> Head(queue), n |-> 0]]
    BY <1>7 DEF Take
  <2>3. \A v \in Worker : Holds(v, d) => Holds(v, d)'
    BY <1>0, <2>2 DEF Holds, Tasks
  <2>4. ASSUME Queued(d) PROVE Queued(d)' \/ Holds(w, d)'
    <3>1. PICK i \in 1..Len(queue) : queue[i] = d
      BY <2>4 DEF Queued
    <3>2. CASE i = 1
      <4>1. wk'[w] = [at |-> "taken", doc |-> d, n |-> 0]
        BY <1>0, <2>1, <2>2, <3>1, <3>2 DEF Tasks, Data
      <4>2. wk'[w] # Idle /\ wk'[w].doc = d
        BY <4>1 DEF Idle
      <4>3. QED
        BY <4>2 DEF Holds
    <3>3. CASE i # 1
      <4>1. i - 1 \in 1..Len(queue') /\ queue'[i - 1] = d
        BY <1>0, <2>1, <3>1, <3>3, HeadTailProperties DEF Data
      <4>2. QED
        BY <4>1 DEF Queued
    <3>4. QED
      BY <3>2, <3>3
  <2>5. QED
    BY <2>1, <2>3, <2>4 DEF Owned
<1>8. ASSUME NEW w \in Worker, ReadRow(w) \/ Begin(w) \/ Clear(w) \/ AddBatch(w) \/ Break(w) \/ Finish(w) \/ MarkFailed(w)
      PROVE  Owned(d)'
  <2>1. UNCHANGED <<proc, scan, queue>> /\ torn \subseteq torn' /\ wk[w] \in WkType
    BY <1>0, <1>8 DEF ReadRow, Begin, Clear, AddBatch, Break, Finish, MarkFailed, Aside, NoFault, At, Tasks
  <2>2. Queued(d) => Queued(d)'
    BY <2>1 DEF Queued
  <2>3. \A v \in Worker \ {w} : wk'[v] = wk[v]
    BY <1>0, <1>8 DEF ReadRow, Begin, Clear, AddBatch, Finish, Break, MarkFailed, To, Rests, Tasks
  <2>4. CASE wk[w].doc # d
    <3>1. row'[d] = row[d] \/ row'[d] # "indexing"
      BY <1>8, <2>4 DEF ReadRow, Begin, Clear, AddBatch, Finish, Break, MarkFailed, SetStatus
    <3>2. \A v \in Worker : Holds(v, d) => Holds(v, d)'
      BY <2>3, <2>4 DEF Holds
    <3>3. QED
      BY <2>1, <2>2, <3>1, <3>2 DEF Owned
  <2>5. CASE wk[w].doc = d
    <3>1. Holds(w, d)' \/ row'[d] # "indexing" \/ d \in torn'
      <4>1. ASSUME NEW at, To(w, at) PROVE Holds(w, d)'
        <5>1. wk'[w] = [wk[w] EXCEPT !.at = at] /\ wk[w] \in WkType
          BY <1>0, <2>1, <4>1 DEF To, Tasks
        <5>2. wk'[w].doc = d /\ wk'[w] # Idle
          BY <2>5, <5>1 DEF WkType, Idle
        <5>3. QED
          BY <5>2 DEF Holds
      <4>2. CASE ReadRow(w)
        BY <2>5, <4>1, <4>2 DEF ReadRow, Live, Status
      <4>3. CASE Begin(w) \/ Clear(w) \/ Break(w)
        BY <4>1, <4>3 DEF Begin, Clear, Break
      <4>4. CASE AddBatch(w)
        <5>1. wk'[w] = [wk[w] EXCEPT !.n = @ + 1] /\ wk[w] \in WkType
          BY <1>0, <2>1, <4>4 DEF AddBatch, Tasks
        <5>2. wk'[w].doc = d /\ wk'[w] # Idle
          BY <2>5, <5>1 DEF WkType, Idle
        <5>3. QED
          BY <5>2 DEF Holds
      <4>5. CASE Finish(w)
        BY <2>5, <4>5 DEF Finish, SetStatus, Live, Status
      <4>6. CASE MarkFailed(w)
        BY <2>5, <4>6 DEF MarkFailed, SetStatus, Live, Status
      <4>7. QED
        BY <1>8, <4>2, <4>3, <4>4, <4>5, <4>6
    <3>2. QED
      BY <3>1 DEF Owned
  <2>6. QED
    BY <2>4, <2>5
<1>9. ASSUME NEW p \in Process, Crash(p) PROVE Owned(d)'
  <2>1. proc'[p] = "down"
    BY <1>0, <1>9 DEF Crash, Procs
  <2>2. QED
    BY <2>1 DEF Owned
<1>10. ASSUME NEW p \in Process, Restart(p) PROVE Owned(d)'
  <2>1. UNCHANGED row /\ (row[d] = "indexing" => d \in scan'[p])
    BY <1>0, <1>10 DEF Restart, Procs
  <2>2. QED
    BY <2>1 DEF Owned
<1>11. ASSUME NEW p \in Process, Started(p) PROVE Owned(d)'
  <2>1. UNCHANGED <<row, torn, queue, scan, wk>> /\ proc[p] = "scan"
    BY <1>11 DEF Started, NoFault
  <2>2. \A q \in Process : proc[q] = "down" => proc'[q] = "down"
    BY <1>0, <1>11, <2>1 DEF Started, Procs
  <2>3. QED
    BY <2>1, <2>2 DEF Owned, Queued, Holds
<1>12. ASSUME NEW p \in Process, NEW e \in Doc, Requeue(p, e) PROVE Owned(d)'
  <2>1. UNCHANGED <<row, proc, wk>> /\ torn \subseteq torn'
    BY <1>12 DEF Requeue, NoFault
  <2>2. \A v \in Worker : Holds(v, d) => Holds(v, d)'
    BY <2>1 DEF Holds
  <2>3. CASE queue' = <<e>> \o queue /\ scan' = [scan EXCEPT ![p] = @ \ {e}]
    <3>1. Queued(d) => Queued(d)'
      BY <1>0, <2>3, PushedQueued DEF Data
    <3>2. d = e => Queued(d)'
      <4>1. 1 \in 1..Len(queue') /\ queue'[1] = e
        BY <1>0, <2>3, Pushed DEF Data
      <4>2. QED
        BY <4>1 DEF Queued
    <3>3. d # e => \A q \in Process : d \in scan[q] => d \in scan'[q]
      BY <1>0, <2>3 DEF Procs
    <3>4. QED
      BY <2>1, <2>2, <3>1, <3>2, <3>3 DEF Owned
  <2>4. CASE torn' = torn \cup scan[p] /\ scan' = [scan EXCEPT ![p] = {}] /\ UNCHANGED queue
    <3>1. \A q \in Process : d \in scan[q] => d \in scan'[q] \/ d \in torn'
      BY <1>0, <2>4 DEF Procs
    <3>2. Queued(d) => Queued(d)'
      BY <2>4 DEF Queued
    <3>3. QED
      BY <2>1, <2>2, <2>4, <3>1, <3>2 DEF Owned
  <2>5. QED
    BY <1>12, <2>3, <2>4 DEF Requeue
<1>13. QED
  BY NextCases, <1>1, <1>2, <1>3, <1>4, <1>5, <1>6, <1>7, <1>8, <1>9, <1>10, <1>11, <1>12

\* requeue_pending looks for status 3: no crash, between any two steps of any worker,
\* leaves a document in it that nobody will take up again.
THEOREM IndexingOwned == Spec => []IndexingIsOwned
<1>1. Init => IndexingIsOwned
  BY DEF Init, IndexingIsOwned
<1>2. TypeOK /\ IndexingIsOwned /\ [Next]_vars => IndexingIsOwned'
  <2> SUFFICES ASSUME TypeOK, IndexingIsOwned, [Next]_vars PROVE IndexingIsOwned'
    OBVIOUS
  <2>1. ASSUME Next PROVE IndexingIsOwned'
    <3>1. \A d \in Doc : Owned(d)'
      BY <2>1, OwnedDef, OwnedStep DEF TypeOK
    <3>2. QED
      BY <3>1 DEF Owned, IndexingIsOwned
  <2>2. ASSUME UNCHANGED vars PROVE IndexingIsOwned'
    BY <2>2 DEF vars, IndexingIsOwned, Queued, Holds
  <2>3. QED
    BY <2>1, <2>2
<1>3. QED
  BY <1>1, <1>2, TypeCorrect, PTL DEF Spec

-----------------------------------------------------------------------------
\* An upload in flight: its document has a file and no row, and no other upload has it.
Uploading(r, d) == rq[r].at \in {"saved", "insert"} /\ d \in rq[r].docs
Deleting(r, d) == rq[r].at = "row" /\ d \in rq[r].docs

Uploads ==
    \A d \in Doc :
        /\ \A r \in Request : Uploading(r, d) => row[d] = "none"
        /\ \A r, q \in Request : Uploading(r, d) /\ Uploading(q, d) => r = q
        /\ \A r \in Request : Deleting(r, d) => row[d] # "none"
        /\ (Live(d) \/ \E r \in Request : Uploading(r, d)) => d \in file

\* A step that starts no upload and no deletion, and touches no file, keeps this.
LEMMA UploadsKept ==
    ASSUME Types, Uploads, UNCHANGED file,
           \A d \in Doc : row[d] = "none" <=> row'[d] = "none",
           \A d \in Doc : Live(d)' => Live(d),
           \A r \in Request, d \in Doc : Uploading(r, d)' => Uploading(r, d),
           \A r \in Request, d \in Doc : Deleting(r, d)' => Deleting(r, d) \/ row[d] # "none"
    PROVE  Uploads'
  BY DEF Uploads

LEMMA SetStatusKeeps ==
    ASSUME Types, NEW D, NEW s \in Status \cup {"gone"}, SetStatus(D, s) \/ UNCHANGED row
    PROVE  /\ \A d \in Doc : row[d] = "none" <=> row'[d] = "none"
           /\ \A d \in Doc : Live(d)' => Live(d)
  BY DEF SetStatus, Live, Status, Types

LEMMA Frees == None.at = "idle" /\ None.docs = {}
  BY DEF None

LEMMA UploadsStep == ASSUME Types, Uploads, Next PROVE Uploads'
<1>0. rq \in [Request -> RqType] /\ row \in [Doc -> Status \cup {"none", "gone"}]
  BY DEF Types, RqType
<1> USE DEF Uploading, Deleting
<1>1. ASSUME NEW r \in Request, NEW d \in Doc, UploadSave(r, d) PROVE Uploads'
  <2>1. /\ rq' = [rq EXCEPT ![r] = [at |-> "saved", docs |-> {d}]]
        /\ file' = file \cup {d} /\ UNCHANGED row /\ row[d] = "none"
        /\ \A q \in Request : d \notin rq[q].docs
    BY <1>1 DEF UploadSave, Enters, Actors
  <2>2. /\ rq'[r].at = "saved" /\ rq'[r].docs = {d}
        /\ \A q \in Request \ {r} : rq'[q] = rq[q]
    BY <1>0, <2>1
  <2>3. QED
    BY <2>1, <2>2 DEF Uploads, Live
<1>2. ASSUME NEW r \in Request, NEW d \in Doc, Delete(r, d) PROVE Uploads'
  <2>1. UNCHANGED <<row, file>> /\ row[d] # "none"
    BY <1>2 DEF Delete, Live, Status
  <2>2. UNCHANGED rq \/ rq' = [rq EXCEPT ![r] = [at |-> "row", docs |-> {d}]]
    BY <1>2 DEF Delete, Starts, Enters
  <2>3. QED
    BY <1>0, <2>1, <2>2, UploadsKept DEF Live
<1>3. ASSUME NEW r \in Request, NEW d \in Doc, Reindex(r, d) PROVE Uploads'
  <2>1. rq' = [rq EXCEPT ![r] = [at |-> "requeue", docs |-> {d}]] /\ UNCHANGED file /\ SetStatus({d}, "pending")
    BY <1>3 DEF Reindex, Starts, Enters
  <2>2. QED
    BY <1>0, <2>1, UploadsKept, SetStatusKeeps DEF Status
<1>4. ASSUME NEW r \in Request, NEW d \in Doc, IndexQueue(r, d) PROVE Uploads'
  <2>1. /\ rq[r].at = "enqueue" /\ UNCHANGED file /\ (SetStatus({d}, "failed") \/ UNCHANGED row)
        /\ rq' = [rq EXCEPT ![r] = None] \/ rq' = [rq EXCEPT ![r].docs = @ \ {d}]
    BY <1>4 DEF IndexQueue, Ends, Unmoved
  <2>2. \A q \in Request : rq'[q].at = rq[q].at \/ rq'[q].at = "idle"
    BY <1>0, <2>1, Frees DEF RqType
  <2>3. \A q \in Request : q = r \/ rq'[q] = rq[q]
    BY <1>0, <2>1
  <2>4. \A q \in Request, e \in Doc : Uploading(q, e)' => Uploading(q, e)
    BY <2>1, <2>2, <2>3
  <2>5. \A q \in Request, e \in Doc : Deleting(q, e)' => Deleting(q, e)
    BY <2>1, <2>2, <2>3
  <2>6. QED
    BY <2>1, <2>4, <2>5, UploadsKept, SetStatusKeeps DEF Status
<1>5. ASSUME NEW r \in Request, NEW D \in SUBSET Doc, BatchDelete(r, D) \/ Index(r, D) PROVE Uploads'
  <2>1. /\ rq' = [rq EXCEPT ![r] = [at |-> "purge", docs |-> D]] \/ rq' = [rq EXCEPT ![r] = [at |-> "enqueue", docs |-> D]]
        /\ UNCHANGED file /\ (SetStatus(D, "gone") \/ SetStatus(D, "pending"))
    BY <1>5 DEF BatchDelete, Index, Starts, Enters
  <2>2. QED
    BY <1>0, <2>1, UploadsKept, SetStatusKeeps DEF Status
<1>6. ASSUME NEW r \in Request, UploadCheck(r) PROVE Uploads'
  <2>1. rq[r].at = "saved" /\ UNCHANGED row
    BY <1>6 DEF UploadCheck
  <2>2. CASE Goes(r, "insert") /\ UNCHANGED file
    <3>1. \A q \in Request, e \in Doc : (Uploading(q, e)' <=> Uploading(q, e)) /\ (Deleting(q, e)' => Deleting(q, e))
      BY <1>0, <2>1, <2>2 DEF Goes, RqType
    <3>2. QED
      BY <2>1, <2>2, <3>1, UploadsKept DEF Live
  <2>3. CASE Ends(r) /\ file' = file \ rq[r].docs
    <3>1. \A q \in Request, e \in Doc : Uploading(q, e)' => Uploading(q, e) /\ q # r
      BY <1>0, <2>3, Frees DEF Ends
    <3>2. \A q \in Request, e \in Doc : Deleting(q, e)' => Deleting(q, e)
      BY <1>0, <2>3, Frees DEF Ends
    <3>3. \A e \in rq[r].docs \cap Doc : Uploading(r, e) /\ ~Live(e)
      BY <2>1 DEF Uploads, Live, Status
    <3>4. QED
      BY <2>1, <2>3, <3>1, <3>2, <3>3 DEF Uploads, Live
  <2>4. QED
    BY <1>6, <2>2, <2>3 DEF UploadCheck
<1>7. ASSUME NEW r \in Request, UploadInsert(r) PROVE Uploads'
  <2>1. rq[r].at = "insert" /\ rq' = [rq EXCEPT ![r] = None]
    BY <1>7 DEF UploadInsert, Ends
  <2>2. \A q \in Request, e \in Doc : Uploading(q, e)' => Uploading(q, e) /\ q # r
    BY <1>0, <2>1, Frees
  <2>3. \A q \in Request, e \in Doc : Deleting(q, e)' => Deleting(q, e)
    BY <1>0, <2>1, Frees
  <2>4. \A e \in rq[r].docs \cap Doc : Uploading(r, e) /\ ~Live(e) /\ e \in file
    BY <2>1 DEF Uploads, Live, Status
  <2>5. CASE row' = [d \in Doc |-> IF d \in rq[r].docs THEN "pending" ELSE row[d]] /\ UNCHANGED file
    <3>1. \A e \in Doc : row'[e] = IF e \in rq[r].docs THEN "pending" ELSE row[e]
      BY <2>5
    <3>2. \A e \in Doc, q \in Request : Uploading(q, e)' => e \notin rq[r].docs
      BY <2>2, <2>4 DEF Uploads
    <3>3. QED
      BY <2>2, <2>3, <2>4, <2>5, <3>1, <3>2 DEF Uploads, Live, Status
  <2>6. CASE file' = file \ rq[r].docs /\ UNCHANGED row
    BY <2>2, <2>3, <2>4, <2>6 DEF Uploads, Live
  <2>7. QED
    BY <1>7, <2>5, <2>6 DEF UploadInsert
<1>8. ASSUME NEW r \in Request, DeleteRow(r) PROVE Uploads'
  <2>1. rq[r].at = "row" /\ rq' = [rq EXCEPT ![r] = None]
    BY <1>8 DEF DeleteRow, Ends
  <2>2. \A q \in Request, e \in Doc : (Uploading(q, e)' => Uploading(q, e)) /\ (Deleting(q, e)' => Deleting(q, e))
    BY <1>0, <2>1, Frees
  <2>3. \A e \in rq[r].docs \cap Doc : row[e] # "none"
    BY <2>1 DEF Uploads
  <2>4. CASE UNCHANGED <<row, file>>
    BY <2>2, <2>4, UploadsKept DEF Live
  <2>5. CASE SetStatus(rq[r].docs, "gone") /\ file' = file \ rq[r].docs
    <3>1. \A e \in Doc : row'[e] = IF e \in rq[r].docs /\ Live(e) THEN "gone" ELSE row[e]
      BY <2>5 DEF SetStatus
    <3>2. \A e \in Doc : (Live(e)' => Live(e) /\ e \notin rq[r].docs) /\ (row'[e] = "none" <=> row[e] = "none")
      BY <3>1 DEF Live, Status
    <3>3. \A e \in Doc, q \in Request : Uploading(q, e) => e \notin rq[r].docs
      BY <2>3 DEF Uploads
    <3>4. QED
      BY <2>2, <2>5, <3>2, <3>3 DEF Uploads
  <2>6. QED
    BY <1>8, <2>4, <2>5 DEF DeleteRow
<1>9. ASSUME NEW r \in Request, BatchPurge(r) \/ ReindexQueue(r) PROVE Uploads'
  <2>1. rq' = [rq EXCEPT ![r] = None] /\ UNCHANGED <<row, file>>
    BY <1>9 DEF BatchPurge, ReindexQueue, Ends, Unmoved
  <2>2. \A q \in Request, e \in Doc : (Uploading(q, e)' => Uploading(q, e)) /\ (Deleting(q, e)' => Deleting(q, e))
    BY <1>0, <2>1, Frees
  <2>3. QED
    BY <2>1, <2>2, UploadsKept DEF Live
<1>10. ASSUME NEW w \in Worker,
              Take(w) \/ ReadRow(w) \/ Begin(w) \/ Clear(w) \/ AddBatch(w) \/ Break(w) \/ Finish(w) \/ MarkFailed(w)
      PROVE  Uploads'
  <2>1. UNCHANGED <<file, rq>>
    BY <1>10 DEF Take, ReadRow, Begin, Clear, AddBatch, Break, Finish, MarkFailed, Aside
  <2>2. \/ UNCHANGED row \/ SetStatus({wk[w].doc}, "indexing")
        \/ SetStatus({wk[w].doc}, "indexed") \/ SetStatus({wk[w].doc}, "failed")
    BY <1>10 DEF Take, ReadRow, Begin, Clear, AddBatch, Break, Finish, MarkFailed
  <2>3. QED
    BY <2>1, <2>2, UploadsKept, SetStatusKeeps DEF Status
<1>11. ASSUME NEW p \in Process, Crash(p) PROVE Uploads'
  <2>1. UNCHANGED <<row, file>> /\ \A q \in Request : rq'[q] = None \/ rq'[q] = rq[q]
    BY <1>11 DEF Crash
  <2>2. \A q \in Request, e \in Doc : (Uploading(q, e)' => Uploading(q, e)) /\ (Deleting(q, e)' => Deleting(q, e))
    BY <2>1, Frees
  <2>3. QED
    BY <2>1, <2>2, UploadsKept DEF Live
<1>12. ASSUME NEW p \in Process, Restart(p) \/ Started(p) \/ \E d \in Doc : Requeue(p, d) PROVE Uploads'
  <2>1. UNCHANGED <<row, file, rq>>
    BY <1>12 DEF Restart, Started, Requeue
  <2>2. QED
    BY <2>1, UploadsKept DEF Live
<1>13. QED
  BY NextCases, <1>1, <1>2, <1>3, <1>4, <1>5, <1>6, <1>7, <1>8, <1>9, <1>10, <1>11, <1>12

\* kb_upload writes the file before the row and kb_delete removes it after: a document
\* with a row has its file, whatever runs between the two and wherever a process dies.
THEOREM RowsHaveFiles == Spec => []RowHasFile
<1>1. Init => Uploads
  BY DEF Init, Uploads, Uploading, Deleting, Live, Status, None
<1>2. TypeOK /\ Uploads /\ [Next]_vars => Uploads'
  <2> SUFFICES ASSUME TypeOK, Uploads, [Next]_vars PROVE Uploads'
    OBVIOUS
  <2>1. ASSUME Next PROVE Uploads'
    BY <2>1, UploadsStep DEF TypeOK
  <2>2. ASSUME UNCHANGED vars PROVE Uploads'
    BY <2>2 DEF vars, Uploads, Uploading, Deleting, Live
  <2>3. QED
    BY <2>1, <2>2
<1>3. Uploads => RowHasFile
  BY DEF Uploads, RowHasFile
<1>4. QED
  BY <1>1, <1>2, <1>3, TypeCorrect, PTL DEF Spec

-----------------------------------------------------------------------------
(* What a document is like that nobody works on, and what its only worker  *)
(* or request has made of it so far.                                       *)

Rest(d) ==
    /\ row[d] = "indexed" => vec[d] = Batches
    /\ row[d] \in {"none", "gone"} => vec[d] = 0

Working(w, d) ==
    /\ wk[w].at \in {"taken", "read", "marked"} => wk[w].n = 0
    /\ wk[w].at \in {"taken", "read", "failing"} => Rest(d)
    /\ wk[w].at \in {"read", "failing"} => Live(d)
    /\ wk[w].at \in {"marked", "adding"} => row[d] = "indexing"
    /\ wk[w].at = "adding" => vec[d] = wk[w].n

Serving(r, d) ==
    /\ rq[r].at # "idle"
    /\ rq[r].at \in {"saved", "insert"} => row[d] = "none" /\ vec[d] = 0
    /\ rq[r].at = "row" => Live(d) /\ vec[d] = 0
    /\ rq[r].at = "purge" => row[d] = "gone"
    /\ rq[r].at \in {"requeue", "enqueue"} => row[d] = "pending"

\* A document that was never in two hands is in one at most, and is what that one
\* made of it.
Solo(d) == d \notin raced => \A x, y \in Actors(d) : x = y

Exactly(d) ==
    d \notin raced \cup torn =>
        /\ Actors(d) = {} => Rest(d)
        /\ \A w \in Worker : Holds(w, d) => Working(w, d)
        /\ \A r \in Request : d \in rq[r].docs => Serving(r, d)

\* What two had in hand at once is noted, and the two histories only grow.
LEMMA SoloStep == ASSUME Types, Next, NEW d \in Doc PROVE Solo(d)'
<1>1. SUFFICES ASSUME d \notin raced', NEW x \in Actors(d)', NEW y \in Actors(d)', x # y PROVE FALSE
  BY DEF Solo
<1> PICK A : A = Actors(d)'
  OBVIOUS
<1>2. IsFiniteSet(A) /\ ~(Cardinality(A) > 1)
  <2>1. A \subseteq Worker \cup Request
    BY DEF Actors
  <2>2. IsFiniteSet(Worker \cup Request)
    BY KBAssumption, FS_Union
  <2>3. d \in {e \in Doc : Cardinality(Actors(e)') > 1} <=> Cardinality(A) > 1
    OBVIOUS
  <2>4. QED
    BY <1>1, <2>1, <2>2, <2>3, NextNotes, FS_Subset
<1>3. {x, y} \subseteq A /\ Cardinality({x, y}) = 2
  <2>1. IsFiniteSet({x}) /\ Cardinality({x}) = 1
    BY FS_Singleton
  <2>2. Cardinality({x} \cup {y}) = 2
    <3>1. y \notin {x}
      BY <1>1
    <3>2. Cardinality({x} \cup {y}) = Cardinality({x}) + 1
      BY <2>1, <3>1, FS_AddElement
    <3>3. QED
      BY <2>1, <3>2
  <2>3. {x, y} = {x} \cup {y} /\ {x, y} \subseteq A
    OBVIOUS
  <2>4. QED
    BY <2>2, <2>3
<1>4. Cardinality({x, y}) <= Cardinality(A) /\ Cardinality(A) \in Nat
  BY <1>2, <1>3, FS_Subset, FS_CardinalityType
<1>5. QED
  BY <1>2, <1>3, <1>4

LEMMA Histories == ASSUME Next PROVE raced \subseteq raced' /\ torn \subseteq torn'
<1> USE DEF NoFault
<1>1. ASSUME NEW r \in Request, NEW d \in Doc, UploadSave(r, d) \/ Delete(r, d) \/ Reindex(r, d) \/ IndexQueue(r, d)
      PROVE  torn \subseteq torn'
  BY <1>1 DEF UploadSave, Delete, Reindex, IndexQueue
<1>2. ASSUME NEW r \in Request, NEW D \in SUBSET Doc, BatchDelete(r, D) \/ Index(r, D) PROVE torn \subseteq torn'
  BY <1>2 DEF BatchDelete, Index
<1>3. ASSUME NEW r \in Request,
             UploadCheck(r) \/ UploadInsert(r) \/ DeleteRow(r) \/ BatchPurge(r) \/ ReindexQueue(r)
      PROVE  torn \subseteq torn'
  BY <1>3 DEF UploadCheck, UploadInsert, DeleteRow, BatchPurge, ReindexQueue
<1>4. ASSUME NEW w \in Worker, Take(w) \/ ReadRow(w) \/ Begin(w) \/ Clear(w) PROVE torn \subseteq torn'
  BY <1>4 DEF Take, ReadRow, Begin, Clear
<1>5. ASSUME NEW w \in Worker, AddBatch(w) \/ Finish(w) \/ Break(w) \/ MarkFailed(w) PROVE torn \subseteq torn'
  BY <1>5 DEF AddBatch, Finish, Break, MarkFailed
<1>6. ASSUME NEW p \in Process, Crash(p) \/ Restart(p) \/ Started(p) PROVE torn \subseteq torn'
  BY <1>6 DEF Crash, Restart, Started
<1>7. ASSUME NEW p \in Process, NEW d \in Doc, Requeue(p, d) PROVE torn \subseteq torn'
  BY <1>7 DEF Requeue
<1>8. QED
  BY NextCases, NextNotes, <1>1, <1>2, <1>3, <1>4, <1>5, <1>6, <1>7

\* Whoever has such a document is alone with it.
LEMMA OnlyRequest ==
    ASSUME NEW d, Solo(d), d \notin raced, NEW r \in Request, d \in rq[r].docs
    PROVE  /\ \A w \in Worker : ~Holds(w, d)
           /\ \A q \in Request \ {r} : d \notin rq[q].docs
  BY KBAssumption DEF Solo, Actors

LEMMA OnlyWorker ==
    ASSUME NEW d, Solo(d), d \notin raced, NEW w \in Worker, Holds(w, d)
    PROVE  /\ \A v \in Worker \ {w} : ~Holds(v, d)
           /\ \A r \in Request : d \notin rq[r].docs
  BY KBAssumption DEF Solo, Actors

\* A step that changes nothing of the document, unless somebody drops it as it is.
LEMMA ExactKept ==
    ASSUME NEW d, Exactly(d), raced \subseteq raced', torn \subseteq torn',
           row'[d] = row[d], vec'[d] = vec[d],
           \A w \in Worker : Holds(w, d)' => Holds(w, d) /\ wk'[w] = wk[w],
           \A r \in Request : d \in rq'[r].docs => d \in rq[r].docs /\ rq'[r] = rq[r],
           d \notin raced' \cup torn' /\ Actors(d)' = {} => Actors(d) = {} \/ Rest(d)
    PROVE  Exactly(d)'
<1> SUFFICES ASSUME d \notin raced' \cup torn'
             PROVE  /\ Actors(d)' = {} => Rest(d)'
                    /\ \A w \in Worker : Holds(w, d)' => Working(w, d)'
                    /\ \A r \in Request : d \in rq'[r].docs => Serving(r, d)'
  BY DEF Exactly
<1>1. Actors(d)' = {} => Rest(d)'
  BY DEF Exactly, Rest
<1>2. ASSUME NEW w \in Worker, Holds(w, d)' PROVE Working(w, d)'
  BY <1>2 DEF Exactly, Working, Rest, Live
<1>3. ASSUME NEW r \in Request, d \in rq'[r].docs PROVE Serving(r, d)'
  BY <1>3 DEF Exactly, Serving, Live
<1>4. QED
  BY <1>1, <1>2, <1>3

LEMMA ExactApart ==
    ASSUME NEW d, Exactly(d), raced \subseteq raced', torn \subseteq torn',
           row'[d] = row[d], vec'[d] = vec[d],
           \A w \in Worker : wk'[w] = wk[w] \/ (~Holds(w, d) /\ ~Holds(w, d)'),
           \A r \in Request : rq'[r] = rq[r] \/ (d \notin rq[r].docs /\ d \notin rq'[r].docs)
    PROVE  Exactly(d)'
<1>1. Actors(d)' = Actors(d)
  BY DEF Actors, Holds
<1>2. QED
  BY <1>1, ExactKept DEF Holds

\* A request comes to the document, goes on with it, or has done with it.
LEMMA RequestCame ==
    ASSUME NEW d, Exactly(d), Solo(d)', raced \subseteq raced', torn \subseteq torn',
           NEW r \in Request, d \in rq'[r].docs, d \notin rq[r].docs, UNCHANGED wk,
           \A q \in Request \ {r} : rq'[q] = rq[q],
           d \notin raced' \cup torn' /\ Rest(d) => Serving(r, d)'
    PROVE  Exactly(d)'
<1> SUFFICES ASSUME d \notin raced' \cup torn'
             PROVE  /\ Actors(d)' = {} => Rest(d)'
                    /\ \A w \in Worker : Holds(w, d)' => Working(w, d)'
                    /\ \A q \in Request : d \in rq'[q].docs => Serving(q, d)'
  BY DEF Exactly
<1>1. /\ \A w \in Worker : ~Holds(w, d)'
      /\ \A q \in Request \ {r} : d \notin rq'[q].docs
  BY KBAssumption DEF Solo, Actors
<1>2. Actors(d) = {}
  BY <1>1 DEF Actors, Holds
<1>3. Rest(d)
  BY <1>2 DEF Exactly
<1>4. r \in Actors(d)'
  BY DEF Actors
<1>5. QED
  BY <1>1, <1>3, <1>4

LEMMA RequestDid ==
    ASSUME NEW d, Exactly(d), Solo(d), raced \subseteq raced', torn \subseteq torn',
           NEW r \in Request, d \in rq[r].docs, UNCHANGED wk,
           \A q \in Request \ {r} : rq'[q] = rq[q],
           d \notin raced' \cup torn' /\ Serving(r, d) =>
              IF d \in rq'[r].docs THEN Serving(r, d)' ELSE Rest(d)'
    PROVE  Exactly(d)'
<1> SUFFICES ASSUME d \notin raced' \cup torn'
             PROVE  /\ Actors(d)' = {} => Rest(d)'
                    /\ \A w \in Worker : Holds(w, d)' => Working(w, d)'
                    /\ \A q \in Request : d \in rq'[q].docs => Serving(q, d)'
  BY DEF Exactly
<1>1. /\ \A w \in Worker : ~Holds(w, d)
      /\ \A q \in Request \ {r} : d \notin rq[q].docs
  BY OnlyRequest
<1>2. /\ \A w \in Worker : ~Holds(w, d)'
      /\ \A q \in Request \ {r} : d \notin rq'[q].docs
  BY <1>1 DEF Holds
<1>3. Serving(r, d)
  BY DEF Exactly
<1>4. d \in rq'[r].docs => r \in Actors(d)'
  BY DEF Actors
<1>5. QED
  BY <1>2, <1>3, <1>4

LEMMA WorkerDid ==
    ASSUME NEW d, Exactly(d), Solo(d), raced \subseteq raced', torn \subseteq torn',
           NEW w \in Worker, Holds(w, d), UNCHANGED rq,
           \A v \in Worker \ {w} : wk'[v] = wk[v],
           d \notin raced' \cup torn' /\ Working(w, d) =>
              IF Holds(w, d)' THEN Working(w, d)' ELSE Rest(d)'
    PROVE  Exactly(d)'
<1> SUFFICES ASSUME d \notin raced' \cup torn'
             PROVE  /\ Actors(d)' = {} => Rest(d)'
                    /\ \A v \in Worker : Holds(v, d)' => Working(v, d)'
                    /\ \A q \in Request : d \in rq'[q].docs => Serving(q, d)'
  BY DEF Exactly
<1>1. /\ \A v \in Worker \ {w} : ~Holds(v, d)
      /\ \A q \in Request : d \notin rq[q].docs
  BY OnlyWorker
<1>2. /\ \A v \in Worker \ {w} : ~Holds(v, d)'
      /\ \A q \in Request : d \notin rq'[q].docs
  BY <1>1 DEF Holds
<1>3. Working(w, d)
  BY DEF Exactly
<1>4. Holds(w, d)' => w \in Actors(d)'
  BY DEF Actors
<1>5. QED
  BY <1>2, <1>3, <1>4

\* The same, whichever documents the step is about.
LEMMA EntersExact ==
    ASSUME rq \in [Request -> RqType], NEW d, Exactly(d), Solo(d)',
           raced \subseteq raced', torn \subseteq torn',
           NEW r \in Request, NEW at, NEW D, Enters(r, at, D),
           d \notin D => row'[d] = row[d] /\ vec'[d] = vec[d],
           d \in D /\ d \notin raced' \cup torn' /\ Rest(d) /\ rq'[r].at = at => Serving(r, d)'
    PROVE  Exactly(d)'
<1>1. /\ rq[r].docs = {} /\ rq'[r] = [at |-> at, docs |-> D] /\ UNCHANGED wk
      /\ \A q \in Request \ {r} : rq'[q] = rq[q]
  BY Frees DEF Enters, Free
<1>2. rq'[r].docs = D /\ rq'[r].at = at
  BY <1>1
<1>3. CASE d \in D
  BY <1>1, <1>2, <1>3, RequestCame
<1>4. CASE d \notin D
  <2>1. \A q \in Request : rq'[q] = rq[q] \/ (d \notin rq[q].docs /\ d \notin rq'[q].docs)
    BY <1>1, <1>2, <1>4
  <2>2. QED
    BY <1>1, <1>4, <2>1, ExactApart
<1>5. QED
  BY <1>3, <1>4

LEMMA ServedExact ==
    ASSUME NEW d, Exactly(d), Solo(d), raced \subseteq raced', torn \subseteq torn',
           NEW r \in Request, UNCHANGED wk, \A q \in Request \ {r} : rq'[q] = rq[q],
           rq'[r].docs \subseteq rq[r].docs,
           d \notin rq[r].docs => row'[d] = row[d] /\ vec'[d] = vec[d],
           d \in rq[r].docs /\ d \notin raced' \cup torn' /\ Serving(r, d) =>
              IF d \in rq'[r].docs THEN Serving(r, d)' ELSE Rest(d)'
    PROVE  Exactly(d)'
<1>1. CASE d \in rq[r].docs
  BY <1>1, RequestDid
<1>2. CASE d \notin rq[r].docs
  <2>1. \A q \in Request : rq'[q] = rq[q] \/ (d \notin rq[q].docs /\ d \notin rq'[q].docs)
    BY <1>2
  <2>2. QED
    BY <1>2, <2>1, ExactApart
<1>3. QED
  BY <1>1, <1>2

LEMMA WorkedExact ==
    ASSUME NEW d, Exactly(d), Solo(d), raced \subseteq raced', torn \subseteq torn',
           NEW w \in Worker, wk[w] # Idle, UNCHANGED rq, \A v \in Worker \ {w} : wk'[v] = wk[v],
           wk'[w] # Idle => wk'[w].doc = wk[w].doc,
           wk[w].doc # d => row'[d] = row[d] /\ vec'[d] = vec[d],
           wk[w].doc = d /\ d \notin raced' \cup torn' /\ Working(w, d) =>
              IF wk'[w] # Idle THEN Working(w, d)' ELSE Rest(d)'
    PROVE  Exactly(d)'
<1>1. CASE wk[w].doc = d
  <2>1. Holds(w, d) /\ (Holds(w, d)' <=> wk'[w] # Idle)
    BY <1>1 DEF Holds
  <2>2. QED
    BY <1>1, <2>1, WorkerDid
<1>2. CASE wk[w].doc # d
  <2>1. ~Holds(w, d) /\ ~Holds(w, d)'
    BY <1>2 DEF Holds
  <2>2. QED
    BY <1>2, <2>1, ExactApart
<1>3. QED
  BY <1>1, <1>2

\* Who dies leaves the document at rest, or torn.
LEMMA Dropped ==
    ASSUME Types, NEW d,
           \/ \E w \in Worker : Holds(w, d) /\ Working(w, d)
           \/ \E r \in Request : d \in rq[r].docs /\ Serving(r, d) /\ rq[r].at \notin {"row", "purge"}
    PROVE  Rest(d)
<1>1. ASSUME NEW w \in Worker, Holds(w, d), Working(w, d) PROVE Rest(d)
  <2>1. wk[w].at \in {"taken", "read", "marked", "adding", "failing"}
    BY <1>1 DEF Types, Holds
  <2>2. QED
    BY <1>1, <2>1 DEF Working, Rest
<1>2. ASSUME NEW r \in Request, Serving(r, d), rq[r].at \notin {"row", "purge"} PROVE Rest(d)
  <2>1. rq[r].at \in {"saved", "insert", "requeue", "enqueue"}
    BY <1>2 DEF Types, Serving
  <2>2. QED
    BY <1>2, <2>1 DEF Serving, Rest
<1>3. QED
  BY <1>1, <1>2

LEMMA ExactRequests ==
    ASSUME Types, NEW d \in Doc, Exactly(d), Solo(d), Solo(d)', raced \subseteq raced', torn \subseteq torn',
           NEW r \in Request,
           \/ \E e \in Doc : UploadSave(r, e) \/ Delete(r, e) \/ Reindex(r, e) \/ IndexQueue(r, e)
           \/ \E D \in SUBSET Doc : BatchDelete(r, D) \/ Index(r, D)
           \/ UploadCheck(r) \/ UploadInsert(r) \/ DeleteRow(r) \/ BatchPurge(r) \/ ReindexQueue(r)
    PROVE  Exactly(d)'
<1>0. /\ rq \in [Request -> RqType] /\ row \in [Doc -> Status \cup {"none", "gone"}] /\ vec \in [Doc -> Nat]
      /\ rq[r].docs \subseteq Doc
  BY DEF Types, RqType
<1>1. ASSUME NEW e \in Doc, UploadSave(r, e) PROVE Exactly(d)'
  <2>1. Enters(r, "saved", {e}) /\ UNCHANGED <<row, vec>> /\ row[e] = "none"
    BY <1>1 DEF UploadSave
  <2>2. QED
    BY <1>0, <2>1, EntersExact DEF Rest, Serving
<1>2. ASSUME NEW e \in Doc, Delete(r, e) PROVE Exactly(d)'
  <2>1. CASE Starts(r, "row", {e}) /\ vec' = [vec EXCEPT ![e] = 0]
    <3>1. Enters(r, "row", {e}) /\ UNCHANGED row /\ Live(e)
      BY <1>2, <2>1 DEF Starts, Delete
    <3>2. \A x \in Doc : vec'[x] = IF x = e THEN 0 ELSE vec[x]
      BY <1>0, <2>1
    <3>3. QED
      BY <1>0, <3>1, <3>2, EntersExact DEF Serving, Live
  <2>2. CASE UNCHANGED <<row, vec, rq, wk>>
    BY <2>2, ExactApart
  <2>3. QED
    BY <1>2, <2>1, <2>2 DEF Delete, Unmoved
<1>3. ASSUME NEW e \in Doc, Reindex(r, e) PROVE Exactly(d)'
  <2>1. Enters(r, "requeue", {e}) /\ UNCHANGED vec /\ Live(e)
    BY <1>3 DEF Reindex, Starts
  <2>2. \A x \in Doc : row'[x] = IF x = e THEN "pending" ELSE row[x]
    BY <1>3, <2>1 DEF Reindex, SetStatus
  <2>3. QED
    BY <1>0, <2>1, <2>2, EntersExact DEF Serving
<1>4. ASSUME NEW e \in Doc, IndexQueue(r, e) PROVE Exactly(d)'
  <2>1. /\ rq[r].at = "enqueue" /\ e \in rq[r].docs /\ UNCHANGED <<vec, wk>>
        /\ SetStatus({e}, "failed") \/ UNCHANGED row
    BY <1>4 DEF IndexQueue, Unmoved
  <2>2. /\ \A q \in Request \ {r} : rq'[q] = rq[q]
        /\ rq'[r].docs = rq[r].docs \ {e} /\ (rq'[r].docs # {} => rq'[r].at = "enqueue")
    <3>1. CASE rq[r].docs = {e}
      BY <1>0, <1>4, <3>1, Frees DEF IndexQueue, Ends
    <3>2. CASE rq[r].docs # {e}
      BY <1>0, <1>4, <2>1, <3>2 DEF IndexQueue, RqType
    <3>3. QED
      BY <3>1, <3>2
  <2>3. \A x \in Doc : x # e => row'[x] = row[x]
    BY <2>1 DEF SetStatus
  <2>4. row[e] = "pending" => row'[e] \in {"pending", "failed"}
    BY <2>1 DEF SetStatus
  <2>5. QED
    BY <1>0, <2>1, <2>2, <2>3, <2>4, ServedExact DEF Serving, Rest
<1>5. ASSUME NEW D \in SUBSET Doc, BatchDelete(r, D) PROVE Exactly(d)'
  <2>1. Enters(r, "purge", D) /\ UNCHANGED vec /\ \A x \in D : Live(x)
    BY <1>5 DEF BatchDelete, Starts, Rows
  <2>2. \A x \in Doc : row'[x] = IF x \in D THEN "gone" ELSE row[x]
    BY <1>5, <2>1 DEF BatchDelete, SetStatus
  <2>3. QED
    BY <1>0, <2>1, <2>2, EntersExact DEF Serving
<1>6. ASSUME NEW D \in SUBSET Doc, Index(r, D) PROVE Exactly(d)'
  <2>1. Enters(r, "enqueue", D) /\ UNCHANGED vec /\ \A x \in D : Live(x)
    BY <1>6 DEF Index, Starts, Rows
  <2>2. \A x \in Doc : row'[x] = IF x \in D THEN "pending" ELSE row[x]
    BY <1>6, <2>1 DEF Index, SetStatus
  <2>3. QED
    BY <1>0, <2>1, <2>2, EntersExact DEF Serving
<1>7. ASSUME UploadCheck(r) PROVE Exactly(d)'
  <2>1. rq[r].at = "saved" /\ UNCHANGED <<row, vec, wk>>
    BY <1>7 DEF UploadCheck, Unmoved
  <2>2. CASE Goes(r, "insert")
    <3>1. /\ rq'[r].at = "insert" /\ rq'[r].docs = rq[r].docs
          /\ \A q \in Request \ {r} : rq'[q] = rq[q]
      BY <1>0, <2>2 DEF Goes, RqType
    <3>2. QED
      BY <2>1, <3>1, ServedExact DEF Serving
  <2>3. CASE Ends(r)
    <3>1. rq'[r].docs = {} /\ \A q \in Request \ {r} : rq'[q] = rq[q]
      BY <1>0, <2>3, Frees DEF Ends
    <3>2. QED
      BY <2>1, <3>1, ServedExact DEF Serving, Rest
  <2>4. QED
    BY <1>7, <2>2, <2>3 DEF UploadCheck
<1>8. ASSUME UploadInsert(r) PROVE Exactly(d)'
  <2>1. /\ rq[r].at = "insert" /\ UNCHANGED <<vec, wk>>
        /\ rq'[r].docs = {} /\ \A q \in Request \ {r} : rq'[q] = rq[q]
    BY <1>0, <1>8, Frees DEF UploadInsert, Unmoved, Ends
  <2>2. \/ UNCHANGED row
        \/ \A x \in Doc : row'[x] = IF x \in rq[r].docs THEN "pending" ELSE row[x]
    BY <1>8 DEF UploadInsert
  <2>3. QED
    BY <2>1, <2>2, ServedExact DEF Serving, Rest
<1>9. ASSUME DeleteRow(r) PROVE Exactly(d)'
  <2>1. /\ rq[r].at = "row" /\ UNCHANGED <<vec, wk>>
        /\ rq'[r].docs = {} /\ \A q \in Request \ {r} : rq'[q] = rq[q]
    BY <1>0, <1>9, Frees DEF DeleteRow, Unmoved, Ends
  <2>2. \/ UNCHANGED row /\ rq[r].docs \subseteq torn'
        \/ \A x \in Doc : row'[x] = IF x \in rq[r].docs /\ Live(x) THEN "gone" ELSE row[x]
    BY <1>9 DEF DeleteRow, SetStatus
  <2>3. QED
    BY <2>1, <2>2, ServedExact DEF Serving, Rest
<1>10. ASSUME BatchPurge(r) PROVE Exactly(d)'
  <2>1. /\ rq[r].at = "purge" /\ UNCHANGED <<row, wk>>
        /\ rq'[r].docs = {} /\ \A q \in Request \ {r} : rq'[q] = rq[q]
    BY <1>0, <1>10, Frees DEF BatchPurge, Unmoved, Ends
  <2>2. \/ UNCHANGED vec /\ rq[r].docs \subseteq torn'
        \/ \A x \in Doc : vec'[x] = IF x \in rq[r].docs THEN 0 ELSE vec[x]
    BY <1>10 DEF BatchPurge
  <2>3. QED
    BY <2>1, <2>2, ServedExact DEF Serving, Rest
<1>11. ASSUME ReindexQueue(r) PROVE Exactly(d)'
  <2>1. /\ rq[r].at = "requeue" /\ UNCHANGED <<row, wk>>
        /\ rq'[r].docs = {} /\ \A q \in Request \ {r} : rq'[q] = rq[q]
    BY <1>0, <1>11, Frees DEF ReindexQueue, Unmoved, Ends
  <2>2. PICK e \in rq[r].docs : vec' = [vec EXCEPT ![e] = 0] \/ UNCHANGED vec
    BY <1>11 DEF ReindexQueue
  <2>3. d \notin rq[r].docs => vec'[d] = vec[d]
    BY <1>0, <2>2
  <2>4. QED
    BY <2>1, <2>3, ServedExact DEF Serving, Rest
<1>12. QED
  BY <1>1, <1>2, <1>3, <1>4, <1>5, <1>6, <1>7, <1>8, <1>9, <1>10, <1>11

LEMMA ExactWorkers ==
    ASSUME Types, NEW d \in Doc, Exactly(d), Solo(d), Solo(d)', raced \subseteq raced', torn \subseteq torn',
           NEW w \in Worker,
           \/ Take(w) \/ ReadRow(w) \/ Begin(w) \/ Clear(w)
           \/ AddBatch(w) \/ Finish(w) \/ Break(w) \/ MarkFailed(w)
    PROVE  Exactly(d)'
<1>0. /\ wk \in [Worker -> {Idle} \cup WkType] /\ row \in [Doc -> Status \cup {"none", "gone"}]
      /\ vec \in [Doc -> Nat] /\ Batches \in Nat
  BY KBAssumption DEF Types, WkType
<1>1. \A s : Idle # [at |-> s, doc |-> Head(queue), n |-> 0]
  BY DEF Idle
<1>2. \A v \in WkType : v # Idle /\ \A s : [v EXCEPT !.at = s] # Idle
  BY DEF WkType, Idle
<1>3. CASE Take(w)
  <2> DEFINE e == Head(queue)
             job == [at |-> "taken", doc |-> e, n |-> 0]
  <2>1. /\ wk[w] = Idle /\ wk'[w] = job /\ UNCHANGED <<row, vec, rq>>
        /\ \A v \in Worker \ {w} : wk'[v] = wk[v]
    BY <1>0, <1>3 DEF Take, Aside
  <2>2. job # Idle /\ job.at = "taken" /\ job.doc = e /\ job.n = 0
    BY <1>1
  <2> HIDE DEF e, job
  <2>3. CASE e # d
    <3>1. ~Holds(w, d) /\ ~Holds(w, d)'
      BY <2>1, <2>2, <2>3 DEF Holds
    <3>2. QED
      BY <2>1, <3>1, ExactApart
  <2>4. CASE e = d
    <3> SUFFICES ASSUME d \notin raced' \cup torn'
                 PROVE  /\ Actors(d)' = {} => Rest(d)'
                        /\ \A v \in Worker : Holds(v, d)' => Working(v, d)'
                        /\ \A q \in Request : d \in rq'[q].docs => Serving(q, d)'
      BY DEF Exactly
    <3>1. Holds(w, d)' /\ w \in Actors(d)'
      BY <2>1, <2>2, <2>4 DEF Holds, Actors
    <3>2. \A x \in Actors(d)' : x = w
      BY <3>1 DEF Solo
    <3>3. /\ \A v \in Worker \ {w} : ~Holds(v, d)'
          /\ \A q \in Request : d \notin rq'[q].docs
      BY <3>2, KBAssumption DEF Actors
    <3>4. Actors(d) = {}
      BY <2>1, <3>3 DEF Actors, Holds
    <3>5. Rest(d) /\ Rest(d)'
      BY <2>1, <3>4 DEF Exactly, Rest
    <3>6. Working(w, d)'
      BY <2>1, <2>2, <3>5 DEF Working
    <3>7. QED
      BY <3>1, <3>3, <3>6
  <2>5. QED
    BY <2>3, <2>4
<1>4. ASSUME wk[w] # Idle, UNCHANGED rq, NEW s, To(w, s),
             wk[w].doc # d => row'[d] = row[d] /\ vec'[d] = vec[d],
             (wk[w].doc = d /\ d \notin raced' \cup torn' /\ Working(w, d)
                /\ wk'[w].at = s /\ wk'[w].n = wk[w].n)
                => Working(w, d)'
      PROVE  Exactly(d)'
  <2>1. wk[w] \in WkType /\ wk'[w] = [wk[w] EXCEPT !.at = s] /\ \A v \in Worker \ {w} : wk'[v] = wk[v]
    BY <1>0, <1>4 DEF To
  <2>2. wk'[w] # Idle /\ wk'[w].doc = wk[w].doc /\ wk'[w].at = s /\ wk'[w].n = wk[w].n
    BY <1>2, <2>1 DEF WkType
  <2>3. QED
    BY <1>4, <2>1, <2>2, WorkedExact
<1>5. ASSUME wk[w] # Idle, UNCHANGED rq, Rests(w),
             wk[w].doc # d => row'[d] = row[d] /\ vec'[d] = vec[d],
             wk[w].doc = d /\ d \notin raced' \cup torn' /\ Working(w, d) => Rest(d)'
      PROVE  Exactly(d)'
  <2>1. wk'[w] = Idle /\ \A v \in Worker \ {w} : wk'[v] = wk[v]
    BY <1>0, <1>5 DEF Rests
  <2>2. QED
    BY <1>5, <2>1, WorkedExact
<1>6. CASE ReadRow(w)
  <2>1. wk[w] # Idle /\ wk[w].at = "taken" /\ UNCHANGED <<row, vec, rq>>
    BY <1>6 DEF ReadRow, At, Aside
  <2>2. CASE Live(wk[w].doc) /\ To(w, "read")
    BY <1>4, <2>1, <2>2 DEF Working, Rest, Live
  <2>3. CASE Rests(w)
    BY <1>5, <2>1, <2>3 DEF Working, Rest
  <2>4. QED
    BY <1>6, <2>2, <2>3 DEF ReadRow
<1>7. CASE Begin(w)
  <2>1. wk[w] # Idle /\ wk[w].at = "read" /\ UNCHANGED <<vec, rq>>
    BY <1>7 DEF Begin, At, Aside
  <2>2. CASE To(w, "marked") /\ SetStatus({wk[w].doc}, "indexing")
    <3>1. row'[d] = IF d = wk[w].doc /\ Live(d) THEN "indexing" ELSE row[d]
      BY <2>2 DEF SetStatus
    <3>2. QED
      BY <1>4, <2>1, <2>2, <3>1 DEF Working
  <2>3. CASE To(w, "failing") /\ UNCHANGED row
    BY <1>4, <2>1, <2>3 DEF Working, Rest, Live
  <2>4. QED
    BY <1>7, <2>2, <2>3 DEF Begin
<1>8. CASE Clear(w)
  <2>1. wk[w] # Idle /\ wk[w].at = "marked" /\ UNCHANGED <<row, rq>> /\ To(w, "adding")
    BY <1>8 DEF Clear, At, Aside
  <2>2. CASE vec' = [vec EXCEPT ![wk[w].doc] = 0]
    <3>1. vec'[d] = IF d = wk[w].doc THEN 0 ELSE vec[d]
      BY <1>0, <2>2
    <3>2. QED
      BY <1>4, <2>1, <3>1 DEF Working
  <2>3. CASE torn' = torn \cup {wk[w].doc} /\ UNCHANGED vec
    BY <1>4, <2>1, <2>3
  <2>4. QED
    BY <1>8, <2>2, <2>3 DEF Clear
<1>9. CASE AddBatch(w)
  <2>1. wk[w] \in WkType /\ wk[w].at = "adding" /\ UNCHANGED <<row, rq>>
    BY <1>0, <1>9 DEF AddBatch, At, Aside
  <2>2. /\ wk'[w] = [wk[w] EXCEPT !.n = @ + 1]
        /\ \A v \in Worker \ {w} : wk'[v] = wk[v]
    BY <1>0, <1>9 DEF AddBatch
  <2>3. wk'[w].at = "adding" /\ wk'[w].doc = wk[w].doc /\ wk'[w].n = wk[w].n + 1
    BY <2>1, <2>2 DEF WkType
  <2>4. wk[w] # Idle /\ wk'[w] # Idle
    BY <1>2, <2>1, <2>2 DEF Idle, WkType
  <2>5. vec'[d] = IF d = wk[w].doc THEN vec[d] + 1 ELSE vec[d]
    BY <1>0, <1>9 DEF AddBatch
  <2>6. wk[w].doc = d /\ Working(w, d) => Working(w, d)'
    BY <2>1, <2>3, <2>5 DEF Working
  <2>7. QED
    BY <2>1, <2>2, <2>3, <2>4, <2>5, <2>6, WorkedExact
<1>10. CASE Finish(w)
  <2>1. wk[w] # Idle /\ wk[w].at = "adding" /\ wk[w].n = Batches /\ UNCHANGED <<vec, rq>> /\ Rests(w)
    BY <1>10 DEF Finish, At, Aside
  <2>2. row'[d] = IF d = wk[w].doc /\ Live(d) THEN "indexed" ELSE row[d]
    BY <1>10 DEF Finish, SetStatus
  <2>3. QED
    BY <1>5, <2>1, <2>2 DEF Working, Rest, Live, Status
<1>11. CASE Break(w)
  <2>1. wk[w] # Idle /\ wk[w].at = "adding" /\ UNCHANGED <<row, vec, rq>> /\ To(w, "failing")
    BY <1>11 DEF Break, At, Aside
  <2>2. QED
    BY <1>4, <2>1 DEF Working, Rest, Live, Status
<1>12. CASE MarkFailed(w)
  <2>1. wk[w] # Idle /\ wk[w].at = "failing" /\ UNCHANGED <<vec, rq>> /\ Rests(w)
    BY <1>12 DEF MarkFailed, At, Aside
  <2>2. CASE SetStatus({wk[w].doc}, "failed")
    <3>1. row'[d] = IF d = wk[w].doc /\ Live(d) THEN "failed" ELSE row[d]
      BY <2>2 DEF SetStatus
    <3>2. QED
      BY <1>5, <2>1, <3>1 DEF Working, Rest
  <2>3. CASE torn' = torn \cup {wk[w].doc} /\ UNCHANGED row
    BY <1>5, <2>1, <2>3
  <2>4. QED
    BY <1>12, <2>2, <2>3 DEF MarkFailed
<1>13. QED
  BY <1>3, <1>6, <1>7, <1>8, <1>9, <1>10, <1>11, <1>12

LEMMA ExactStep ==
    ASSUME Types, Next, NEW d \in Doc, Exactly(d), Solo(d) PROVE Exactly(d)'
<1>0. /\ raced \subseteq raced' /\ torn \subseteq torn' /\ Solo(d)'
      /\ rq \in [Request -> RqType] /\ wk \in [Worker -> {Idle} \cup WkType]
  BY Histories, SoloStep DEF Types, RqType, WkType
<1>1. ASSUME NEW p \in Process, Crash(p) PROVE Exactly(d)'
  <2>1. /\ UNCHANGED <<row, vec>>
        /\ \A w \in Worker : wk'[w] = IF ProcOf[w] = p THEN Idle ELSE wk[w]
        /\ \A r \in Request : rq'[r] = IF ProcOf[r] = p THEN None ELSE rq[r]
        /\ \A r \in Request : ProcOf[r] = p /\ rq[r].at \in {"row", "purge"} => rq[r].docs \subseteq torn'
    BY <1>1 DEF Crash
  <2>2. \A w \in Worker : Holds(w, d)' => Holds(w, d) /\ wk'[w] = wk[w]
    BY <2>1 DEF Holds
  <2>3. \A r \in Request : d \in rq'[r].docs => d \in rq[r].docs /\ rq'[r] = rq[r]
    BY <2>1, Frees
  <2>4. ASSUME d \notin raced' \cup torn', Actors(d)' = {}, Actors(d) # {} PROVE Rest(d)
    <3>1. ASSUME NEW w \in Worker, Holds(w, d) PROVE Rest(d)
      BY <1>0, <2>4, <3>1, Dropped DEF Exactly
    <3>2. ASSUME NEW r \in Request, d \in rq[r].docs PROVE Rest(d)
      <4>1. ProcOf[r] = p
        BY <2>1, <2>4, <3>2 DEF Actors
      <4>2. Serving(r, d) /\ rq[r].at \notin {"row", "purge"}
        BY <1>0, <2>1, <2>4, <3>2, <4>1 DEF Exactly
      <4>3. QED
        BY <3>2, <4>2, Dropped
    <3>3. QED
      BY <2>4, <3>1, <3>2 DEF Actors
  <2>5. QED
    BY <1>0, <2>1, <2>2, <2>3, <2>4, ExactKept
<1>2. ASSUME NEW p \in Process, Restart(p) \/ Started(p) \/ \E e \in Doc : Requeue(p, e) PROVE Exactly(d)'
  <2>1. UNCHANGED <<row, vec, wk, rq>>
    BY <1>2 DEF Restart, Started, Requeue
  <2>2. QED
    BY <1>0, <2>1, ExactApart
<1>3. QED
  BY <1>0, <1>1, <1>2, NextCases, ExactRequests, ExactWorkers

\* What was in one pair of hands at a time and was never left halfway is exact at
\* rest: every point of an indexed document is there once and none of a deleted one,
\* however often it was queued, taken up again after a crash, or failed.
THEOREM IndexIsExact == Spec => []ExactIndex
<1> DEFINE Inv == \A d \in Doc : Solo(d) /\ Exactly(d)
<1>1. Init => Inv
  <2> SUFFICES ASSUME Init, NEW d \in Doc PROVE Solo(d) /\ Exactly(d)
    OBVIOUS
  <2>1. Actors(d) = {}
    BY Frees DEF Init, Actors, Holds
  <2>2. Rest(d)
    BY DEF Init, Rest
  <2>3. QED
    BY <2>1, <2>2 DEF Solo, Exactly, Actors
<1>2. TypeOK /\ Inv /\ [Next]_vars => Inv'
  <2> SUFFICES ASSUME TypeOK, Inv, [Next]_vars, NEW d \in Doc PROVE Solo(d)' /\ Exactly(d)'
    OBVIOUS
  <2>1. ASSUME Next PROVE Solo(d)' /\ Exactly(d)'
    BY <2>1, SoloStep, ExactStep DEF TypeOK
  <2>2. ASSUME UNCHANGED vars PROVE Solo(d)' /\ Exactly(d)'
    <3>1. Actors(d)' = Actors(d)
      BY <2>2 DEF vars, Actors, Holds
    <3>2. Solo(d)'
      BY <2>2, <3>1 DEF vars, Solo
    <3>3. Exactly(d)'
      BY <2>2, ExactApart DEF vars
    <3>4. QED
      BY <3>2, <3>3
  <2>3. QED
    BY <2>1, <2>2
<1>3. Inv => ExactIndex
  BY DEF Exactly, Rest, ExactIndex
<1>4. QED
  BY <1>1, <1>2, <1>3, TypeCorrect, PTL DEF Spec

-----------------------------------------------------------------------------
(* Uploads between the quota's count and their row.                        *)

Inserting == {r \in Request : rq[r].at = "insert"}

\* An upload is of one document.
Singly == \A r \in Request : rq[r].at \in {"saved", "insert"} => \E d \in Doc : rq[r].docs = {d}

Within == MaxDocs > 0 => Cardinality(Rows) + Cardinality(Inserting) < MaxDocs + Cardinality(Request)

LEMMA Counted ==
    /\ IsFiniteSet(Rows) /\ Cardinality(Rows) \in Nat
    /\ IsFiniteSet(Inserting) /\ Cardinality(Inserting) \in Nat
    /\ Cardinality(Inserting) <= Cardinality(Request) /\ Cardinality(Request) \in Nat
<1>1. Rows \subseteq Doc /\ Inserting \subseteq Request
  BY DEF Rows, Inserting
<1>2. QED
  BY <1>1, KBAssumption, FS_Subset, FS_CardinalityType

LEMMA CountedNext ==
    /\ IsFiniteSet(Rows') /\ Cardinality(Rows') \in Nat
    /\ IsFiniteSet(Inserting') /\ Cardinality(Inserting') \in Nat
    /\ Cardinality(Inserting') <= Cardinality(Request)
<1>1. Rows' \subseteq Doc /\ Inserting' \subseteq Request
  BY DEF Rows, Inserting
<1>2. QED
  BY <1>1, KBAssumption, FS_Subset, FS_CardinalityType

\* No more rows, and no more uploads that have passed the quota.
LEMMA WithinKept == ASSUME Within, Rows' \subseteq Rows, Inserting' \subseteq Inserting PROVE Within'
<1> PICK R, I : R = Rows' /\ I = Inserting'
  OBVIOUS
<1>1. Cardinality(R) <= Cardinality(Rows) /\ Cardinality(I) <= Cardinality(Inserting)
  BY Counted, FS_Subset
<1>2. Cardinality(R) \in Nat /\ Cardinality(I) \in Nat
  BY CountedNext
<1>3. MaxDocs > 0 => Cardinality(R) + Cardinality(I) < MaxDocs + Cardinality(Request)
  BY <1>1, <1>2, Counted, KBAssumption DEF Within
<1>4. QED
  BY <1>3 DEF Within

\* A step that leaves uploads alone, and removes rows if it changes any.
LEMMA WithinApart ==
    ASSUME Within, \A d \in Doc : Live(d)' => Live(d),
           \A r \in Request : rq'[r].at = "insert" => rq[r].at = "insert"
    PROVE  Within'
<1>1. Rows' \subseteq Rows /\ Inserting' \subseteq Inserting
  BY DEF Rows, Inserting
<1>2. QED
  BY <1>1, WithinKept

LEMMA SinglyStep == ASSUME Types, Singly, Next PROVE Singly'
<1>0. rq \in [Request -> RqType]
  BY DEF Types, RqType
<1>1. ASSUME NEW r \in Request, \A q \in Request \ {r} : rq'[q] = rq[q],
             rq'[r].at \in {"saved", "insert"} =>
               \/ \E d \in Doc : rq'[r].docs = {d}
               \/ rq[r].at \in {"saved", "insert"} /\ rq'[r].docs = rq[r].docs
      PROVE  Singly'
  BY <1>1 DEF Singly
<1>2. ASSUME NEW r \in Request, NEW at, NEW D, Enters(r, at, D),
             at \notin {"saved", "insert"} \/ \E d \in Doc : D = {d}
      PROVE  Singly'
  <2>1. rq'[r].at = at /\ rq'[r].docs = D /\ \A q \in Request \ {r} : rq'[q] = rq[q]
    BY <1>0, <1>2 DEF Enters
  <2>2. QED
    BY <1>1, <1>2, <2>1
<1>3. ASSUME NEW r \in Request, Ends(r) PROVE Singly'
  <2>1. rq'[r].at = "idle" /\ \A q \in Request \ {r} : rq'[q] = rq[q]
    BY <1>0, <1>3, Frees DEF Ends
  <2>2. QED
    BY <1>1, <2>1
<1>4. ASSUME UNCHANGED rq PROVE Singly'
  BY <1>4 DEF Singly
<1>5. ASSUME NEW r \in Request, NEW d \in Doc, UploadSave(r, d) \/ Delete(r, d) \/ Reindex(r, d) PROVE Singly'
  BY <1>2, <1>4, <1>5 DEF UploadSave, Delete, Reindex, Starts
<1>6. ASSUME NEW r \in Request, NEW d \in Doc, IndexQueue(r, d) PROVE Singly'
  <2>1. CASE Ends(r)
    BY <1>3, <2>1
  <2>2. CASE rq[r].at = "enqueue" /\ rq' = [rq EXCEPT ![r].docs = @ \ {d}]
    <3>1. rq'[r].at = "enqueue" /\ \A q \in Request \ {r} : rq'[q] = rq[q]
      BY <1>0, <2>2 DEF RqType
    <3>2. QED
      BY <1>1, <3>1
  <2>3. QED
    BY <1>6, <2>1, <2>2 DEF IndexQueue
<1>7. ASSUME NEW r \in Request, NEW D \in SUBSET Doc, BatchDelete(r, D) \/ Index(r, D) PROVE Singly'
  BY <1>2, <1>7 DEF BatchDelete, Index, Starts
<1>8. ASSUME NEW r \in Request,
             UploadCheck(r) \/ UploadInsert(r) \/ DeleteRow(r) \/ BatchPurge(r) \/ ReindexQueue(r)
      PROVE  Singly'
  <2>1. CASE Ends(r)
    BY <1>3, <2>1
  <2>2. CASE rq[r].at = "saved" /\ Goes(r, "insert")
    <3>1. rq'[r].docs = rq[r].docs /\ \A q \in Request \ {r} : rq'[q] = rq[q]
      BY <1>0, <2>2 DEF Goes, RqType
    <3>2. QED
      BY <1>1, <2>2, <3>1
  <2>3. QED
    BY <1>8, <2>1, <2>2 DEF UploadCheck, UploadInsert, DeleteRow, BatchPurge, ReindexQueue
<1>9. ASSUME NEW w \in Worker,
             \/ Take(w) \/ ReadRow(w) \/ Begin(w) \/ Clear(w)
             \/ AddBatch(w) \/ Finish(w) \/ Break(w) \/ MarkFailed(w)
      PROVE  Singly'
  BY <1>4, <1>9 DEF Take, ReadRow, Begin, Clear, AddBatch, Finish, Break, MarkFailed, Aside
<1>10. ASSUME NEW p \in Process, Crash(p) PROVE Singly'
  <2>1. \A r \in Request : rq'[r] = None \/ rq'[r] = rq[r]
    BY <1>10 DEF Crash
  <2>2. QED
    BY <2>1, Frees DEF Singly
<1>11. ASSUME NEW p \in Process, Restart(p) \/ Started(p) \/ \E d \in Doc : Requeue(p, d) PROVE Singly'
  BY <1>4, <1>11 DEF Restart, Started, Requeue
<1>12. QED
  BY NextCases, <1>5, <1>6, <1>7, <1>8, <1>9, <1>10, <1>11

LEMMA WithinStep == ASSUME Types, Singly, Within, Next PROVE Within'
<1>0. rq \in [Request -> RqType] /\ row \in [Doc -> Status \cup {"none", "gone"}]
  BY DEF Types, RqType
<1>1. ASSUME NEW D, NEW s \in Status \cup {"gone"}, SetStatus(D, s) \/ UNCHANGED row
      PROVE  \A d \in Doc : Live(d)' => Live(d)
  BY <1>1, SetStatusKeeps
<1>2. ASSUME NEW r \in Request, NEW at, NEW D, Enters(r, at, D), at # "insert"
      PROVE  \A q \in Request : rq'[q].at = "insert" => rq[q].at = "insert"
  <2>1. rq'[r].at = at /\ \A q \in Request \ {r} : rq'[q] = rq[q]
    BY <1>0, <1>2 DEF Enters
  <2>2. QED
    BY <1>2, <2>1
<1>3. ASSUME NEW r \in Request, Ends(r)
      PROVE  \A q \in Request : rq'[q].at = "insert" => rq[q].at = "insert" /\ q # r
  <2>1. rq'[r].at = "idle" /\ \A q \in Request \ {r} : rq'[q] = rq[q]
    BY <1>0, <1>3, Frees DEF Ends
  <2>2. QED
    BY <2>1
<1>4. ASSUME NEW r \in Request, NEW d \in Doc, UploadSave(r, d) \/ Delete(r, d) PROVE Within'
  <2>1. UNCHANGED row /\ ((\E at \in {"saved", "row"} : Enters(r, at, {d})) \/ UNCHANGED rq)
    BY <1>4 DEF UploadSave, Delete, Starts
  <2>2. QED
    BY <1>2, <2>1, WithinApart DEF Live
<1>5. ASSUME NEW r \in Request, NEW d \in Doc, Reindex(r, d) PROVE Within'
  <2>1. SetStatus({d}, "pending") /\ Enters(r, "requeue", {d})
    BY <1>5 DEF Reindex, Starts
  <2>2. QED
    BY <1>1, <1>2, <2>1, WithinApart DEF Status
<1>6. ASSUME NEW r \in Request, NEW d \in Doc, IndexQueue(r, d) PROVE Within'
  <2>1. SetStatus({d}, "failed") \/ UNCHANGED row
    BY <1>6 DEF IndexQueue
  <2>2. \A q \in Request : rq'[q].at = "insert" => rq[q].at = "insert"
    <3>1. CASE Ends(r)
      BY <1>3, <3>1
    <3>2. CASE rq' = [rq EXCEPT ![r].docs = @ \ {d}]
      BY <1>0, <3>2 DEF RqType
    <3>3. QED
      BY <1>6, <3>1, <3>2 DEF IndexQueue
  <2>3. QED
    BY <1>1, <2>1, <2>2, WithinApart DEF Status
<1>7. ASSUME NEW r \in Request, NEW D \in SUBSET Doc, BatchDelete(r, D) \/ Index(r, D) PROVE Within'
  <2>1. /\ SetStatus(D, "gone") \/ SetStatus(D, "pending")
        /\ Enters(r, "purge", D) \/ Enters(r, "enqueue", D)
    BY <1>7 DEF BatchDelete, Index, Starts
  <2>2. QED
    BY <1>1, <1>2, <2>1, WithinApart DEF Status
<1>8. ASSUME NEW r \in Request, UploadCheck(r) PROVE Within'
  <2>1. UNCHANGED row
    BY <1>8 DEF UploadCheck
  <2>2. CASE Ends(r)
    BY <1>3, <2>1, <2>2, WithinApart DEF Live
  <2>3. CASE MaxDocs = 0 \/ Cardinality(Rows) < MaxDocs
    <3> PICK R, I : R = Rows' /\ I = Inserting'
      OBVIOUS
    <3>1. R = Rows
      BY <2>1 DEF Rows, Live
    <3>2. MaxDocs > 0 => Cardinality(R) + Cardinality(I) < MaxDocs + Cardinality(Request)
      BY <2>3, <3>1, Counted, CountedNext, KBAssumption
    <3>3. QED
      BY <3>2 DEF Within
  <2>4. QED
    BY <1>8, <2>2, <2>3 DEF UploadCheck
<1>9. ASSUME NEW r \in Request, UploadInsert(r) PROVE Within'
  <2>1. rq[r].at = "insert" /\ Ends(r)
    BY <1>9 DEF UploadInsert
  <2>2. PICK d \in Doc : rq[r].docs = {d}
    BY <2>1 DEF Singly
  <2>3. Rows' \subseteq Rows \cup {d}
    <3>1. \A e \in Doc : e # d => row'[e] = row[e]
      BY <1>9, <2>2 DEF UploadInsert
    <3>2. QED
      BY <3>1 DEF Rows, Live
  <2>4. Inserting' \subseteq Inserting \ {r} /\ r \in Inserting
    BY <1>3, <2>1 DEF Inserting
  <2> PICK R, I : R = Rows' /\ I = Inserting'
    OBVIOUS
  <2>5. Cardinality(R) <= Cardinality(Rows) + 1 /\ Cardinality(R) \in Nat
    <3>1. IsFiniteSet(Rows \cup {d}) /\ Cardinality(Rows \cup {d}) <= Cardinality(Rows) + 1
      <4>1. /\ IsFiniteSet(Rows \cup {d})
            /\ Cardinality(Rows \cup {d}) = IF d \in Rows THEN Cardinality(Rows) ELSE Cardinality(Rows) + 1
        BY Counted, FS_AddElement, Zenon
      <4>2. QED
        BY <4>1, Counted
    <3>2. Cardinality(Rows \cup {d}) \in Nat /\ Cardinality(R) \in Nat
      BY <3>1, CountedNext, FS_CardinalityType
    <3>3. Cardinality(R) <= Cardinality(Rows \cup {d})
      BY <2>3, <3>1, FS_Subset
    <3>4. QED
      BY <3>1, <3>2, <3>3, Counted
  <2>6. Cardinality(I) <= Cardinality(Inserting) - 1 /\ Cardinality(I) \in Nat
    <3>1. IsFiniteSet(Inserting \ {r}) /\ Cardinality(Inserting \ {r}) = Cardinality(Inserting) - 1
      BY <2>4, Counted, FS_RemoveElement
    <3>2. Cardinality(I) <= Cardinality(Inserting \ {r})
      BY <2>4, <3>1, FS_Subset
    <3>3. QED
      BY <3>1, <3>2, CountedNext
  <2>7. MaxDocs > 0 => Cardinality(R) + Cardinality(I) < MaxDocs + Cardinality(Request)
    BY <2>5, <2>6, Counted, KBAssumption DEF Within
  <2>8. QED
    BY <2>7 DEF Within
<1>10. ASSUME NEW r \in Request, DeleteRow(r) \/ BatchPurge(r) \/ ReindexQueue(r) PROVE Within'
  <2>1. Ends(r) /\ (SetStatus(rq[r].docs, "gone") \/ UNCHANGED row)
    BY <1>10 DEF DeleteRow, BatchPurge, ReindexQueue
  <2>2. QED
    BY <1>1, <1>3, <2>1, WithinApart
<1>11. ASSUME NEW w \in Worker,
              \/ Take(w) \/ ReadRow(w) \/ Begin(w) \/ Clear(w)
              \/ AddBatch(w) \/ Finish(w) \/ Break(w) \/ MarkFailed(w)
       PROVE  Within'
  <2>1. UNCHANGED rq
    BY <1>11 DEF Take, ReadRow, Begin, Clear, AddBatch, Finish, Break, MarkFailed, Aside
  <2>2. \/ UNCHANGED row \/ SetStatus({wk[w].doc}, "indexing")
        \/ SetStatus({wk[w].doc}, "indexed") \/ SetStatus({wk[w].doc}, "failed")
    BY <1>11 DEF Take, ReadRow, Begin, Clear, AddBatch, Finish, Break, MarkFailed
  <2>3. QED
    BY <1>1, <2>1, <2>2, WithinApart DEF Status
<1>12. ASSUME NEW p \in Process, Crash(p) PROVE Within'
  <2>1. UNCHANGED row /\ \A r \in Request : rq'[r] = None \/ rq'[r] = rq[r]
    BY <1>12 DEF Crash
  <2>2. QED
    BY <2>1, Frees, WithinApart DEF Live
<1>13. ASSUME NEW p \in Process, Restart(p) \/ Started(p) \/ \E d \in Doc : Requeue(p, d) PROVE Within'
  <2>1. UNCHANGED <<row, rq>>
    BY <1>13 DEF Restart, Started, Requeue
  <2>2. QED
    BY <2>1, WithinApart DEF Live
<1>14. QED
  BY NextCases, <1>4, <1>5, <1>6, <1>7, <1>8, <1>9, <1>10, <1>11, <1>12, <1>13

\* kb_upload counts the rows before it inserts its own: the uploads that have passed
\* the count when the quota fills up are the documents it can be exceeded by.
THEOREM QuotaOvershootBounded == Spec => []QuotaOvershoot
<1>1. Init => Singly /\ Within
  <2> SUFFICES ASSUME Init PROVE Singly /\ Within
    OBVIOUS
  <2>1. Rows = {} /\ Inserting = {} /\ Singly
    BY Frees DEF Init, Rows, Live, Status, Inserting, Singly
  <2>2. QED
    BY <2>1, Counted, FS_EmptySet, KBAssumption DEF Within
<1>2. TypeOK /\ Singly /\ Within /\ [Next]_vars => Singly' /\ Within'
  <2> SUFFICES ASSUME TypeOK, Singly, Within, [Next]_vars PROVE Singly' /\ Within'
    OBVIOUS
  <2>1. ASSUME Next PROVE Singly' /\ Within'
    BY <2>1, SinglyStep, WithinStep DEF TypeOK
  <2>2. ASSUME UNCHANGED vars PROVE Singly' /\ Within'
    BY <2>2 DEF vars, Singly, Within, Rows, Live, Inserting
  <2>3. QED
    BY <2>1, <2>2
<1>3. Within => QuotaOvershoot
  BY Counted, KBAssumption DEF Within, QuotaOvershoot
<1>4. QED
  BY <1>1, <1>2, <1>3, TypeCorrect, PTL DEF Spec

=============================================================================
