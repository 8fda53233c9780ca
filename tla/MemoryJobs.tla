----------------------------- MODULE MemoryJobs -----------------------------
(***************************************************************************)
(* The long-term memories of one user: rows in Postgres, the graph, and    *)
(* the Celery jobs between them.  An extraction job marks the row, writes  *)
(* the graph, completes the row and counts towards a reflection; every     *)
(* transaction, graph write and dispatch is a step of its own, and a       *)
(* worker may die between any two.  Nothing keeps two jobs from working on *)
(* one memory, nor a user from deleting it meanwhile.                      *)
(***************************************************************************)
EXTENDS MemoryGraph

CONSTANTS
  Workers,      \* processes that run extraction jobs
  Extractions,  \* what the language model may make of a text
  Legacy,       \* entity nodes of an older version, which may share a name
  LegacyLong,   \* those of them that are long-term
  TopK,         \* most entities a search returns
  Threshold,    \* entities that trigger a reflection
  MinReflected, \* long-term entities a reflection needs
  MinStatements, \* statements a profile needs (2 in the code)
  NoMemory,
  MaxMoves, MaxAccess  \* bounds: extraction jobs and operations, lookups

ASSUME JobAssumption ==
  Threshold \in Nat \ {0} /\ LegacyLong \subseteq Legacy /\ Legacy \subseteq Entities
\* A text that states nothing names nothing, and the rest speaks of what it names.
ASSUME ExtractionAssumption ==
  \A x \in Extractions : /\ ~x.stated => x.names = {}
                         /\ x.triplets \subseteq x.names \X x.names
                         /\ UNION x.events \subseteq x.names
ASSUME FiniteAssumption == IsFiniteSet(Workers) /\ IsFiniteSet(Entities)

VARIABLES
  rows,       \* status of each memory's row; "none" before, "deleted" after
  queue,      \* extraction jobs in the broker, per memory
  pc, held, draft,  \* what each worker does, for which memory, with what graph
  readings,   \* the entities that each worker has read for it
  graph,
  counter,    \* entities counted in Redis since the last reflection
  total,      \* entities counted in all (history)
  reflections, reflected,  \* reflection jobs in the broker, dispatched in all
  reflecting, \* the sources a running reflection has read, if any
  promoted,   \* whether a running consolidation has promoted, and will read ...
  enhancing,  \* ... the entities whose profile it writes
  moves       \* bound: extraction jobs dispatched and operations done

workerVars == <<pc, held, draft, readings>>
countVars == <<counter, total, reflections, reflected>>
jobVars == <<reflecting, promoted, enhancing>>
memoryVars == <<rows, queue, workerVars, graph, countVars, jobVars, moves>>

Statuses == {"none", "pending", "extracting", "completed", "failed", "deleted"}
Stored(m) == rows[m] \notin {"none", "deleted"}
Idle == [read |-> FALSE, sources |-> {}]

MemoryInit ==
  /\ rows = [m \in Memories |-> "none"]
  /\ queue = [m \in Memories |-> 0]
  /\ pc = [w \in Workers |-> "idle"]
  /\ held = [w \in Workers |-> NoMemory]
  /\ draft = [w \in Workers |-> NoDraft]
  /\ readings = [w \in Workers |-> NothingRead]
  /\ graph = [EmptyGraph EXCEPT !.nodes = Legacy, !.longEntities = LegacyLong,
                !.mentionCount = [e \in Entities |-> IF e \in Legacy THEN 1 ELSE 0]]
  /\ counter = 0 /\ total = 0 /\ reflections = 0 /\ reflected = 0
  /\ reflecting = Idle /\ promoted = FALSE /\ enhancing = {}
  /\ moves = 0

-----------------------------------------------------------------------------
(* The user.                                                               *)

Dispatch(m) ==
  /\ moves < MaxMoves
  /\ moves' = moves + 1
  /\ queue' = [queue EXCEPT ![m] = @ + 1]

\* The row is stored first; the dispatch may fail, or there is no dispatcher.
RemembersText(m) ==
  /\ rows[m] = "none"
  /\ rows' = [rows EXCEPT ![m] = "pending"]
  /\ \/ Dispatch(m)
     \/ UNCHANGED <<queue, moves>>
  /\ UNCHANGED <<workerVars, graph, countVars, jobVars>>

\* Any row the user names, whatever its status: nothing looks for a running job.
ReextractsMemory(m) ==
  /\ Stored(m)
  /\ Dispatch(m)
  /\ UNCHANGED <<rows, workerVars, graph, countVars, jobVars>>

\* The rows of some statuses; each dispatch that fails is counted and passed over.
ReextractsMemories(S) ==
  LET candidates == {m \in Memories : rows[m] \in S}
  IN \E sent \in SUBSET candidates :
       /\ sent # {}
       /\ moves + Cardinality(sent) <= MaxMoves
       /\ moves' = moves + Cardinality(sent)
       /\ queue' = [m \in Memories |-> IF m \in sent THEN queue[m] + 1 ELSE queue[m]]
       /\ UNCHANGED <<rows, workerVars, graph, countVars, jobVars>>

\* Only the row goes; its dialogue, statements and entities stay in the graph.
DeletesMemory(m) ==
  /\ Stored(m)
  /\ rows' = [rows EXCEPT ![m] = "deleted"]
  /\ UNCHANGED <<queue, workerVars, graph, countVars, jobVars, moves>>

Operates(g) ==
  /\ moves < MaxMoves
  /\ moves' = moves + 1
  /\ graph' = g
  /\ UNCHANGED <<rows, queue, workerVars, countVars, jobVars>>

DeletesEntity(e) == e \in graph.nodes /\ Operates(DeleteEntity(graph, e))

DeletesInsight(t) == t \in graph.insights /\ Operates(DeleteInsight(graph, t))
MergesDuplicates ==
  \E k \in Keepers(graph) : Operates(MergeDuplicateEntities(graph, k))

\* The entities a search returns are counted as looked up.
Searches(hits) ==
  /\ Cardinality(hits) \in 1..TopK /\ hits \subseteq graph.nodes
  /\ \A e \in hits : graph.accessCount[e] < MaxAccess
  /\ Operates(BumpEntityAccess(graph, hits))

-----------------------------------------------------------------------------
(* An extraction job.                                                      *)

At(w, from, to) == pc[w] = from /\ pc' = [pc EXCEPT ![w] = to]
Ends(w) ==
  /\ pc' = [pc EXCEPT ![w] = "idle"]
  /\ held' = [held EXCEPT ![w] = NoMemory]
  /\ draft' = [draft EXCEPT ![w] = NoDraft]
  /\ readings' = [readings EXCEPT ![w] = NothingRead]

\* Reads the row in the transaction that will mark it; no row, no job.
StartsExtraction(w, m) ==
  /\ pc[w] = "idle" /\ queue[m] > 0
  /\ queue' = [queue EXCEPT ![m] = @ - 1]
  /\ IF Stored(m)
     THEN /\ pc' = [pc EXCEPT ![w] = "marking"]
          /\ held' = [held EXCEPT ![w] = m]
     ELSE UNCHANGED <<pc, held>>
  /\ UNCHANGED <<rows, draft, readings, graph, countVars, jobVars, moves>>

\* save() writes the whole row, and inserts it when it is not there any more.
SavesRow(w, from, status, to) ==
  /\ At(w, from, to)
  /\ rows' = [rows EXCEPT ![held[w]] = status]
  /\ UNCHANGED <<queue, held, draft, readings, graph, countVars, jobVars, moves>>

MarksExtracting(w) == SavesRow(w, "marking", "extracting", "extracting")

\* The language model has read the text.  The entities of a type are read when the
\* first name of that type comes up; here those of any names, when they please.
ReadsType(w) ==
  /\ pc[w] = "extracting"
  /\ \E ns \in (SUBSET (Names \ readings[w].read)) \ {{}} :
       readings' = [readings EXCEPT ![w] = AlsoRead(readings[w], graph, ns)]
  /\ UNCHANGED <<rows, queue, pc, held, draft, graph, countVars, jobVars, moves>>

\* With what was read, names become entities.
MergesWithGraph(w) ==
  /\ At(w, "extracting", "saving")
  /\ readings[w].read = Names
  /\ \E x \in Extractions : \E c \in DedupBatch(x.names) :
       \E p \in MergeWithGraph(readings[w], {c[n] : n \in x.names}) :
         draft' = [draft EXCEPT ![w] = BuildGraph(readings[w], held[w], x, c, p)]
  /\ readings' = [readings EXCEPT ![w] = NothingRead]
  /\ UNCHANGED <<rows, queue, held, graph, countVars, jobVars, moves>>

SavesGraph(w) ==
  /\ At(w, "saving", "latest")
  /\ graph' = SaveGraph(graph, held[w], draft[w])
  /\ draft' = [draft EXCEPT ![w] = [NoDraft EXCEPT !.entities = draft[w].entities]]
  /\ UNCHANGED <<rows, queue, held, readings, countVars, jobVars, moves>>

\* From here on only the number of entities matters.  The row is read again, to
\* complete it or to mark it failed.
ReadsLatest(w) ==
  /\ \/ At(w, "latest", "completing") /\ Stored(held[w]) /\ UNCHANGED <<held, draft, readings>>
     \/ At(w, "failed", "failing") /\ Stored(held[w]) /\ UNCHANGED <<held, draft, readings>>
     \/ pc[w] \in {"latest", "failed"} /\ ~Stored(held[w]) /\ Ends(w)
  /\ UNCHANGED <<rows, queue, graph, countVars, jobVars, moves>>

Completes(w) == SavesRow(w, "completing", "completed", "counting")

\* Mutant of CountsEntities: the count that triggers a reflection is kept.
MutCountsEntities(w) ==
  LET n == Cardinality(draft[w].entities)
  IN /\ pc[w] = "counting" /\ n > 0
     /\ total' = total + n /\ counter' = counter + n
     /\ IF counter + n >= Threshold
        THEN pc' = [pc EXCEPT ![w] = "dispatching"] /\ UNCHANGED <<held, draft, readings>>
        ELSE Ends(w)
     /\ UNCHANGED <<rows, queue, graph, reflections, reflected, jobVars, moves>>

\* One script adds the entities and, at the threshold, drops the whole count.
\* Every way ends with a clustering job, sent or not: see MemoryClustering.
CountsEntities(w) ==
  LET n == Cardinality(draft[w].entities)
  IN /\ pc[w] = "counting"
     /\ n > 0
     /\ total' = total + n
     /\ IF counter + n >= Threshold
        THEN counter' = 0 /\ pc' = [pc EXCEPT ![w] = "dispatching"] /\ UNCHANGED <<held, draft, readings>>
        ELSE counter' = counter + n /\ Ends(w)
     /\ UNCHANGED <<rows, queue, graph, reflections, reflected, jobVars, moves>>

\* No entities, or no Redis: nothing is counted.
SkipsCount(w) ==
  /\ pc[w] = "counting"
  /\ Ends(w)
  /\ UNCHANGED <<rows, queue, graph, countVars, jobVars, moves>>

\* The broker takes the job, or the failure is logged and the count is gone.
DispatchesReflection(w) ==
  /\ pc[w] = "dispatching"
  /\ Ends(w)
  /\ \/ reflections' = reflections + 1 /\ reflected' = reflected + 1
     \/ UNCHANGED <<reflections, reflected>>
  /\ UNCHANGED <<rows, queue, graph, counter, total, jobVars, moves>>

\* Mutant of FailsExtraction: a failure of the graph is logged and passed over.
MutFailsExtraction(w) ==
  /\ pc[w] \in {"extracting", "saving"}
  /\ pc' = [pc EXCEPT ![w] = "latest"]
  /\ UNCHANGED <<rows, queue, held, draft, readings, graph, countVars, jobVars, moves>>

\* An exception of the model, of the graph or of the completing transaction.
FailsExtraction(w) ==
  /\ pc[w] \in {"extracting", "saving", "latest", "completing"}
  /\ pc' = [pc EXCEPT ![w] = "failed"]
  /\ draft' = [draft EXCEPT ![w] = NoDraft]
  /\ readings' = [readings EXCEPT ![w] = NothingRead]
  /\ UNCHANGED <<rows, queue, held, graph, countVars, jobVars, moves>>

MarksFailed(w) ==
  /\ pc[w] = "failing"
  /\ rows' = [rows EXCEPT ![held[w]] = "failed"]
  /\ Ends(w)
  /\ UNCHANGED <<queue, graph, countVars, jobVars, moves>>

\* The worker dies; the broker had its acknowledgement when the job started.
DiesWorker(w) ==
  /\ pc[w] # "idle"
  /\ Ends(w)
  /\ UNCHANGED <<rows, queue, graph, countVars, jobVars, moves>>

-----------------------------------------------------------------------------
(* Reflection and consolidation jobs.                                      *)

\* Started by a job, by the schedule or by the user; too few entities: skipped.
ReadsEntities ==
  LET top == TopLongTermEntities(graph)
  IN /\ ~reflecting.read
     /\ \/ reflections > 0 /\ reflections' = reflections - 1 /\ moves' = moves
        \/ moves < MaxMoves /\ moves' = moves + 1 /\ reflections' = reflections
     /\ reflecting' = IF Cardinality(top) >= MinReflected
                      THEN [read |-> TRUE, sources |-> top] ELSE Idle
     /\ UNCHANGED <<rows, queue, workerVars, graph, counter, total, reflected,
                    promoted, enhancing>>

\* Mutant of WritesInsight: the insight is derived from all that the model was shown.
MutWritesInsight ==
  /\ reflecting.read
  /\ \E t \in Themes : \E ids \in SUBSET reflecting.sources :
       graph' = UpsertInsight(graph, t, reflecting.sources, Cardinality(ids))
  /\ UNCHANGED <<rows, queue, workerVars, countVars, jobVars, moves>>

\* Every insight of the model names some of the entities it was shown.
WritesInsight ==
  /\ reflecting.read
  /\ \E t \in Themes : \E ids \in SUBSET reflecting.sources :
       graph' = UpsertInsight(graph, t, ids, Cardinality(ids))
  /\ UNCHANGED <<rows, queue, workerVars, countVars, jobVars, moves>>

\* All are written, or none was made, or the job died.
EndsReflection ==
  /\ reflecting.read
  /\ reflecting' = Idle
  /\ UNCHANGED <<rows, queue, workerVars, graph, countVars, promoted, enhancing, moves>>

\* One statement promotes; a job that has a summarizer goes on.
Consolidates ==
  /\ ~promoted /\ enhancing = {}
  /\ moves < MaxMoves /\ moves' = moves + 1
  /\ \E old \in {{}, Entities} : graph' = PromoteShortToLong(graph, old)
  /\ promoted' \in BOOLEAN
  /\ UNCHANGED <<rows, queue, workerVars, countVars, reflecting, enhancing>>

\* It reads the long-term entities, or fails to.
ReadsProfiles ==
  /\ promoted /\ promoted' = FALSE
  /\ enhancing' \in {{}, TopLongTermEntities(graph)}
  /\ UNCHANGED <<rows, queue, workerVars, graph, countVars, reflecting, moves>>

\* An entity with too few statements, or whose summary fails, is skipped.
EnhancesProfile(e) ==
  /\ e \in enhancing
  /\ enhancing' = enhancing \ {e}
  /\ \/ /\ Cardinality(EntityStatements(graph, e)) >= MinStatements
        /\ \E f \in (SUBSET Facts) \ {{}} : graph' = WriteEntityProfile(graph, e, f)
     \/ UNCHANGED graph
  /\ UNCHANGED <<rows, queue, workerVars, countVars, reflecting, promoted, moves>>

-----------------------------------------------------------------------------
Extracts(w) ==
  \/ \E m \in Memories : StartsExtraction(w, m)
  \/ MarksExtracting(w) \/ ReadsType(w) \/ MergesWithGraph(w) \/ SavesGraph(w) \/ ReadsLatest(w)
  \/ Completes(w) \/ CountsEntities(w) \/ SkipsCount(w)
  \/ DispatchesReflection(w)
  \/ FailsExtraction(w) \/ MarksFailed(w) \/ DiesWorker(w)

MemoryNext ==
  \/ \E m \in Memories : RemembersText(m) \/ ReextractsMemory(m) \/ DeletesMemory(m)
  \/ \E S \in SUBSET (Statuses \ {"none", "deleted"}) : ReextractsMemories(S)
  \/ \E e \in Entities : DeletesEntity(e) \/ EnhancesProfile(e)
  \/ \E t \in Themes : DeletesInsight(t)
  \/ \E hits \in SUBSET Entities : Searches(hits)
  \/ MergesDuplicates
  \/ \E w \in Workers : Extracts(w)
  \/ ReadsEntities \/ WritesInsight \/ EndsReflection \/ Consolidates \/ ReadsProfiles

MemorySpec == MemoryInit /\ [][MemoryNext]_memoryVars

-----------------------------------------------------------------------------
(* Properties.                                                             *)

\* A row that says completed has its trace in the graph, although the graph is
\* another database, written before the row and by any of several jobs
\* (run_extract_memory; the detail view shows the trace of completed rows).
CompletedIsTraced ==
  \A m \in Memories : rows[m] = "completed" => MemoryTrace(graph, m) # {}

\* What is long-term stays so: an extraction that read an entity before it was
\* promoted does not demote it, nor does merging it into another of its name
\* (the CASE of _merge_graph, has_long_term of _merge_duplicate_entities).
LongTermIsKept ==
  [][\A e \in graph.longEntities :
       \/ \E x \in graph'.longEntities : NameOf[x] = NameOf[e]
       \/ DeletesEntity(e)]_memoryVars

\* The sources an insight shows are never more than the number it states, even
\* when it is written again or entities vanish while the model is thinking.
InsightSourcesCounted ==
  \A t \in Themes :
    Cardinality({x \in graph.derived : x[1] = t}) <= graph.sourceCount[t]

\* Merging duplicates removes every duplicate and loses nothing of the origin of
\* a memory: the trace of every memory names the same entities as before.
MergeKeepsTraces ==
  [][graph'.nodes # graph.nodes /\ MergesDuplicates =>
       /\ DuplicateEntities(graph') = {}
       /\ OrphanStatements(graph') = OrphanStatements(graph)
       /\ \A m \in Memories : MemoryTrace(graph', m) = MemoryTrace(graph, m)]_memoryVars

\* Every reflection that was dispatched was earned by as many extracted entities
\* as the threshold says, whatever order the workers counted them in, and the
\* counter never stays at the threshold.
ReflectionsAreEarned ==
  /\ reflected * Threshold + counter <= total
  /\ counter < Threshold
=============================================================================
