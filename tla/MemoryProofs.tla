---------------------------- MODULE MemoryProofs ----------------------------
(***************************************************************************)
(* What holds of the rows, the graph, the counter and the communities for  *)
(* any number of memories, workers and jobs.                               *)
(***************************************************************************)
EXTENDS MemoryJobs, MemoryClustering, FiniteSetTheorems, TLAPS

Steps == {"idle", "marking", "extracting", "saving", "latest", "completing", "counting",
          "dispatching", "failed", "failing"}

-----------------------------------------------------------------------------
(* The graph.                                                              *)

\* The fields of a graph that the proofs speak of.
Shaped(g) == {"dialogues", "nodes", "derived", "sourceCount"} \subseteq DOMAIN g

SameDialogues(g, h) == Shaped(h) /\ h.dialogues = g.dialogues

\* Only saving the graph of an extraction changes the dialogues.
LEMMA DialoguesStay ==
  ASSUME NEW g, Shaped(g)
  PROVE  /\ \A e : SameDialogues(g, DeleteEntity(g, e))
         /\ \A k : SameDialogues(g, MergeDuplicateEntities(g, k))
         /\ \A ids : SameDialogues(g, BumpEntityAccess(g, ids))
         /\ \A old : SameDialogues(g, PromoteShortToLong(g, old))
         /\ \A e, f : SameDialogues(g, WriteEntityProfile(g, e, f))
         /\ \A t, ids, n : SameDialogues(g, UpsertInsight(g, t, ids, n))
         /\ \A t : SameDialogues(g, DeleteInsight(g, t))
  <1> USE DEF Shaped, SameDialogues
  <1>1. \A gone : SameDialogues(g, Detached(g, gone))
    BY DEF Detached
  <1>2. \A e : SameDialogues(g, DeleteEntity(g, e))
    BY <1>1 DEF DeleteEntity
  <1>3. ASSUME NEW k PROVE SameDialogues(g, MergeDuplicateEntities(g, k))
    <2>1. PICK gone : TRUE /\ gone = {e \in g.nodes : k[e] # e}
      OBVIOUS
    <2> DEFINE h == Detached(g, gone)
    <2>2. SameDialogues(g, h)
      BY <1>1
    <2> HIDE DEF h
    <2> QED
      BY <2>1, <2>2 DEF MergeDuplicateEntities, h
  <1>4. \A ids : SameDialogues(g, BumpEntityAccess(g, ids))
    BY DEF BumpEntityAccess
  <1>5. \A old : SameDialogues(g, PromoteShortToLong(g, old))
    BY DEF PromoteShortToLong
  <1>6. \A e, f : SameDialogues(g, WriteEntityProfile(g, e, f))
    BY DEF WriteEntityProfile
  <1>7. \A t, ids, n : SameDialogues(g, UpsertInsight(g, t, ids, n))
    BY DEF UpsertInsight
  <1>8. \A t : SameDialogues(g, DeleteInsight(g, t))
    BY DEF DeleteInsight
  <1> QED
    BY <1>2, <1>3, <1>4, <1>5, <1>6, <1>7, <1>8

\* Saving adds the dialogue of the memory.
LEMMA SaveAdds ==
  ASSUME NEW g, NEW m, NEW d, Shaped(g)
  PROVE  Shaped(SaveGraph(g, m, d)) /\ SaveGraph(g, m, d).dialogues = g.dialogues \cup {m}
  BY DEF SaveGraph, Shaped

\* The empty graph, with or without nodes.
LEMMA InitShaped ==
  ASSUME MemoryInit
  PROVE  Shaped(graph)
  BY DEF MemoryInit, EmptyGraph, Shaped

\* The entities of a draft are entities.
LEMMA DraftEntities ==
  ASSUME NEW g, NEW m, NEW x, NEW c \in DedupBatch(x.names),
         NEW p \in MergeWithGraph(g, {c[n] : n \in x.names})
  PROVE  BuildGraph(g, m, x, c, p).entities \subseteq Entities
  <1>1. c \in [x.names -> x.names] /\ p \in [{c[n] : n \in x.names} -> Entities]
    BY DEF DedupBatch, MergeWithGraph
  <1>2. BuildGraph(g, m, x, c, p).entities = {p[c[n]] : n \in x.names}
    BY DEF BuildGraph
  <1> QED
    BY <1>1, <1>2

-----------------------------------------------------------------------------
(* Completed rows.                                                         *)

WorkersTyped ==
  /\ pc \in [Workers -> Steps]
  /\ held \in [Workers -> Memories \cup {NoMemory}]
  /\ \A w \in Workers : pc[w] # "idle" => held[w] \in Memories

\* A worker past the saving has left the dialogue of its memory in the graph.
TraceInv ==
  /\ rows \in [Memories -> Statuses]
  /\ WorkersTyped
  /\ Shaped(graph)
  /\ \A w \in Workers : pc[w] \in {"latest", "completing"} => held[w] \in graph.dialogues
  /\ \A m \in Memories : rows[m] = "completed" => m \in graph.dialogues

\* Whatever leaves the workers alone, completes no row and takes no dialogue away
\* keeps the invariant.
LEMMA GraphStep ==
  ASSUME TraceInv, UNCHANGED workerVars, Shaped(graph'),
         graph.dialogues \subseteq graph'.dialogues,
         rows' \in [Memories -> Statuses],
         \A m \in Memories : rows'[m] = "completed" => rows[m] = "completed"
  PROVE  TraceInv'
  BY DEF TraceInv, WorkersTyped, workerVars

\* A worker that goes on to a step for which nothing is asked keeps the invariant.
LEMMA WorkerStep ==
  ASSUME TraceInv, NEW w \in Workers, NEW to \in Steps, NEW m \in Memories \cup {NoMemory},
         pc' = [pc EXCEPT ![w] = to], held' = [held EXCEPT ![w] = m],
         to # "idle" => m \in Memories,
         to \in {"latest", "completing"} => m \in graph'.dialogues,
         Shaped(graph'), graph.dialogues \subseteq graph'.dialogues,
         rows' \in [Memories -> Statuses],
         \A k \in Memories : rows'[k] = "completed" =>
           rows[k] = "completed" \/ k \in graph'.dialogues
  PROVE  TraceInv'
  <1>1. pc'[w] = to /\ held'[w] = m
    BY DEF TraceInv, WorkersTyped
  <1>2. \A v \in Workers \ {w} : pc'[v] = pc[v] /\ held'[v] = held[v]
    BY DEF TraceInv, WorkersTyped
  <1>3. WorkersTyped'
    BY <1>1, <1>2 DEF TraceInv, WorkersTyped
  <1>4. \A v \in Workers : pc'[v] \in {"latest", "completing"} => held'[v] \in graph'.dialogues
    BY <1>1, <1>2 DEF TraceInv
  <1> QED
    BY <1>3, <1>4 DEF TraceInv
\* Saving a row at the worker's memory.
LEMMA RowSaved ==
  ASSUME TraceInv, NEW m \in Memories, NEW status \in Statuses,
         rows' = [rows EXCEPT ![m] = status]
  PROVE  /\ rows' \in [Memories -> Statuses]
         /\ \A k \in Memories : rows'[k] = "completed" =>
              rows[k] = "completed" \/ (k = m /\ status = "completed")
  BY DEF TraceInv

\* Every step of an extraction job keeps the invariant.
LEMMA ExtractionStep ==
  ASSUME TraceInv, NEW w \in Workers, Extracts(w)
  PROVE  TraceInv'
  <1> USE DEF TraceInv, WorkersTyped, Steps, Statuses
  <1>1. ASSUME NEW m \in Memories, StartsExtraction(w, m)
        PROVE  TraceInv'
    <2>1. CASE Stored(m)
      BY <1>1, <2>1, WorkerStep DEF StartsExtraction
    <2>2. CASE ~Stored(m)
      BY <1>1, <2>2, GraphStep DEF StartsExtraction, workerVars
    <2> QED
      BY <2>1, <2>2
  <1>2. CASE MarksExtracting(w)
    <2>1. /\ pc[w] = "marking" /\ pc' = [pc EXCEPT ![w] = "extracting"]
          /\ rows' = [rows EXCEPT ![held[w]] = "extracting"]
          /\ UNCHANGED <<held, graph>>
      BY <1>2 DEF MarksExtracting, SavesRow, At
    <2>2. held' = [held EXCEPT ![w] = held[w]] /\ held[w] \in Memories
      BY <2>1
    <2> QED
      BY <2>1, <2>2, RowSaved, WorkerStep
  <1>3. CASE MergesWithGraph(w)
    <2>1. /\ pc[w] = "extracting" /\ pc' = [pc EXCEPT ![w] = "saving"]
          /\ UNCHANGED <<rows, held, graph>>
      BY <1>3 DEF MergesWithGraph, At
    <2>2. held' = [held EXCEPT ![w] = held[w]] /\ held[w] \in Memories
      BY <2>1
    <2> QED
      BY <2>1, <2>2, WorkerStep
  <1>4. CASE SavesGraph(w)
    <2>1. /\ pc[w] = "saving" /\ pc' = [pc EXCEPT ![w] = "latest"]
          /\ UNCHANGED <<rows, held>> /\ graph' = SaveGraph(graph, held[w], draft[w])
      BY <1>4 DEF SavesGraph, At
    <2>2. held' = [held EXCEPT ![w] = held[w]] /\ held[w] \in Memories
      BY <2>1
    <2>3. Shaped(graph') /\ graph'.dialogues = graph.dialogues \cup {held[w]}
      BY <2>1, SaveAdds
    <2> QED
      BY <2>1, <2>2, <2>3, WorkerStep
  <1>5. CASE ReadsLatest(w)
    <2>1. UNCHANGED <<rows, graph>>
      BY <1>5 DEF ReadsLatest
    <2>2. CASE At(w, "latest", "completing") /\ UNCHANGED held
      <3>1. held' = [held EXCEPT ![w] = held[w]] /\ held[w] \in Memories
        BY <2>2 DEF At
      <3> QED
        BY <2>1, <2>2, <3>1, WorkerStep DEF At
    <2>3. CASE At(w, "failed", "failing") /\ UNCHANGED held
      <3>1. held' = [held EXCEPT ![w] = held[w]] /\ held[w] \in Memories
        BY <2>3 DEF At
      <3> QED
        BY <2>1, <2>3, <3>1, WorkerStep DEF At
    <2>4. CASE Ends(w)
      BY <2>1, <2>4, WorkerStep DEF Ends
    <2> QED
      BY <1>5, <2>2, <2>3, <2>4 DEF ReadsLatest
  <1>6. CASE Completes(w)
    <2>1. /\ pc[w] = "completing" /\ pc' = [pc EXCEPT ![w] = "counting"]
          /\ rows' = [rows EXCEPT ![held[w]] = "completed"]
          /\ UNCHANGED <<held, graph>>
      BY <1>6 DEF Completes, SavesRow, At
    <2>2. /\ held' = [held EXCEPT ![w] = held[w]] /\ held[w] \in Memories
          /\ held[w] \in graph.dialogues
      BY <2>1
    <2>3. /\ rows' \in [Memories -> Statuses]
          /\ \A k \in Memories : rows'[k] = "completed" =>
               rows[k] = "completed" \/ k \in graph'.dialogues
      BY <2>1, <2>2, RowSaved
    <2> QED
      BY <2>1, <2>2, <2>3, WorkerStep
  <1>7. CASE CountsEntities(w)
    <2>1. UNCHANGED <<rows, graph>> /\ pc[w] = "counting"
      BY <1>7 DEF CountsEntities
    <2>2. CASE pc' = [pc EXCEPT ![w] = "dispatching"] /\ UNCHANGED held
      <3>1. held' = [held EXCEPT ![w] = held[w]] /\ held[w] \in Memories
        BY <2>1, <2>2
      <3> QED
        BY <2>1, <2>2, <3>1, WorkerStep
    <2>3. CASE Ends(w)
      BY <2>1, <2>3, WorkerStep DEF Ends
    <2> QED
      BY <1>7, <2>2, <2>3 DEF CountsEntities
  <1>8. CASE SkipsCount(w) \/ DispatchesReflection(w) \/ DiesWorker(w)
    BY <1>8, WorkerStep DEF SkipsCount, DispatchesReflection, DiesWorker, Ends
  <1>9. CASE FailsExtraction(w)
    <2>1. /\ pc[w] # "idle" /\ pc' = [pc EXCEPT ![w] = "failed"]
          /\ UNCHANGED <<rows, held, graph>>
      BY <1>9 DEF FailsExtraction
    <2>2. held' = [held EXCEPT ![w] = held[w]] /\ held[w] \in Memories
      BY <2>1
    <2> QED
      BY <2>1, <2>2, WorkerStep
  <1>10. CASE MarksFailed(w)
    <2>1. /\ pc[w] = "failing" /\ Ends(w) /\ UNCHANGED graph
          /\ rows' = [rows EXCEPT ![held[w]] = "failed"] /\ held[w] \in Memories
      BY <1>10 DEF MarksFailed
    <2> QED
      BY <2>1, RowSaved, WorkerStep DEF Ends
  <1>11. CASE ReadsType(w)
    BY <1>11 DEF ReadsType
  <1> QED
    BY <1>1, <1>2, <1>3, <1>4, <1>5, <1>6, <1>7, <1>8, <1>9, <1>10, <1>11 DEF Extracts

\* Every step keeps the invariant.
LEMMA TraceStep ==
  ASSUME TraceInv, [MemoryNext]_memoryVars
  PROVE  TraceInv'
  <1>1. Shaped(graph) /\ rows \in [Memories -> Statuses]
    BY DEF TraceInv
  <1>2. ASSUME NEW m \in Memories, RemembersText(m) \/ ReextractsMemory(m) \/ DeletesMemory(m)
        PROVE  TraceInv'
    BY <1>1, <1>2, GraphStep DEF RemembersText, ReextractsMemory, DeletesMemory, Statuses
  <1>3. ASSUME NEW S, ReextractsMemories(S)
        PROVE  TraceInv'
    BY <1>1, <1>3, GraphStep DEF ReextractsMemories
  <1>4. ASSUME UNCHANGED <<rows, workerVars>>, SameDialogues(graph, graph')
        PROVE  TraceInv'
    BY <1>1, <1>4, GraphStep DEF SameDialogues
  <1>5. ASSUME UNCHANGED <<rows, workerVars, graph>>
        PROVE  TraceInv'
    BY <1>1, <1>5, GraphStep
  <1>6. ASSUME NEW g, SameDialogues(graph, g), Operates(g)
        PROVE  TraceInv'
    BY <1>4, <1>6 DEF Operates
  <1>7. ASSUME NEW e \in Entities, DeletesEntity(e)
        PROVE  TraceInv'
    BY <1>1, <1>6, <1>7, DialoguesStay DEF DeletesEntity
  <1>8. ASSUME NEW e \in Entities, EnhancesProfile(e)
        PROVE  TraceInv'
    BY <1>1, <1>4, <1>5, <1>8, DialoguesStay DEF EnhancesProfile
  <1>9. ASSUME NEW t \in Themes, DeletesInsight(t)
        PROVE  TraceInv'
    BY <1>1, <1>6, <1>9, DialoguesStay DEF DeletesInsight
  <1>10. ASSUME NEW hits \in SUBSET Entities, Searches(hits)
         PROVE  TraceInv'
    BY <1>1, <1>6, <1>10, DialoguesStay DEF Searches
  <1>11. CASE MergesDuplicates
    BY <1>1, <1>6, <1>11, DialoguesStay DEF MergesDuplicates
  <1>12. CASE ReadsEntities \/ EndsReflection \/ ReadsProfiles
    BY <1>5, <1>12 DEF ReadsEntities, EndsReflection, ReadsProfiles
  <1>13. CASE WritesInsight
    BY <1>1, <1>4, <1>13, DialoguesStay DEF WritesInsight
  <1>14. CASE Consolidates
    BY <1>1, <1>4, <1>14, DialoguesStay DEF Consolidates
  <1>15. CASE UNCHANGED memoryVars
    BY <1>5, <1>15 DEF memoryVars
  <1> QED
    BY <1>2, <1>3, <1>7, <1>8, <1>9, <1>10, <1>11, <1>12, <1>13, <1>14, <1>15, ExtractionStep
    DEF MemoryNext

\* A completed memory has its trace in the graph, however extractions, deletions
\* and merges overlap, fail or die.
THEOREM CompletedHasTrace == MemorySpec => []CompletedIsTraced
  <1>1. MemoryInit => TraceInv
    <2> SUFFICES ASSUME MemoryInit PROVE TraceInv
      OBVIOUS
    <2>1. Shaped(graph)
      BY InitShaped
    <2>2. /\ rows = [m \in Memories |-> "none"] /\ pc = [w \in Workers |-> "idle"]
          /\ held = [w \in Workers |-> NoMemory]
      BY DEF MemoryInit
    <2> QED
      BY <2>1, <2>2 DEF TraceInv, WorkersTyped, Steps, Statuses
  <1>2. TraceInv /\ [MemoryNext]_memoryVars => TraceInv'
    BY TraceStep
  <1>3. TraceInv => CompletedIsTraced
    BY DEF TraceInv, CompletedIsTraced, MemoryTrace
  <1> QED
    BY <1>1, <1>2, <1>3, PTL DEF MemorySpec
-----------------------------------------------------------------------------
(* Reflections.                                                            *)

\* The workers that have dropped a full count and not yet dispatched.
Dispatching == {w \in Workers : pc[w] = "dispatching"}

DraftsTyped ==
  /\ DOMAIN draft = Workers /\ draft = [w \in Workers |-> draft[w]]
  /\ \A w \in Workers : draft[w].entities \in SUBSET Entities

\* Every full count that was dropped was of as many entities as the threshold says.
CountInv ==
  /\ WorkersTyped /\ DraftsTyped
  /\ counter \in Nat /\ total \in Nat /\ reflected \in Nat
  /\ counter < Threshold
  /\ (reflected + Cardinality(Dispatching)) * Threshold + counter <= total

\* Only so many workers dispatch.
LEMMA DispatchingFinite ==
  /\ IsFiniteSet(Dispatching) /\ Cardinality(Dispatching) \in Nat
  /\ \A S \in SUBSET Dispatching :
       IsFiniteSet(S) /\ Cardinality(S) \in Nat /\ Cardinality(S) <= Cardinality(Dispatching)
  <1>1. IsFiniteSet(Dispatching)
    BY FiniteAssumption, FS_Subset DEF FiniteAssumption, Dispatching
  <1> QED
    BY <1>1, FS_Subset, FS_CardinalityType

\* A step after which no more workers dispatch, and that counts nothing, keeps the
\* invariant.
LEMMA NoCount ==
  ASSUME CountInv, WorkersTyped', DraftsTyped', UNCHANGED <<counter, total, reflected>>,
         Dispatching' \subseteq Dispatching
  PROVE  CountInv'
  <1> DEFINE n == Cardinality(Dispatching)
             k == Cardinality(Dispatching')
  <1>1. n \in Nat /\ k \in Nat /\ k <= n
    BY DispatchingFinite
  <1>2. Threshold \in Nat /\ reflected \in Nat /\ total \in Nat /\ counter \in Nat
    BY JobAssumption DEF JobAssumption, CountInv
  <1>3. (reflected + n) * Threshold + counter <= total
    BY DEF CountInv
  <1> HIDE DEF n, k
  <1>4. (reflected + k) * Threshold <= (reflected + n) * Threshold
    BY <1>1, <1>2
  <1>5. (reflected + k) * Threshold + counter <= total
    BY <1>1, <1>2, <1>3, <1>4
  <1> QED
    BY <1>5 DEF CountInv, k

\* What a worker writes down of itself.
LEMMA OneWorker ==
  ASSUME WorkersTyped, DraftsTyped, NEW w \in Workers, NEW to \in Steps,
         NEW m \in Memories \cup {NoMemory}, NEW d, d.entities \in SUBSET Entities,
         to # "idle" => m \in Memories,
         pc' = [pc EXCEPT ![w] = to], held' = [held EXCEPT ![w] = m],
         draft' = [draft EXCEPT ![w] = d]
  PROVE  /\ WorkersTyped' /\ DraftsTyped'
         /\ to # "dispatching" => Dispatching' = Dispatching \ {w}
         /\ to = "dispatching" => Dispatching' = Dispatching \cup {w}
  <1>1. WorkersTyped'
    BY DEF WorkersTyped
  <1>2. /\ DOMAIN draft' = Workers /\ draft' = [v \in Workers |-> draft'[v]]
        /\ draft'[w] = d /\ \A v \in Workers \ {w} : draft'[v] = draft[v]
    BY DEF DraftsTyped
  <1>3. DraftsTyped'
    BY <1>2 DEF DraftsTyped
  <1>4. pc'[w] = to /\ \A v \in Workers \ {w} : pc'[v] = pc[v]
    BY DEF WorkersTyped
  <1> QED
    BY <1>1, <1>3, <1>4 DEF Dispatching

\* Entities of no draft, and of what is left of one.
LEMMA DraftsLeft ==
  /\ NoDraft.entities = {}
  /\ \A S : [NoDraft EXCEPT !.entities = S].entities = S
  BY DEF NoDraft

\* A worker that ends its job.
LEMMA EndsTyped ==
  ASSUME WorkersTyped, DraftsTyped, NEW w \in Workers, Ends(w)
  PROVE  WorkersTyped' /\ DraftsTyped' /\ Dispatching' = Dispatching \ {w}
  <1>1. NoDraft.entities \in SUBSET Entities
    BY DraftsLeft
  <1> QED
    BY <1>1, OneWorker DEF Ends, Steps

\* A worker that goes on, and not to dispatching, with its memory or another.
LEMMA GoesOnTyped ==
  ASSUME WorkersTyped, DraftsTyped, NEW w \in Workers, NEW to \in Steps \ {"dispatching"},
         pc' = [pc EXCEPT ![w] = to], to # "idle" => held'[w] \in Memories,
         \E m \in Memories \cup {NoMemory} : held' = [held EXCEPT ![w] = m],
         UNCHANGED draft \/ \E d : draft' = [draft EXCEPT ![w] = d] /\ d.entities \in SUBSET Entities
  PROVE  WorkersTyped' /\ DraftsTyped' /\ Dispatching' \subseteq Dispatching
  <1>1. PICK m \in Memories \cup {NoMemory} : held' = [held EXCEPT ![w] = m]
    OBVIOUS
  <1>2. held'[w] = m
    BY <1>1 DEF WorkersTyped
  <1>3. PICK d : draft' = [draft EXCEPT ![w] = d] /\ d.entities \in SUBSET Entities
    <2>1. CASE UNCHANGED draft
      <3>1. draft' = [draft EXCEPT ![w] = draft[w]] /\ draft[w].entities \in SUBSET Entities
        BY <2>1 DEF DraftsTyped
      <3> QED
        BY <3>1
    <2> QED
      BY <2>1
  <1>4. to \in Steps /\ to # "dispatching" /\ (to # "idle" => m \in Memories)
    BY <1>2
  <1>5. WorkersTyped' /\ DraftsTyped' /\ Dispatching' = Dispatching \ {w}
    BY <1>1, <1>3, <1>4, OneWorker
  <1> QED
    BY <1>5
\* The script counts the entities of a draft, and drops a full count.
LEMMA CountStep ==
  ASSUME CountInv, NEW w \in Workers, CountsEntities(w)
  PROVE  CountInv'
  <1> DEFINE n == Cardinality(draft[w].entities)
             k == Cardinality(Dispatching)
  <1>1. n \in Nat /\ k \in Nat
    BY FiniteAssumption, FS_Subset, FS_CardinalityType, DispatchingFinite
    DEF FiniteAssumption, CountInv, DraftsTyped
  <1>2. /\ Threshold \in Nat /\ Threshold > 0
        /\ reflected \in Nat /\ total \in Nat /\ counter \in Nat
        /\ (reflected + k) * Threshold + counter <= total
    BY JobAssumption DEF JobAssumption, CountInv
  <1>3. /\ pc[w] = "counting" /\ n > 0 /\ total' = total + n /\ UNCHANGED reflected
    BY DEF CountsEntities
  <1>4. CASE /\ counter + n >= Threshold /\ counter' = 0
             /\ pc' = [pc EXCEPT ![w] = "dispatching"] /\ UNCHANGED <<held, draft>>
    <2>1. /\ held' = [held EXCEPT ![w] = held[w]] /\ held[w] \in Memories
          /\ draft' = [draft EXCEPT ![w] = draft[w]] /\ draft[w].entities \in SUBSET Entities
      BY <1>3, <1>4 DEF CountInv, WorkersTyped, DraftsTyped
    <2>2. WorkersTyped' /\ DraftsTyped' /\ Dispatching' = Dispatching \cup {w}
      BY <1>4, <2>1, OneWorker DEF CountInv, Steps
    <2>3. w \notin Dispatching
      BY <1>3 DEF Dispatching
    <2>4. Cardinality(Dispatching') = k + 1
      BY <2>2, <2>3, DispatchingFinite, FS_AddElement
    <2> HIDE DEF n, k
    <2>5. (reflected + (k + 1)) * Threshold = (reflected + k) * Threshold + Threshold
      BY <1>1, <1>2
    <2>6. (reflected + k) * Threshold \in Nat
      BY <1>1, <1>2
    <2>7. (reflected + (k + 1)) * Threshold + 0 <= total + n
      BY <1>1, <1>2, <1>4, <2>5, <2>6
    <2> QED
      BY <1>1, <1>2, <1>3, <1>4, <2>2, <2>4, <2>7 DEF CountInv
  <1>5. CASE counter + n < Threshold /\ counter' = counter + n /\ Ends(w)
    <2>1. WorkersTyped' /\ DraftsTyped' /\ Dispatching' = Dispatching \ {w}
      BY <1>5, EndsTyped DEF CountInv
    <2>2. Dispatching' = Dispatching
      BY <1>3, <2>1 DEF Dispatching
    <2>3. (reflected + k) * Threshold \in Nat
      BY <1>1, <1>2
    <2> HIDE DEF n
    <2>4. (reflected + k) * Threshold + (counter + n) <= total + n
      BY <1>1, <1>2, <2>3
    <2>5. /\ counter' = counter + n /\ total' = total + n /\ reflected' = reflected
          /\ Cardinality(Dispatching') = k
      BY <1>3, <1>5, <2>2
    <2> HIDE DEF k
    <2>6. /\ counter' \in Nat /\ total' \in Nat /\ reflected' \in Nat /\ counter' < Threshold
          /\ (reflected' + Cardinality(Dispatching')) * Threshold + counter' <= total'
      BY <1>1, <1>2, <1>5, <2>4, <2>5
    <2> QED
      BY <2>1, <2>6 DEF CountInv
  <1>6. counter + n >= Threshold \/ counter + n < Threshold
    BY <1>1, <1>2
  <1> QED
    BY <1>4, <1>5, <1>6 DEF CountsEntities

\* A dispatch that the broker takes, or not, uses up one full count.
LEMMA DispatchStep ==
  ASSUME CountInv, NEW w \in Workers, DispatchesReflection(w)
  PROVE  CountInv'
  <1> DEFINE k == Cardinality(Dispatching)
  <1>1. WorkersTyped' /\ DraftsTyped' /\ Dispatching' = Dispatching \ {w}
    BY EndsTyped DEF DispatchesReflection, CountInv
  <1>2. CASE UNCHANGED reflected
    BY <1>1, <1>2, NoCount DEF DispatchesReflection
  <1>3. CASE reflected' = reflected + 1
    <2>1. w \in Dispatching
      BY DEF DispatchesReflection, Dispatching
    <2>2. Cardinality(Dispatching') = k - 1
      BY <1>1, <2>1, DispatchingFinite, FS_RemoveElement
    <2>3. k \in Nat
      BY DispatchingFinite
    <2>4. reflected \in Nat /\ UNCHANGED <<counter, total>>
      BY DEF DispatchesReflection, CountInv
    <2>5. reflected' + Cardinality(Dispatching') = reflected + k
      BY <1>3, <2>2, <2>3, <2>4
    <2> QED
      BY <1>1, <1>3, <2>4, <2>5 DEF CountInv
  <1> QED
    BY <1>2, <1>3 DEF DispatchesReflection

\* Every other step of an extraction job keeps the invariant.
LEMMA CountedExtraction ==
  ASSUME CountInv, NEW w \in Workers, Extracts(w)
  PROVE  CountInv'
  <1>1. WorkersTyped /\ DraftsTyped
    BY DEF CountInv
  <1>3. ASSUME NEW to \in Steps \ {"dispatching"},
               pc' = [pc EXCEPT ![w] = to], to # "idle" => held'[w] \in Memories,
               \E m \in Memories \cup {NoMemory} : held' = [held EXCEPT ![w] = m],
               \/ UNCHANGED draft
               \/ \E d : draft' = [draft EXCEPT ![w] = d] /\ d.entities \in SUBSET Entities,
               UNCHANGED countVars
        PROVE  CountInv'
    BY <1>1, <1>3, GoesOnTyped, NoCount DEF countVars
  <1>4. ASSUME NEW to \in Steps \ {"dispatching"}, pc[w] # "idle",
               pc' = [pc EXCEPT ![w] = to], UNCHANGED <<held, countVars>>,
               \/ UNCHANGED draft
               \/ \E d : draft' = [draft EXCEPT ![w] = d] /\ d.entities \in SUBSET Entities
        PROVE  CountInv'
    <2>1. held' = [held EXCEPT ![w] = held[w]] /\ held'[w] \in Memories
      BY <1>1, <1>4 DEF WorkersTyped
    <2> QED
      BY <1>3, <1>4, <2>1
  <1>5. ASSUME Ends(w), UNCHANGED <<counter, total, reflected>>
        PROVE  CountInv'
    BY <1>1, <1>5, EndsTyped, NoCount
  <1>6. ASSUME NEW m \in Memories, StartsExtraction(w, m)
        PROVE  CountInv'
    <2>1. CASE Stored(m)
      <3>1. /\ pc' = [pc EXCEPT ![w] = "marking"] /\ held' = [held EXCEPT ![w] = m]
            /\ UNCHANGED <<draft, countVars>>
        BY <1>6, <2>1 DEF StartsExtraction
      <3>2. held'[w] = m
        BY <1>1, <3>1 DEF WorkersTyped
      <3> QED
        BY <1>3, <3>1, <3>2 DEF Steps
    <2>2. CASE ~Stored(m)
      BY <1>1, <1>6, <2>2, NoCount
      DEF StartsExtraction, countVars, WorkersTyped, DraftsTyped, Dispatching
    <2> QED
      BY <2>1, <2>2
  <1>7. CASE MarksExtracting(w) \/ Completes(w)
    BY <1>4, <1>7 DEF MarksExtracting, Completes, SavesRow, At, Steps
  <1>8. CASE MergesWithGraph(w)
    <2>1. PICK x \in Extractions : \E c \in DedupBatch(x.names) :
            \E p \in MergeWithGraph(readings[w], {c[n] : n \in x.names}) :
              draft' = [draft EXCEPT ![w] = BuildGraph(readings[w], held[w], x, c, p)]
      BY <1>8 DEF MergesWithGraph
    <2>2. PICK c \in DedupBatch(x.names) :
            \E p \in MergeWithGraph(readings[w], {c[n] : n \in x.names}) :
              draft' = [draft EXCEPT ![w] = BuildGraph(readings[w], held[w], x, c, p)]
      BY <2>1
    <2>3. PICK p \in MergeWithGraph(readings[w], {c[n] : n \in x.names}) :
            draft' = [draft EXCEPT ![w] = BuildGraph(readings[w], held[w], x, c, p)]
      BY <2>2
    <2>4. BuildGraph(readings[w], held[w], x, c, p).entities \in SUBSET Entities
      BY DraftEntities
    <2> QED
      BY <1>4, <1>8, <2>3, <2>4 DEF MergesWithGraph, At, Steps
  <1>9. CASE SavesGraph(w)
    <2>1. [NoDraft EXCEPT !.entities = draft[w].entities].entities \in SUBSET Entities
      BY <1>1, DraftsLeft DEF DraftsTyped
    <2> QED
      BY <1>4, <1>9, <2>1 DEF SavesGraph, At, Steps
  <1>10. CASE ReadsLatest(w)
    <2>1. CASE Ends(w)
      BY <1>5, <1>10, <2>1 DEF ReadsLatest, countVars
    <2>2. CASE (At(w, "latest", "completing") \/ At(w, "failed", "failing"))
               /\ UNCHANGED <<held, draft>>
      BY <1>4, <1>10, <2>2 DEF ReadsLatest, At, Steps
    <2> QED
      BY <1>10, <2>1, <2>2 DEF ReadsLatest
  <1>11. CASE SkipsCount(w) \/ MarksFailed(w) \/ DiesWorker(w)
    BY <1>5, <1>11 DEF SkipsCount, MarksFailed, DiesWorker, countVars
  <1>12. CASE FailsExtraction(w)
    <2>1. NoDraft.entities \in SUBSET Entities
      BY DraftsLeft
    <2>2. /\ pc[w] # "idle" /\ pc' = [pc EXCEPT ![w] = "failed"]
          /\ draft' = [draft EXCEPT ![w] = NoDraft] /\ UNCHANGED <<held, countVars>>
      BY <1>12 DEF FailsExtraction
    <2> QED
      BY <1>4, <2>1, <2>2 DEF Steps
  <1>13. CASE ReadsType(w)
    BY <1>13 DEF ReadsType, CountInv, WorkersTyped, DraftsTyped, Dispatching, countVars
  <1> QED
    BY <1>6, <1>7, <1>8, <1>9, <1>10, <1>11, <1>12, <1>13, CountStep, DispatchStep DEF Extracts

\* The invariant holds of every behaviour.
LEMMA Counted == MemorySpec => []CountInv
  <1>1. MemoryInit => CountInv
    <2> SUFFICES ASSUME MemoryInit PROVE CountInv
      OBVIOUS
    <2>1. /\ pc = [w \in Workers |-> "idle"] /\ held = [w \in Workers |-> NoMemory]
          /\ draft = [w \in Workers |-> NoDraft]
          /\ counter = 0 /\ total = 0 /\ reflected = 0
      BY DEF MemoryInit
    <2>2. WorkersTyped /\ Dispatching = {}
      BY <2>1 DEF WorkersTyped, Steps, Dispatching
    <2>3. DraftsTyped
      BY <2>1, DraftsLeft DEF DraftsTyped
    <2>4. Cardinality(Dispatching) = 0
      BY <2>2, FS_EmptySet
    <2> QED
      BY <2>1, <2>2, <2>3, <2>4, JobAssumption DEF CountInv, JobAssumption
  <1>2. CountInv /\ [MemoryNext]_memoryVars => CountInv'
    <2> SUFFICES ASSUME CountInv, [MemoryNext]_memoryVars
                 PROVE  CountInv'
      OBVIOUS
    <2>1. ASSUME UNCHANGED <<workerVars, counter, total, reflected>>
          PROVE  CountInv'
      BY <2>1 DEF CountInv, WorkersTyped, DraftsTyped, Dispatching, workerVars
    <2>2. ASSUME NEW g, Operates(g) PROVE CountInv'
      BY <2>1, <2>2 DEF Operates, countVars
    <2>3. ASSUME NEW m \in Memories, RemembersText(m) \/ ReextractsMemory(m) \/ DeletesMemory(m)
          PROVE  CountInv'
      BY <2>1, <2>3 DEF RemembersText, ReextractsMemory, DeletesMemory, countVars
    <2>4. ASSUME NEW S, ReextractsMemories(S) PROVE CountInv'
      BY <2>1, <2>4 DEF ReextractsMemories, countVars
    <2>5. ASSUME NEW e \in Entities, DeletesEntity(e) \/ EnhancesProfile(e) PROVE CountInv'
      BY <2>1, <2>2, <2>5 DEF DeletesEntity, EnhancesProfile, countVars
    <2>6. ASSUME NEW t \in Themes, DeletesInsight(t) PROVE CountInv'
      BY <2>2, <2>6 DEF DeletesInsight
    <2>7. ASSUME NEW hits \in SUBSET Entities, Searches(hits) PROVE CountInv'
      BY <2>2, <2>7 DEF Searches
    <2>8. CASE MergesDuplicates
      BY <2>2, <2>8 DEF MergesDuplicates
    <2>9. CASE ReadsEntities \/ WritesInsight \/ EndsReflection \/ Consolidates \/ ReadsProfiles
      BY <2>1, <2>9
      DEF ReadsEntities, WritesInsight, EndsReflection, Consolidates, ReadsProfiles, countVars
    <2>10. CASE UNCHANGED memoryVars
      BY <2>1, <2>10 DEF memoryVars, countVars
    <2> QED
      BY <2>3, <2>4, <2>5, <2>6, <2>7, <2>8, <2>9, <2>10, CountedExtraction DEF MemoryNext
  <1> QED
    BY <1>1, <1>2, PTL DEF MemorySpec

\* No reflection is dispatched that the threshold did not earn, whatever order
\* workers count in and whichever of them die.
THEOREM EarnedReflections == MemorySpec => []ReflectionsAreEarned
  <1>1. CountInv => ReflectionsAreEarned
    <2> SUFFICES ASSUME CountInv PROVE ReflectionsAreEarned
      OBVIOUS
    <2> DEFINE k == Cardinality(Dispatching)
    <2>1. /\ k \in Nat /\ Threshold \in Nat /\ reflected \in Nat /\ counter \in Nat /\ total \in Nat
          /\ (reflected + k) * Threshold + counter <= total /\ counter < Threshold
      BY DispatchingFinite, JobAssumption DEF CountInv, JobAssumption
    <2> HIDE DEF k
    <2>2. reflected * Threshold <= (reflected + k) * Threshold
      BY <2>1
    <2>3. reflected * Threshold \in Nat /\ (reflected + k) * Threshold \in Nat
      BY <2>1
    <2>4. reflected * Threshold + counter <= total
      BY <2>1, <2>2, <2>3
    <2> QED
      BY <2>1, <2>4 DEF ReflectionsAreEarned
  <1> QED
    BY <1>1, Counted, PTL

-----------------------------------------------------------------------------
(* The sources of insights.                                                *)

SourcesOf(g, t) == {x \in g.derived : x[1] = t}

\* The edges at an insight are finitely many, and no more than it states.
Sourced(g) ==
  /\ Shaped(g)
  /\ g.nodes \subseteq Entities
  /\ DOMAIN g.sourceCount = Themes
  /\ \A t \in Themes : /\ g.sourceCount[t] \in Nat /\ IsFiniteSet(SourcesOf(g, t))
                       /\ Cardinality(SourcesOf(g, t)) <= g.sourceCount[t]

SourceInv == Sourced(graph) /\ reflecting.sources \subseteq Entities

\* An insight may lose sources, and the graph may get entities.
LEMMA SourcesShrink ==
  ASSUME NEW g, NEW h, Sourced(g), Shaped(h), h.nodes \subseteq Entities,
         h.derived \subseteq g.derived, h.sourceCount = g.sourceCount
  PROVE  Sourced(h)
  <1> SUFFICES ASSUME NEW t \in Themes
               PROVE  /\ IsFiniteSet(SourcesOf(h, t))
                      /\ Cardinality(SourcesOf(h, t)) <= h.sourceCount[t]
    BY DEF Sourced
  <1>1. SourcesOf(h, t) \subseteq SourcesOf(g, t)
    BY DEF SourcesOf
  <1>2. /\ IsFiniteSet(SourcesOf(g, t)) /\ g.sourceCount[t] \in Nat
        /\ Cardinality(SourcesOf(g, t)) <= g.sourceCount[t]
    BY DEF Sourced
  <1>3. /\ IsFiniteSet(SourcesOf(h, t))
        /\ Cardinality(SourcesOf(h, t)) <= Cardinality(SourcesOf(g, t))
    BY <1>1, <1>2, FS_Subset
  <1>4. Cardinality(SourcesOf(h, t)) \in Nat /\ Cardinality(SourcesOf(g, t)) \in Nat
    BY <1>2, <1>3, FS_CardinalityType
  <1> QED
    BY <1>2, <1>3, <1>4

\* The methods that write no insight.
LEMMA OthersShrink ==
  ASSUME NEW g, Sourced(g)
  PROVE  /\ \A e : Sourced(DeleteEntity(g, e))
         /\ \A k : Sourced(MergeDuplicateEntities(g, k))
         /\ \A ids : Sourced(BumpEntityAccess(g, ids))
         /\ \A old : Sourced(PromoteShortToLong(g, old))
         /\ \A e, f : Sourced(WriteEntityProfile(g, e, f))
         /\ \A m, d : d.entities \subseteq Entities => Sourced(SaveGraph(g, m, d))
  <1> DEFINE Shrinks(h) == /\ Shaped(h) /\ h.nodes \subseteq Entities
                           /\ h.derived \subseteq g.derived /\ h.sourceCount = g.sourceCount
  <1>0. Shaped(g) /\ g.nodes \subseteq Entities
    BY DEF Sourced
  <1>1. \A gone : Shrinks(Detached(g, gone))
    BY <1>0 DEF Detached, Shaped
  <1>2. \A e : Shrinks(DeleteEntity(g, e))
    BY <1>1 DEF DeleteEntity
  <1>3. ASSUME NEW k PROVE Shrinks(MergeDuplicateEntities(g, k))
    <2>1. PICK gone : TRUE /\ gone = {e \in g.nodes : k[e] # e}
      OBVIOUS
    <2> DEFINE h == Detached(g, gone)
    <2>2. Shrinks(h)
      BY <1>1
    <2> HIDE DEF h
    <2> QED
      BY <2>1, <2>2 DEF MergeDuplicateEntities, h, Shaped
  <1>4. \A ids : Shrinks(BumpEntityAccess(g, ids))
    BY <1>0 DEF BumpEntityAccess, Shaped
  <1>5. \A old : Shrinks(PromoteShortToLong(g, old))
    BY <1>0 DEF PromoteShortToLong, Shaped
  <1>6. \A e, f : Shrinks(WriteEntityProfile(g, e, f))
    BY <1>0 DEF WriteEntityProfile, Shaped
  <1>7. ASSUME NEW m, NEW d, d.entities \subseteq Entities
        PROVE  Shrinks(SaveGraph(g, m, d))
    <2> DEFINE h == SaveGraph(g, m, d)
    <2>1. Shaped(h)
      BY <1>0, SaveAdds
    <2>2. h.derived = g.derived
      BY <1>0 DEF SaveGraph, Shaped
    <2>3. h.sourceCount = g.sourceCount
      BY <1>0 DEF SaveGraph, Shaped
    <2>4. h.nodes \subseteq Entities
      BY <1>0, <1>7 DEF SaveGraph, Shaped
    <2> QED
      BY <2>1, <2>2, <2>3, <2>4
  <1>8. \A h : Shrinks(h) => Sourced(h)
    BY SourcesShrink
  <1> HIDE DEF Shrinks
  <1> QED
    BY <1>2, <1>3, <1>4, <1>5, <1>6, <1>7, <1>8

\* Writing an insight replaces its sources by no more than are counted, and
\* deleting one leaves it none.
LEMMA InsightsSourced ==
  ASSUME NEW g, Sourced(g), NEW t \in Themes, NEW ids \in SUBSET Entities
  PROVE  Sourced(UpsertInsight(g, t, ids, Cardinality(ids))) /\ Sourced(DeleteInsight(g, t))
  <1> DEFINE h == UpsertInsight(g, t, ids, Cardinality(ids))
             l == DeleteInsight(g, t)
             kept == ids \cap g.nodes
             f == [e \in kept |-> <<t, e>>]
             edges == {<<t, e>> : e \in kept}
  <1>1. /\ Shaped(g) /\ g.nodes \subseteq Entities /\ DOMAIN g.sourceCount = Themes
        /\ \A u \in Themes : /\ g.sourceCount[u] \in Nat /\ IsFiniteSet(SourcesOf(g, u))
                             /\ Cardinality(SourcesOf(g, u)) <= g.sourceCount[u]
    BY DEF Sourced
  <1>2. /\ IsFiniteSet(ids) /\ IsFiniteSet(kept) /\ Cardinality(kept) <= Cardinality(ids)
        /\ Cardinality(ids) \in Nat /\ Cardinality(kept) \in Nat
    BY FiniteAssumption, FS_Subset, FS_CardinalityType DEF FiniteAssumption
  <1>3. f \in Surjection(kept, edges)
    BY DEF Surjection
  <1>4. IsFiniteSet(edges) /\ Cardinality(edges) <= Cardinality(ids)
    <2>1. IsFiniteSet(edges) /\ Cardinality(edges) <= Cardinality(kept)
      BY <1>2, <1>3, FS_Surjection
    <2> QED
      BY <1>2, <2>1, FS_CardinalityType
  <1>5. /\ Shaped(h) /\ h.nodes = g.nodes
        /\ h.sourceCount = [g.sourceCount EXCEPT ![t] = Cardinality(ids)]
        /\ h.derived = {x \in g.derived : x[1] # t} \cup edges
    BY <1>1 DEF UpsertInsight, Shaped
  <1>6. /\ Shaped(l) /\ l.nodes = g.nodes /\ l.sourceCount = [g.sourceCount EXCEPT ![t] = 0]
        /\ l.derived = {x \in g.derived : x[1] # t}
    BY <1>1 DEF DeleteInsight, Shaped
  <1> HIDE DEF h, l
  <1>7. /\ SourcesOf(h, t) = edges /\ SourcesOf(l, t) = {}
        /\ \A u \in Themes \ {t} : /\ SourcesOf(h, u) = SourcesOf(g, u)
                                   /\ SourcesOf(l, u) = SourcesOf(g, u)
    BY <1>5, <1>6 DEF SourcesOf
  <1>8. Sourced(h)
    BY <1>1, <1>2, <1>4, <1>5, <1>7 DEF Sourced
  <1>9. Sourced(l)
    <2>1. DOMAIN l.sourceCount = Themes
      BY <1>1, <1>6
    <2>2. IsFiniteSet(SourcesOf(l, t)) /\ Cardinality(SourcesOf(l, t)) = 0
      BY <1>7, FS_EmptySet
    <2>3. l.sourceCount[t] = 0 /\ \A u \in Themes \ {t} : l.sourceCount[u] = g.sourceCount[u]
      BY <1>1, <1>6
    <2>4. \A u \in Themes : /\ l.sourceCount[u] \in Nat /\ IsFiniteSet(SourcesOf(l, u))
                            /\ Cardinality(SourcesOf(l, u)) <= l.sourceCount[u]
      BY <1>1, <1>7, <2>2, <2>3
    <2> QED
      BY <1>1, <1>6, <2>1, <2>4 DEF Sourced
  <1> QED
    BY <1>8, <1>9 DEF h, l

\* Every step of an extraction job keeps the insights.
LEMMA SourcedExtraction ==
  ASSUME SourceInv, CountInv, NEW w \in Workers, Extracts(w)
  PROVE  SourceInv'
  <1>1. reflecting' = reflecting
    BY DEF Extracts, StartsExtraction, MarksExtracting, ReadsType, MergesWithGraph, SavesGraph,
           ReadsLatest,
           Completes, CountsEntities, SkipsCount, DispatchesReflection, FailsExtraction,
           MarksFailed, DiesWorker, SavesRow, jobVars
  <1>2. CASE SavesGraph(w)
    <2>1. draft[w].entities \subseteq Entities
      BY DEF CountInv, DraftsTyped
    <2>2. Sourced(graph')
      BY <1>2, <2>1, OthersShrink DEF SavesGraph, SourceInv
    <2> QED
      BY <1>1, <2>2 DEF SourceInv
  <1>3. CASE ~SavesGraph(w)
    <2>1. graph' = graph
      BY <1>3 DEF Extracts, StartsExtraction, MarksExtracting, ReadsType, MergesWithGraph, ReadsLatest,
             Completes, CountsEntities, SkipsCount, DispatchesReflection, FailsExtraction,
             MarksFailed, DiesWorker, SavesRow
    <2> QED
      BY <1>1, <2>1 DEF SourceInv
  <1> QED
    BY <1>2, <1>3

\* The invariant holds of every behaviour.
LEMMA Sources == MemorySpec => []SourceInv
  <1>1. MemoryInit => SourceInv
    <2> SUFFICES ASSUME MemoryInit PROVE SourceInv
      OBVIOUS
    <2>1. /\ Shaped(graph) /\ graph.nodes \subseteq Entities /\ graph.derived = {}
          /\ graph.sourceCount = [t \in Themes |-> 0] /\ reflecting.sources = {}
      BY JobAssumption DEF MemoryInit, EmptyGraph, Shaped, Idle, JobAssumption
    <2>2. \A t : SourcesOf(graph, t) = {}
      BY <2>1 DEF SourcesOf
    <2> QED
      BY <2>1, <2>2, FS_EmptySet DEF SourceInv, Sourced
  <1>2. SourceInv /\ CountInv /\ [MemoryNext]_memoryVars => SourceInv'
    <2> SUFFICES ASSUME SourceInv, CountInv, [MemoryNext]_memoryVars
                 PROVE  SourceInv'
      OBVIOUS
    <2>1. ASSUME UNCHANGED <<graph, reflecting>> PROVE SourceInv'
      BY <2>1 DEF SourceInv
    <2>2. ASSUME NEW g, Sourced(g), Operates(g) PROVE SourceInv'
      BY <2>2 DEF Operates, SourceInv, jobVars
    <2>3. Sourced(graph) /\ graph.nodes \subseteq Entities
      BY DEF SourceInv, Sourced
    <2>4. ASSUME NEW m \in Memories, RemembersText(m) \/ ReextractsMemory(m) \/ DeletesMemory(m)
          PROVE  SourceInv'
      BY <2>1, <2>4 DEF RemembersText, ReextractsMemory, DeletesMemory, jobVars
    <2>5. ASSUME NEW S, ReextractsMemories(S) PROVE SourceInv'
      BY <2>1, <2>5 DEF ReextractsMemories, jobVars
    <2>6. ASSUME NEW e \in Entities, DeletesEntity(e) PROVE SourceInv'
      BY <2>2, <2>3, <2>6, OthersShrink DEF DeletesEntity
    <2>7. ASSUME NEW e \in Entities, EnhancesProfile(e) PROVE SourceInv'
      <3>1. Sourced(graph') /\ UNCHANGED reflecting
        BY <2>3, <2>7, OthersShrink DEF EnhancesProfile
      <3> QED
        BY <3>1 DEF SourceInv
    <2>8. ASSUME NEW t \in Themes, DeletesInsight(t) PROVE SourceInv'
      BY <2>2, <2>3, <2>8, InsightsSourced DEF DeletesInsight
    <2>9. ASSUME NEW hits \in SUBSET Entities, Searches(hits) PROVE SourceInv'
      BY <2>2, <2>3, <2>9, OthersShrink DEF Searches
    <2>10. CASE MergesDuplicates
      BY <2>2, <2>3, <2>10, OthersShrink DEF MergesDuplicates
    <2>11. CASE ReadsEntities
      <3>1. UNCHANGED graph /\ reflecting'.sources \subseteq Entities
        BY <2>3, <2>11 DEF ReadsEntities, TopLongTermEntities, Idle
      <3> QED
        BY <3>1 DEF SourceInv
    <2>12. CASE WritesInsight
      <3>1. UNCHANGED reflecting
        BY <2>12 DEF WritesInsight, jobVars
      <3>2. PICK t \in Themes : \E ids \in SUBSET reflecting.sources :
              graph' = UpsertInsight(graph, t, ids, Cardinality(ids))
        BY <2>12 DEF WritesInsight
      <3>3. PICK ids \in SUBSET reflecting.sources :
              graph' = UpsertInsight(graph, t, ids, Cardinality(ids))
        BY <3>2
      <3>4. ids \in SUBSET Entities
        BY DEF SourceInv
      <3>5. Sourced(graph')
        BY <2>3, <3>3, <3>4, InsightsSourced
      <3> QED
        BY <3>1, <3>5 DEF SourceInv
    <2>13. CASE EndsReflection
      BY <2>13 DEF EndsReflection, SourceInv, Idle
    <2>14. CASE Consolidates
      <3>1. Sourced(graph') /\ UNCHANGED reflecting
        BY <2>3, <2>14, OthersShrink DEF Consolidates
      <3> QED
        BY <3>1 DEF SourceInv
    <2>15. CASE UNCHANGED memoryVars
      BY <2>1, <2>15 DEF memoryVars, jobVars
    <2>16. CASE ReadsProfiles
      BY <2>1, <2>16 DEF ReadsProfiles
    <2> QED
      BY <2>4, <2>5, <2>6, <2>7, <2>8, <2>9, <2>10, <2>11, <2>12, <2>13, <2>14, <2>15, <2>16,
         SourcedExtraction DEF MemoryNext
  <1> QED
    BY <1>1, <1>2, Counted, PTL DEF MemorySpec

\* The sources of an insight are never more than it states, whatever becomes of
\* its entities while the model thinks about them and afterwards.
THEOREM SourcesCounted == MemorySpec => []InsightSourcesCounted
  <1>1. SourceInv => InsightSourcesCounted
    BY DEF SourceInv, Sourced, SourcesOf, InsightSourcesCounted
  <1> QED
    BY <1>1, Sources, PTL
-----------------------------------------------------------------------------
(* Long-term entities and traces.                                          *)

Edges(g) == g.mentions \cup g.involves

\* Layers and edges are of entities that are there.
Whole(g) ==
  /\ {"dialogues", "statements", "nodes", "mentions", "involves", "longEntities"} \subseteq DOMAIN g
  /\ g.longEntities \subseteq g.nodes
  /\ \A x \in Edges(g) : x = <<x[1], x[2]>> /\ x[2] \in g.nodes

\* A draft brings with it every entity that it speaks of.
WholeDraft(d) ==
  /\ d.long \subseteq d.entities
  /\ d.stated = {} => d.entities = {}
  /\ \A x \in Edges(d) : x = <<x[1], x[2]>> /\ x[2] \in d.entities

WholeInv ==
  /\ Whole(graph)
  /\ \A w \in Workers : pc[w] = "saving" => WholeDraft(draft[w])

\* What an extraction makes of a text is whole.
LEMMA BuiltWhole ==
  ASSUME NEW g, NEW m, NEW x \in Extractions, NEW c \in DedupBatch(x.names),
         NEW p \in MergeWithGraph(g, {c[n] : n \in x.names})
  PROVE  WholeDraft(BuildGraph(g, m, x, c, p))
  <1> DEFINE d == BuildGraph(g, m, x, c, p)
  <1>1. c \in [x.names -> x.names] /\ \A n \in x.names : c[c[n]] = c[n]
    BY DEF DedupBatch
  <1>2. p \in [{c[n] : n \in x.names} -> Entities]
    BY DEF MergeWithGraph
  <1>3. /\ ~x.stated => x.names = {}
        /\ x.triplets \subseteq x.names \X x.names /\ UNION x.events \subseteq x.names
    BY ExtractionAssumption DEF ExtractionAssumption
  <1>4. d.entities = {p[c[n]] : n \in x.names}
    BY DEF BuildGraph
  <1>5. d.stated = (IF x.stated THEN {m} ELSE {})
    BY DEF BuildGraph
  <1>6. d.mentions = {<<m, p[c[n]]>> : n \in UNION {{t[1], t[2]} : t \in x.triplets}}
    BY DEF BuildGraph
  <1>7. d.involves = {<<m, p[c[n]]>> : n \in UNION x.events}
    BY DEF BuildGraph, BuildEvents
  <1>8. d.long \subseteq {p[n] : n \in DOMAIN p}
    BY DEF BuildGraph, ReuseExisting
  <1> HIDE DEF d
  <1>9. d.long \subseteq d.entities
    BY <1>1, <1>2, <1>4, <1>8
  <1>10. \A x1 \in d.mentions : x1 = <<x1[1], x1[2]>> /\ x1[2] \in d.entities
    BY <1>3, <1>4, <1>6
  <1>11. \A x1 \in d.involves : x1 = <<x1[1], x1[2]>> /\ x1[2] \in d.entities
    BY <1>3, <1>4, <1>7
  <1>12. d.stated = {} => d.entities = {}
    BY <1>3, <1>4, <1>5
  <1>13. WholeDraft(d)
    BY <1>9, <1>10, <1>11, <1>12 DEF WholeDraft, Edges
  <1> QED
    BY <1>13 DEF d

\* Saving a whole draft demotes nothing.
LEMMA SavedWhole ==
  ASSUME NEW g, NEW m, NEW d, Whole(g), WholeDraft(d)
  PROVE  Whole(SaveGraph(g, m, d)) /\ g.longEntities \subseteq SaveGraph(g, m, d).longEntities
  <1> DEFINE h == SaveGraph(g, m, d)
  <1> USE DEF SaveGraph, Whole
  <1>1. {"dialogues", "statements", "nodes", "mentions", "involves", "longEntities"} \subseteq DOMAIN h
    OBVIOUS
  <1>2. h.nodes = g.nodes \cup d.entities
    BY DEF WholeDraft
  <1>3. h.mentions = g.mentions \cup d.mentions
    OBVIOUS
  <1>4. h.involves = g.involves \cup d.involves
    OBVIOUS
  <1>5. h.longEntities = g.longEntities \cup d.long
    BY DEF LayersSaved
  <1> HIDE DEF h, SaveGraph
  <1>6. Whole(h) /\ g.longEntities \subseteq h.longEntities
    BY <1>1, <1>2, <1>3, <1>4, <1>5 DEF WholeDraft, Edges
  <1> QED
    BY <1>6 DEF h

\* What a graph without an entity is, and one without duplicates.
LEMMA DetachedFields ==
  ASSUME NEW g, NEW gone, Whole(g)
  PROVE  LET h == Detached(g, gone) IN
         /\ DOMAIN h = DOMAIN g /\ h.nodes = g.nodes \ gone
         /\ h.longEntities = g.longEntities \ gone
         /\ h.dialogues = g.dialogues /\ h.statements = g.statements
         /\ h.mentions = {x \in g.mentions : x[2] \notin gone}
         /\ h.involves = {x \in g.involves : x[2] \notin gone}
  BY DEF Detached, Whole

\* What merging duplicates leaves of the fields that the proofs speak of.
LEMMA MergedFields ==
  ASSUME NEW g, Whole(g), NEW k
  PROVE  LET h == MergeDuplicateEntities(g, k)
             kept == {e \in g.nodes : k[e] = e}
         IN /\ DOMAIN h = DOMAIN g /\ h.nodes = kept /\ h.longEntities = g.longEntities \cap kept
            /\ h.dialogues = g.dialogues /\ h.statements = g.statements
            /\ h.mentions = {<<x[1], k[x[2]]>> : x \in g.mentions}
            /\ h.involves = {<<x[1], k[x[2]]>> : x \in g.involves}
  <1> DEFINE gone == {e \in g.nodes : k[e] # e}
             d == Detached(g, gone)
             h == MergeDuplicateEntities(g, k)
  <1>1. /\ DOMAIN d = DOMAIN g /\ d.nodes = g.nodes \ gone
        /\ d.dialogues = g.dialogues /\ d.statements = g.statements
    BY DetachedFields
  <1>2. {"dialogues", "statements", "nodes", "mentions", "involves", "longEntities"} \subseteq DOMAIN d
    BY <1>1 DEF Whole
  <1> HIDE DEF d
  <1>3. DOMAIN h = DOMAIN d
    BY DEF MergeDuplicateEntities, d
  <1>4. h.nodes = d.nodes /\ h.dialogues = d.dialogues /\ h.statements = d.statements
    BY DEF MergeDuplicateEntities, d
  <1>5. h.mentions = {<<x[1], k[x[2]]>> : x \in g.mentions}
    BY <1>2 DEF MergeDuplicateEntities, d
  <1>6. h.involves = {<<x[1], k[x[2]]>> : x \in g.involves}
    BY <1>2 DEF MergeDuplicateEntities, d
  <1>7. h.longEntities = g.longEntities \cap (g.nodes \ gone)
    BY <1>2 DEF MergeDuplicateEntities, d
  <1> QED
    BY <1>1, <1>3, <1>4, <1>5, <1>6, <1>7

\* Merging leaves a whole graph, whose traces name what they named.
LEMMA MergedWhole ==
  ASSUME NEW g, Whole(g), g.nodes \subseteq Entities, NEW k \in Keepers(g)
  PROVE  LET h == MergeDuplicateEntities(g, k) IN
         /\ Whole(h)
         /\ \A e \in g.longEntities : \E x \in h.longEntities : NameOf[x] = NameOf[e]
         /\ DuplicateEntities(h) = {}
         /\ OrphanStatements(h) = OrphanStatements(g)
         /\ \A m \in Memories : MemoryTrace(h, m) = MemoryTrace(g, m)
  <1> DEFINE h == MergeDuplicateEntities(g, k)
             kept == {e \in g.nodes : k[e] = e}
  <1>1. /\ k \in [g.nodes -> g.nodes]
        /\ \A a, b \in g.nodes : NameOf[a] = NameOf[b] => k[a] = k[b]
        /\ \A a \in g.nodes : /\ NameOf[k[a]] = NameOf[a]
                              /\ a \in g.longEntities => k[a] \in g.longEntities
    BY DEF Keepers
  <1>2. /\ DOMAIN h = DOMAIN g /\ h.nodes = kept /\ h.longEntities = g.longEntities \cap kept
        /\ h.dialogues = g.dialogues /\ h.statements = g.statements
        /\ h.mentions = {<<x[1], k[x[2]]>> : x \in g.mentions}
        /\ h.involves = {<<x[1], k[x[2]]>> : x \in g.involves}
    BY MergedFields
  <1> HIDE DEF h
  <1>3. \A a \in g.nodes : k[a] \in kept
    BY <1>1
  <1>4. /\ g.longEntities \subseteq g.nodes
        /\ \A x \in g.mentions \cup g.involves : x = <<x[1], x[2]>> /\ x[2] \in g.nodes
    BY DEF Whole, Edges
  <1>5. Whole(h)
    <2>1. \A x \in h.mentions : x = <<x[1], x[2]>> /\ x[2] \in h.nodes
      BY <1>2, <1>3, <1>4
    <2>2. \A x \in h.involves : x = <<x[1], x[2]>> /\ x[2] \in h.nodes
      BY <1>2, <1>3, <1>4
    <2> QED
      BY <1>2, <2>1, <2>2 DEF Whole, Edges
  <1>6. \A e \in g.longEntities : \E x \in h.longEntities : NameOf[x] = NameOf[e]
    BY <1>1, <1>2, <1>3, <1>4
  <1>7. DuplicateEntities(h) = {}
    <2> SUFFICES ASSUME NEW n \in Names
                 PROVE  ~(Cardinality({e \in h.nodes : NameOf[e] = n}) > 1)
      BY DEF DuplicateEntities
    <2> DEFINE S == {e \in h.nodes : NameOf[e] = n}
    <2>1. CASE S = {}
      BY <2>1, FS_EmptySet
    <2>2. ASSUME NEW z \in S PROVE ~(Cardinality(S) > 1)
      <3>1. S = {z}
        BY <1>1, <1>2
      <3>2. Cardinality({z}) = 1
        BY FS_Singleton
      <3> QED
        BY <3>1, <3>2
    <2> QED
      BY <2>1, <2>2
  <1>8. OrphanStatements(h) = OrphanStatements(g)
    <2>1. ASSUME NEW m, NEW e \in h.nodes, <<m, e>> \in h.mentions
          PROVE  \E a \in g.nodes : <<m, a>> \in g.mentions
      BY <1>2, <1>4, <2>1
    <2>2. ASSUME NEW m, NEW e \in g.nodes, <<m, e>> \in g.mentions
          PROVE  \E a \in h.nodes : <<m, a>> \in h.mentions
      <3>1. <<m, k[e]>> \in h.mentions
        BY <1>2, <2>2
      <3> QED
        BY <1>2, <1>3, <3>1
    <2> QED
      BY <1>2, <2>1, <2>2 DEF OrphanStatements
  <1>9. ASSUME NEW m \in Memories PROVE MemoryTrace(h, m) = MemoryTrace(g, m)
    <2>1. ASSUME NEW E, \A x \in E : x[2] \in g.nodes
          PROVE  LET F == {<<x[1], k[x[2]]>> : x \in E}
                 IN {NameOf[x[2]] : x \in {y \in F : y[1] = m}}
                      = {NameOf[x[2]] : x \in {y \in E : y[1] = m}}
      <3> DEFINE F == {<<x[1], k[x[2]]>> : x \in E}
      <3>1. ASSUME NEW y \in F, y[1] = m
            PROVE  \E x \in E : x[1] = m /\ NameOf[x[2]] = NameOf[y[2]]
        BY <1>1, <2>1, <3>1
      <3>2. ASSUME NEW x \in E, x[1] = m
            PROVE  \E y \in F : y[1] = m /\ NameOf[y[2]] = NameOf[x[2]]
        <4>1. <<x[1], k[x[2]]>> \in F
          OBVIOUS
        <4> QED
          BY <1>1, <2>1, <3>2, <4>1
      <3> HIDE DEF F
      <3>3. {NameOf[x[2]] : x \in {y \in F : y[1] = m}}
              = {NameOf[x[2]] : x \in {y \in E : y[1] = m}}
        BY <3>1, <3>2
      <3> QED
        BY <3>3 DEF F
    <2>2. /\ {NameOf[x[2]] : x \in {y \in h.mentions : y[1] = m}}
               = {NameOf[x[2]] : x \in {y \in g.mentions : y[1] = m}}
          /\ {NameOf[x[2]] : x \in {y \in h.involves : y[1] = m}}
               = {NameOf[x[2]] : x \in {y \in g.involves : y[1] = m}}
      BY <1>2, <1>4, <2>1
    <2> QED
      BY <1>2, <2>2 DEF MemoryTrace
  <1> QED
    BY <1>5, <1>6, <1>7, <1>8, <1>9 DEF h

\* The other methods keep a graph whole, and demote nothing but what is deleted.
LEMMA OthersWhole ==
  ASSUME NEW g, Whole(g)
  PROVE  /\ \A e : /\ Whole(DeleteEntity(g, e))
                   /\ g.longEntities \ {e} \subseteq DeleteEntity(g, e).longEntities
         /\ \A ids : /\ Whole(BumpEntityAccess(g, ids))
                     /\ g.longEntities \subseteq BumpEntityAccess(g, ids).longEntities
         /\ \A old : /\ Whole(PromoteShortToLong(g, old))
                     /\ g.longEntities \subseteq PromoteShortToLong(g, old).longEntities
         /\ \A e, f : /\ Whole(WriteEntityProfile(g, e, f))
                      /\ g.longEntities \subseteq WriteEntityProfile(g, e, f).longEntities
         /\ \A t, ids, n : /\ Whole(UpsertInsight(g, t, ids, n))
                           /\ g.longEntities \subseteq UpsertInsight(g, t, ids, n).longEntities
         /\ \A t : /\ Whole(DeleteInsight(g, t))
                   /\ g.longEntities \subseteq DeleteInsight(g, t).longEntities
  <1>1. ASSUME NEW e
        PROVE  /\ Whole(DeleteEntity(g, e))
               /\ g.longEntities \ {e} \subseteq DeleteEntity(g, e).longEntities
    <2> DEFINE h == DeleteEntity(g, e)
    <2>1. /\ DOMAIN h = DOMAIN g /\ h.nodes = g.nodes \ {e}
          /\ h.longEntities = g.longEntities \ {e}
          /\ h.mentions = {x \in g.mentions : x[2] \notin {e}}
          /\ h.involves = {x \in g.involves : x[2] \notin {e}}
      BY DetachedFields DEF DeleteEntity
    <2> HIDE DEF h
    <2>2. Whole(h) /\ g.longEntities \ {e} \subseteq h.longEntities
      BY <2>1 DEF Whole, Edges
    <2> QED
      BY <2>2 DEF h
  <1> USE DEF Whole, Edges
  <1>2. ASSUME NEW ids
        PROVE  /\ Whole(BumpEntityAccess(g, ids))
               /\ g.longEntities \subseteq BumpEntityAccess(g, ids).longEntities
    BY DEF BumpEntityAccess
  <1>3. ASSUME NEW old
        PROVE  /\ Whole(PromoteShortToLong(g, old))
               /\ g.longEntities \subseteq PromoteShortToLong(g, old).longEntities
    BY DEF PromoteShortToLong
  <1>4. ASSUME NEW e, NEW f
        PROVE  /\ Whole(WriteEntityProfile(g, e, f))
               /\ g.longEntities \subseteq WriteEntityProfile(g, e, f).longEntities
    BY DEF WriteEntityProfile
  <1>5. ASSUME NEW t, NEW ids, NEW n
        PROVE  /\ Whole(UpsertInsight(g, t, ids, n))
               /\ g.longEntities \subseteq UpsertInsight(g, t, ids, n).longEntities
    BY DEF UpsertInsight
  <1>6. ASSUME NEW t
        PROVE  /\ Whole(DeleteInsight(g, t))
               /\ g.longEntities \subseteq DeleteInsight(g, t).longEntities
    BY DEF DeleteInsight
  <1> QED
    BY <1>1, <1>2, <1>3, <1>4, <1>5, <1>6

\* No step demotes an entity.
KeepsLong ==
  \A e \in graph.longEntities :
    \/ \E x \in graph'.longEntities : NameOf[x] = NameOf[e]
    \/ DeletesEntity(e)

\* Every step of an extraction job keeps the graph whole.
LEMMA WholeExtraction ==
  ASSUME WholeInv, CountInv, NEW w \in Workers, Extracts(w)
  PROVE  WholeInv' /\ KeepsLong
  <1>1. pc \in [Workers -> Steps] /\ draft = [v \in Workers |-> draft[v]]
    BY DEF CountInv, WorkersTyped, DraftsTyped
  <1>2. ASSUME NEW to \in Steps, pc' = [pc EXCEPT ![w] = to],
               UNCHANGED draft \/ \E d : draft' = [draft EXCEPT ![w] = d],
               to = "saving" => WholeDraft(draft'[w])
        PROVE  \A v \in Workers : pc'[v] = "saving" => WholeDraft(draft'[v])
    <2>1. pc'[w] = to /\ \A v \in Workers \ {w} : pc'[v] = pc[v] /\ draft'[v] = draft[v]
      BY <1>1, <1>2
    <2> QED
      BY <1>2, <2>1 DEF WholeInv
  <1>3. CASE MergesWithGraph(w)
    <2>1. PICK x \in Extractions : \E c \in DedupBatch(x.names) :
            \E p \in MergeWithGraph(readings[w], {c[n] : n \in x.names}) :
              draft' = [draft EXCEPT ![w] = BuildGraph(readings[w], held[w], x, c, p)]
      BY <1>3 DEF MergesWithGraph
    <2>2. PICK c \in DedupBatch(x.names) :
            \E p \in MergeWithGraph(readings[w], {c[n] : n \in x.names}) :
              draft' = [draft EXCEPT ![w] = BuildGraph(readings[w], held[w], x, c, p)]
      BY <2>1
    <2>3. PICK p \in MergeWithGraph(readings[w], {c[n] : n \in x.names}) :
            draft' = [draft EXCEPT ![w] = BuildGraph(readings[w], held[w], x, c, p)]
      BY <2>2
    <2>4. WholeDraft(BuildGraph(readings[w], held[w], x, c, p))
      BY BuiltWhole
    <2>5. draft'[w] = BuildGraph(readings[w], held[w], x, c, p)
      BY <1>1, <2>3
    <2>6. pc' = [pc EXCEPT ![w] = "saving"] /\ UNCHANGED graph
      BY <1>3 DEF MergesWithGraph, At
    <2> QED
      BY <1>2, <2>3, <2>4, <2>5, <2>6 DEF Steps, WholeInv, KeepsLong
  <1>4. CASE SavesGraph(w)
    <2>1. /\ pc[w] = "saving" /\ pc' = [pc EXCEPT ![w] = "latest"]
          /\ graph' = SaveGraph(graph, held[w], draft[w])
          /\ \E d : draft' = [draft EXCEPT ![w] = d]
      BY <1>4 DEF SavesGraph, At
    <2>2. Whole(graph') /\ graph.longEntities \subseteq graph'.longEntities
      BY <2>1, SavedWhole DEF WholeInv
    <2> QED
      BY <1>2, <2>1, <2>2 DEF Steps, WholeInv, KeepsLong
  <1>5. ASSUME NEW to \in Steps \ {"saving"}, pc' = [pc EXCEPT ![w] = to], UNCHANGED graph,
               UNCHANGED draft \/ \E d : draft' = [draft EXCEPT ![w] = d]
        PROVE  WholeInv' /\ KeepsLong
    BY <1>2, <1>5 DEF WholeInv, KeepsLong
  <1>6. ASSUME Ends(w), UNCHANGED graph PROVE WholeInv' /\ KeepsLong
    BY <1>5, <1>6 DEF Ends, Steps
  <1>7. ASSUME NEW m \in Memories, StartsExtraction(w, m)
        PROVE  WholeInv' /\ KeepsLong
    <2>1. CASE Stored(m)
      BY <1>5, <1>7, <2>1 DEF StartsExtraction, Steps
    <2>2. CASE ~Stored(m)
      BY <1>7, <2>2 DEF StartsExtraction, WholeInv, KeepsLong
    <2> QED
      BY <2>1, <2>2
  <1>8. CASE MarksExtracting(w) \/ Completes(w)
    BY <1>5, <1>8 DEF MarksExtracting, Completes, SavesRow, At, Steps
  <1>9. CASE ReadsLatest(w)
    BY <1>5, <1>6, <1>9 DEF ReadsLatest, At, Steps
  <1>10. CASE CountsEntities(w)
    BY <1>5, <1>6, <1>10 DEF CountsEntities, Steps
  <1>11. CASE SkipsCount(w) \/ DispatchesReflection(w) \/ MarksFailed(w) \/ DiesWorker(w)
    BY <1>6, <1>11 DEF SkipsCount, DispatchesReflection, MarksFailed, DiesWorker
  <1>12. CASE FailsExtraction(w)
    BY <1>5, <1>12 DEF FailsExtraction, Steps
  <1>13. CASE ReadsType(w)
    BY <1>13 DEF ReadsType, WholeInv, KeepsLong
  <1> QED
    BY <1>3, <1>4, <1>7, <1>8, <1>9, <1>10, <1>11, <1>12, <1>13 DEF Extracts

\* Every step keeps the graph whole.
LEMMA WholeStep ==
  ASSUME WholeInv, CountInv, SourceInv, [MemoryNext]_memoryVars
  PROVE  WholeInv' /\ KeepsLong
  <1>1. Whole(graph)
    BY DEF WholeInv
  <1>2. ASSUME UNCHANGED workerVars, Whole(graph'),
               \A e \in graph.longEntities :
                 \/ \E x \in graph'.longEntities : NameOf[x] = NameOf[e]
                 \/ DeletesEntity(e)
        PROVE  WholeInv' /\ KeepsLong
    BY <1>2 DEF WholeInv, KeepsLong, workerVars
  <1>3. ASSUME UNCHANGED workerVars, Whole(graph'), graph.longEntities \subseteq graph'.longEntities
        PROVE  WholeInv' /\ KeepsLong
    BY <1>2, <1>3
  <1>4. ASSUME UNCHANGED <<workerVars, graph>> PROVE WholeInv' /\ KeepsLong
    BY <1>1, <1>3, <1>4
  <1>5. ASSUME NEW m \in Memories, RemembersText(m) \/ ReextractsMemory(m) \/ DeletesMemory(m)
        PROVE  WholeInv' /\ KeepsLong
    BY <1>4, <1>5 DEF RemembersText, ReextractsMemory, DeletesMemory
  <1>6. ASSUME NEW S, ReextractsMemories(S) PROVE WholeInv' /\ KeepsLong
    BY <1>4, <1>6 DEF ReextractsMemories
  <1>7. ASSUME NEW d \in Entities, DeletesEntity(d) PROVE WholeInv' /\ KeepsLong
    <2>1. UNCHANGED workerVars /\ graph' = DeleteEntity(graph, d)
      BY <1>7 DEF DeletesEntity, Operates
    <2>2. Whole(graph') /\ graph.longEntities \ {d} \subseteq graph'.longEntities
      BY <1>1, <2>1, OthersWhole
    <2> QED
      BY <1>2, <1>7, <2>1, <2>2
  <1>8. ASSUME NEW e \in Entities, EnhancesProfile(e) PROVE WholeInv' /\ KeepsLong
    BY <1>1, <1>3, <1>4, <1>8, OthersWhole DEF EnhancesProfile
  <1>9. ASSUME NEW t \in Themes, DeletesInsight(t) PROVE WholeInv' /\ KeepsLong
    BY <1>1, <1>3, <1>9, OthersWhole DEF DeletesInsight, Operates
  <1>10. ASSUME NEW hits \in SUBSET Entities, Searches(hits) PROVE WholeInv' /\ KeepsLong
    BY <1>1, <1>3, <1>10, OthersWhole DEF Searches, Operates
  <1>11. CASE MergesDuplicates
    <2>1. PICK k \in Keepers(graph) : Operates(MergeDuplicateEntities(graph, k))
      BY <1>11 DEF MergesDuplicates
    <2>2. graph.nodes \subseteq Entities
      BY DEF SourceInv, Sourced
    <2>3. /\ Whole(MergeDuplicateEntities(graph, k))
          /\ \A e \in graph.longEntities :
               \E x \in MergeDuplicateEntities(graph, k).longEntities : NameOf[x] = NameOf[e]
      BY <1>1, <2>2, MergedWhole
    <2> QED
      BY <1>2, <2>1, <2>3 DEF Operates
  <1>12. CASE WritesInsight
    BY <1>1, <1>3, <1>12, OthersWhole DEF WritesInsight
  <1>13. CASE Consolidates
    BY <1>1, <1>3, <1>13, OthersWhole DEF Consolidates
  <1>14. CASE ReadsEntities \/ EndsReflection \/ ReadsProfiles \/ UNCHANGED memoryVars
    BY <1>4, <1>14 DEF ReadsEntities, EndsReflection, ReadsProfiles, memoryVars
  <1> QED
    BY <1>5, <1>6, <1>7, <1>8, <1>9, <1>10, <1>11, <1>12, <1>13, <1>14, WholeExtraction
    DEF MemoryNext

\* The graph of every behaviour is whole.
LEMMA StaysWhole == MemorySpec => []WholeInv
  <1>1. MemoryInit => WholeInv
    <2> SUFFICES ASSUME MemoryInit PROVE WholeInv
      OBVIOUS
    <2>1. /\ graph.longEntities = LegacyLong /\ graph.nodes = Legacy
          /\ graph.mentions = {} /\ graph.involves = {}
      BY DEF MemoryInit, EmptyGraph
    <2>2. {"dialogues", "statements", "nodes", "mentions", "involves", "longEntities"}
            \subseteq DOMAIN graph
      BY DEF MemoryInit, EmptyGraph
    <2> QED
      BY <2>1, <2>2, JobAssumption DEF JobAssumption, WholeInv, Whole, Edges, MemoryInit
  <1>2. WholeInv /\ CountInv /\ SourceInv /\ [MemoryNext]_memoryVars => WholeInv'
    BY WholeStep
  <1> QED
    BY <1>1, <1>2, Counted, Sources, PTL DEF MemorySpec

\* Nothing but deleting a long-term entity takes it off the long-term layer: no
\* extraction that read it before it was promoted, no merge of duplicates.
THEOREM LongTermStays == MemorySpec => LongTermIsKept
  <1>1. WholeInv /\ CountInv /\ SourceInv /\ [MemoryNext]_memoryVars
          => [KeepsLong]_memoryVars
    BY WholeStep
  <1>2. [KeepsLong]_memoryVars
          => [\A e \in graph.longEntities :
                \/ \E x \in graph'.longEntities : NameOf[x] = NameOf[e]
                \/ DeletesEntity(e)]_memoryVars
    BY DEF KeepsLong
  <1> QED
    BY <1>1, <1>2, StaysWhole, Counted, Sources, PTL DEF MemorySpec, LongTermIsKept

\* Merging duplicates leaves none, and leaves every memory with the trace that it
\* had, whatever extractions, deletions and merges came before.
THEOREM MergesKeepTraces == MemorySpec => MergeKeepsTraces
  <1> DEFINE Keeps == graph'.nodes # graph.nodes /\ MergesDuplicates =>
       /\ DuplicateEntities(graph') = {}
       /\ OrphanStatements(graph') = OrphanStatements(graph)
       /\ \A m \in Memories : MemoryTrace(graph', m) = MemoryTrace(graph, m)
  <1>1. WholeInv /\ SourceInv => [Keeps]_memoryVars
    <2> SUFFICES ASSUME WholeInv, SourceInv, MergesDuplicates
                 PROVE  /\ DuplicateEntities(graph') = {}
                        /\ OrphanStatements(graph') = OrphanStatements(graph)
                        /\ \A m \in Memories : MemoryTrace(graph', m) = MemoryTrace(graph, m)
      OBVIOUS
    <2>1. PICK k \in Keepers(graph) : graph' = MergeDuplicateEntities(graph, k)
      BY DEF MergesDuplicates, Operates
    <2>2. Whole(graph) /\ graph.nodes \subseteq Entities
      BY DEF WholeInv, SourceInv, Sourced
    <2> QED
      BY <2>1, <2>2, MergedWhole
  <1> HIDE DEF Keeps
  <1>2. MemorySpec => [][Keeps]_memoryVars
    BY <1>1, StaysWhole, Sources, PTL
  <1> QED
    BY <1>2 DEF Keeps, MergeKeepsTraces
-----------------------------------------------------------------------------
(* What an undisturbed clustering relies on, step by step.                 *)

\* An assignment that nobody comes in between.
PutInto(g, e, c) == AssignEntityCommunity(g, EdgesOf(g, e), e, c)

\* An entity is in one community, by property and by edge.
Settled(g, e, c) ==
  g.community[e] = c /\ {x \in g.inCommunity : x[1] = e} = {<<e, c>>}
CountedRight(g, c) == g.memberCount[c] = Cardinality(CommunityMembers(g, c))

\* A set of communities that contains where each of its members went; following
\* that from any of them, one comes to a community that went nowhere.
Closed(into_k, S) == \A c \in S : into_k[c] \in S
EndsSomewhere(T, into_k) ==
  \A S \in SUBSET T : S # {} /\ Closed(into_k, S) => \E c \in S : into_k[c] = c

\* What holds of the graph g and of a job at a step that nobody disturbed: a is what
\* the job assigned, T its communities, t its targets, rest what is left of the step.
JoinsAgree(g, p, a, t, rest, now) ==
  /\ a \subseteq g.nodes
  /\ \A e \in a \ (rest \cup (IF p \in {"joining", "joined"} THEN {now[1]} ELSE {})) :
       Settled(g, e, t[e]) /\ t[e] \in g.communities
  /\ p \in {"joining", "joined"} => now[1] \in a /\ t[now[1]] \in g.communities
  /\ p = "joined" => Settled(g, now[1], t[now[1]])
  /\ p = "done" => rest = {}

AssignsAgree(g, p, a, T, t, rest) ==
  /\ a = g.nodes
  /\ p = "upsert" => T \ rest \subseteq g.communities
  /\ p # "upsert" => T \subseteq g.communities
  /\ p = "assign" => rest \subseteq a /\ \A e \in a \ rest : Settled(g, e, t[e])
  /\ p = "refresh" => /\ rest \subseteq T /\ \A e \in a : Settled(g, e, t[e])
                      /\ \A c \in T \ rest : CountedRight(g, c)

MergesAgree(g, p, a, T, t, rest, M, P, into_k, now) ==
  LET unmoved == IF p = "moving" THEN rest ELSE {}
      stale == CASE p = "moving" -> {now[1], now[2]} [] p = "moved" -> {now[2]} [] OTHER -> {}
  IN /\ a = g.nodes /\ T \subseteq g.communities
     /\ Closed(into_k, T) /\ EndsSomewhere(T, into_k)
     /\ \A c \in T : M[c] = {e \in a : t[e] = c}
     /\ \A x \in P : x.left \in T /\ x.right \in T
     /\ \A e \in a \ unmoved : Settled(g, e, into_k[t[e]])
     /\ \A c \in T \ stale : CountedRight(g, c)
     /\ p = "moved" => now[2] \in T
     /\ p = "moving" =>
          /\ now[1] \in T /\ now[2] \in T /\ now[1] # now[2]
          /\ into_k[now[2]] = now[1]
          /\ \A e \in rest : e \in a /\ t[e] = now[2] /\ Settled(g, e, now[2])

\* What a full clustering leaves.
FullAgrees(g, a, T, into_k) ==
  /\ \A e \in a :
       /\ g.community[e] \in g.communities
       /\ {x[2] : x \in {y \in g.inCommunity : y[1] = e}} = {g.community[e]}
  /\ \A c \in {g.community[e] : e \in a} : CountedRight(g, c)
  /\ \A c \in T : into_k[c] # c /\ (\A x \in T \ {c} : into_k[x] # c) => c \notin g.communities

Agrees(g, p, a, T, t, rest, M, P, into_k, now) ==
  /\ p \in {"join", "joining", "joined", "done"} => JoinsAgree(g, p, a, t, rest, now)
  /\ p \in {"upsert", "assign", "refresh"} => AssignsAgree(g, p, a, T, t, rest)
  /\ p \in {"merge", "moving", "moved"} => MergesAgree(g, p, a, T, t, rest, M, P, into_k, now)
  /\ p = "settled" => FullAgrees(g, a, T, into_k)

JobAgrees(k) ==
  Agrees(net, step[k], Assigned(k), Targets(k), target[k], todo[k], members[k],
         pairs[k], into[k], current[k])

\* The types that the graph's own depend on.
JobTyped(k) ==
  /\ target[k] \in [Entities -> Communities \cup {NoCommunity}]
  /\ into[k] = [c \in Communities |-> into[k][c]]
  /\ step[k] \in {"join", "joining", "joined"} => todo[k] \subseteq Assigned(k)
  /\ step[k] \in {"idle", "join", "joining", "joined", "done", "upsert", "assign", "refresh",
                  "merge", "moving", "moved", "settled"}

\* What job k has matched is what it is about to assign.  It found all of the entity's
\* edges if it is not late, and the graph is as it was then if nobody disturbed it.
Matched(k, m) ==
  /\ m = [entity |-> m.entity, community |-> m.community, edges |-> m.edges, there |-> m.there]
  /\ m.there \in BOOLEAN
  /\ step[k] \in {"assign", "moving", "joining"}
  /\ step[k] = "joining" => m.entity = current[k][1]
  /\ step[k] # "joining" => m.entity \in todo[k]
  /\ step[k] = "moving" => m.community = current[k][1]
  /\ step[k] # "moving" => m.community = target[k][m.entity]
  /\ m.there => m.entity \in net.nodes /\ m.community \in net.communities
  /\ m.there /\ k \notin late => EdgesOf(net, m.entity) \subseteq m.edges
  /\ k \notin disturbed =>
       /\ m.edges = EdgesOf(net, m.entity)
       /\ m.entity \in net.nodes /\ m.community \in net.communities => m.there

IsPerJob(f) == f = [k \in Clusterers |-> f[k]]

SettleInv ==
  /\ Clusterable(net)
  /\ IsPerJob(step) /\ IsPerJob(todo) /\ IsPerJob(target) /\ IsPerJob(members)
  /\ IsPerJob(pairs) /\ IsPerJob(into) /\ IsPerJob(current)
  /\ \A k \in Clusterers : JobTyped(k)
  /\ \A k \in Clusterers : step[k] # "idle" /\ k \notin disturbed => JobAgrees(k)
  /\ IsPerJob(matched) /\ \A k \in Clusterers : \A m \in matched[k] : Matched(k, m)

-----------------------------------------------------------------------------
\* A graph with the communities, their counts and the edges of another, or others.
Repainted(g, h, cs, com, edges, count) ==
  /\ Clusterable(h) /\ h.nodes = g.nodes
  /\ h.communities = cs /\ h.community = com /\ h.inCommunity = edges
  /\ h.memberCount = count

\* A community is added, counted zero when it is new.
LEMMA UpsertPaints ==
  ASSUME NEW g, Clusterable(g), NEW c \in Communities
  PROVE  \E n : Repainted(g, UpsertCommunity(g, c), g.communities \cup {c}, g.community,
                          g.inCommunity, [g.memberCount EXCEPT ![c] = n])
  <1> DEFINE h == UpsertCommunity(g, c)
             n == IF c \in g.communities THEN g.memberCount[c] ELSE 0
  <1>1. /\ DOMAIN h = DOMAIN g
        /\ h.nodes = g.nodes /\ h.mentions = g.mentions /\ h.inCommunity = g.inCommunity
        /\ h.community = g.community /\ h.communities = g.communities \cup {c}
        /\ h.memberCount = [g.memberCount EXCEPT ![c] = n]
    BY DEF UpsertCommunity, Clusterable
  <1> HIDE DEF h, n
  <1>2. Clusterable(h)
    BY <1>1 DEF Clusterable
  <1>3. Repainted(g, h, g.communities \cup {c}, g.community, g.inCommunity,
                  [g.memberCount EXCEPT ![c] = n])
    BY <1>1, <1>2 DEF Repainted
  <1> QED
    BY <1>3 DEF h

\* Whatever edges an assignment replaces, it leaves a graph to cluster.
LEMMA AssignKeepsClusterable ==
  ASSUME NEW g, Clusterable(g), NEW old, NEW e, NEW c
  PROVE  Clusterable(AssignEntityCommunity(g, old, e, c))
  <1> DEFINE h == AssignEntityCommunity(g, old, e, c)
  <1>1. CASE e \notin g.nodes \/ c \notin g.communities
    BY <1>1 DEF AssignEntityCommunity
  <1>2. CASE e \in g.nodes /\ c \in g.communities
    <2>1. /\ DOMAIN h = DOMAIN g
          /\ h.nodes = g.nodes /\ h.mentions = g.mentions /\ h.memberCount = g.memberCount
          /\ h.community = [g.community EXCEPT ![e] = c] /\ h.communities = g.communities
          /\ h.inCommunity = (g.inCommunity \ old) \cup {<<e, c>>}
      BY <1>2 DEF AssignEntityCommunity, Clusterable
    <2> HIDE DEF h
    <2>2. e \in Entities /\ c \in Communities
      BY <1>2 DEF Clusterable
    <2>3. h.community \in [Entities -> Communities \cup {NoCommunity}]
      BY <2>1, <2>2 DEF Clusterable
    <2>4. h.inCommunity \subseteq h.nodes \X Communities
      BY <1>2, <2>1, <2>2 DEF Clusterable
    <2>5. Clusterable(h)
      BY <2>1, <2>3, <2>4 DEF Clusterable
    <2> QED
      BY <2>5 DEF h
  <1> QED
    BY <1>1, <1>2

\* An entity is put into a community that exists.
LEMMA AssignPaints ==
  ASSUME NEW g, Clusterable(g), NEW e \in g.nodes, NEW c \in g.communities
  PROVE  Repainted(g, PutInto(g, e, c), g.communities,
                   [g.community EXCEPT ![e] = c],
                   {x \in g.inCommunity : x[1] # e} \cup {<<e, c>>}, g.memberCount)
  <1> DEFINE h == PutInto(g, e, c)
  <1>1. /\ DOMAIN h = DOMAIN g
        /\ h.nodes = g.nodes /\ h.mentions = g.mentions /\ h.memberCount = g.memberCount
        /\ h.community = [g.community EXCEPT ![e] = c] /\ h.communities = g.communities
        /\ h.inCommunity = {x \in g.inCommunity : x[1] # e} \cup {<<e, c>>}
    BY DEF PutInto, AssignEntityCommunity, EdgesOf, Clusterable
  <1> HIDE DEF h
  <1>2. e \in Entities /\ c \in Communities
    BY DEF Clusterable
  <1>3. h.community \in [Entities -> Communities \cup {NoCommunity}]
    BY <1>1, <1>2 DEF Clusterable
  <1>4. h.inCommunity \subseteq h.nodes \X Communities
    BY <1>1, <1>2 DEF Clusterable
  <1>5. Clusterable(h)
    BY <1>1, <1>3, <1>4 DEF Clusterable
  <1>6. Repainted(g, h, g.communities, [g.community EXCEPT ![e] = c],
                  {x \in g.inCommunity : x[1] # e} \cup {<<e, c>>}, g.memberCount)
    BY <1>1, <1>5 DEF Repainted
  <1> QED
    BY <1>6 DEF h

\* A community that exists is counted.
LEMMA RefreshPaints ==
  ASSUME NEW g, Clusterable(g), NEW c \in g.communities
  PROVE  Repainted(g, RefreshCommunityMemberCount(g, c), g.communities, g.community,
                   g.inCommunity,
                   [g.memberCount EXCEPT ![c] = Cardinality(CommunityMembers(g, c))])
  <1> DEFINE h == RefreshCommunityMemberCount(g, c)
             n == Cardinality(CommunityMembers(g, c))
  <1>1. /\ DOMAIN h = DOMAIN g
        /\ h.nodes = g.nodes /\ h.mentions = g.mentions /\ h.inCommunity = g.inCommunity
        /\ h.community = g.community /\ h.communities = g.communities
        /\ h.memberCount = [g.memberCount EXCEPT ![c] = n]
    BY DEF RefreshCommunityMemberCount, Clusterable
  <1> HIDE DEF h, n
  <1>2. Clusterable(h)
    BY <1>1 DEF Clusterable
  <1>3. Repainted(g, h, g.communities, g.community, g.inCommunity,
                  [g.memberCount EXCEPT ![c] = n])
    BY <1>1, <1>2 DEF Repainted
  <1> QED
    BY <1>3 DEF h, n

\* The communities counted empty go, with the edges to them.
LEMMA PrunePaints ==
  ASSUME NEW g, Clusterable(g)
  PROVE  LET gone == {c \in g.communities : g.memberCount[c] = 0}
         IN Repainted(g, PruneEmptyCommunities(g), g.communities \ gone, g.community,
                      {x \in g.inCommunity : x[2] \notin gone}, g.memberCount)
  <1> DEFINE h == PruneEmptyCommunities(g)
             gone == {c \in g.communities : g.memberCount[c] = 0}
  <1>1. /\ DOMAIN h = DOMAIN g
        /\ h.nodes = g.nodes /\ h.mentions = g.mentions /\ h.memberCount = g.memberCount
        /\ h.community = g.community /\ h.communities = g.communities \ gone
        /\ h.inCommunity = {x \in g.inCommunity : x[2] \notin gone}
    BY DEF PruneEmptyCommunities, Clusterable
  <1> HIDE DEF h, gone
  <1>2. Clusterable(h)
    BY <1>1 DEF Clusterable
  <1>3. Repainted(g, h, g.communities \ gone, g.community,
                  {x \in g.inCommunity : x[2] \notin gone}, g.memberCount)
    BY <1>1, <1>2 DEF Repainted
  <1> QED
    BY <1>3 DEF h, gone

\* What the other users write can be clustered as well.
LEMMA OthersKeepClusterable ==
  ASSUME NEW g, Clusterable(g)
  PROVE  /\ \A m \in Memories : Clusterable(SaveGraph(g, m, Learned[m]))
         /\ \A e : Clusterable(DeleteEntity(g, e))
         /\ \A k \in Keepers(g) : Clusterable(MergeDuplicateEntities(g, k))
  <1>1. ASSUME NEW m \in Memories PROVE Clusterable(SaveGraph(g, m, Learned[m]))
    <2> DEFINE d == Learned[m]
               h == SaveGraph(g, m, d)
               written == IF d.stated = {} THEN {} ELSE d.entities
    <2>1. /\ DOMAIN h = DOMAIN g
          /\ h.nodes = g.nodes \cup written /\ h.mentions = g.mentions \cup d.mentions
          /\ h.memberCount = g.memberCount /\ h.inCommunity = g.inCommunity
          /\ h.community = g.community /\ h.communities = g.communities
      BY DEF SaveGraph, Clusterable
    <2>2. written \subseteq Entities /\ \A x \in d.mentions : x[2] \in written
      BY ClusteringAssumption DEF ClusteringAssumption
    <2> HIDE DEF h, d, written
    <2>3. Clusterable(h)
      BY <2>1, <2>2 DEF Clusterable
    <2> QED
      BY <2>3 DEF h, d
  <1>2. ASSUME NEW gone
        PROVE  /\ Clusterable(Detached(g, gone)) /\ DOMAIN Detached(g, gone) = DOMAIN g
               /\ Detached(g, gone).nodes = g.nodes \ gone
               /\ Detached(g, gone).communities = g.communities
               /\ Detached(g, gone).inCommunity = {x \in g.inCommunity : x[1] \notin gone}
    <2> DEFINE h == Detached(g, gone)
    <2>1. /\ DOMAIN h = DOMAIN g
          /\ h.nodes = g.nodes \ gone /\ h.mentions = {x \in g.mentions : x[2] \notin gone}
          /\ h.memberCount = g.memberCount /\ h.communities = g.communities
          /\ h.community = [e \in Entities |-> IF e \in gone THEN NoCommunity ELSE g.community[e]]
          /\ h.inCommunity = {x \in g.inCommunity : x[1] \notin gone}
      BY DEF Detached, Clusterable
    <2> HIDE DEF h
    <2>2. Clusterable(h)
      BY <2>1 DEF Clusterable
    <2> QED
      BY <2>1, <2>2 DEF h
  <1>3. ASSUME NEW e PROVE Clusterable(DeleteEntity(g, e))
    BY <1>2 DEF DeleteEntity
  <1>4. ASSUME NEW k \in Keepers(g) PROVE Clusterable(MergeDuplicateEntities(g, k))
    <2> DEFINE h == MergeDuplicateEntities(g, k)
               gone == {e \in g.nodes : k[e] # e}
               d == Detached(g, gone)
    <2>1. k \in [g.nodes -> g.nodes] /\ \A a \in g.nodes : k[k[a]] = k[a]
      BY DEF Keepers
    <2>2. /\ Clusterable(d) /\ DOMAIN d = DOMAIN g
          /\ d.nodes = g.nodes \ gone
          /\ d.communities = g.communities
          /\ d.inCommunity = {x \in g.inCommunity : x[1] \notin gone}
      BY <1>2
    <2> DEFINE theirs(e) == {x[2] : x \in {y \in g.inCommunity : y[1] \in gone /\ k[y[1]] = e}}
    <2>3. PICK merged : merged = {e \in g.nodes \ gone : {x \in g.nodes : k[x] = e} # {e}}
      OBVIOUS
    <2> HIDE DEF d
    <2>4. /\ DOMAIN h = DOMAIN d
          /\ h.nodes = d.nodes /\ h.mentions = {<<x[1], k[x[2]]>> : x \in g.mentions}
          /\ h.memberCount = d.memberCount /\ h.communities = d.communities
          /\ h.inCommunity = d.inCommunity \cup {<<k[x[1]], x[2]>> : x \in g.inCommunity}
      BY <2>2 DEF MergeDuplicateEntities, d, Clusterable
    <2>5. h.community = [e \in Entities |->
               IF e \in merged /\ d.community[e] = NoCommunity /\ theirs(e) # {}
               THEN CHOOSE c \in theirs(e) : TRUE ELSE d.community[e]]
      BY <2>2, <2>3 DEF MergeDuplicateEntities, d, Clusterable
    <2>6. \A e : theirs(e) \subseteq Communities
      BY DEF Clusterable
    <2> HIDE DEF h, theirs
    <2>7. h.community \in [Entities -> Communities \cup {NoCommunity}]
      BY <2>2, <2>5, <2>6 DEF Clusterable
    <2>8. \A x \in g.nodes : k[x] \in d.nodes
      BY <2>1, <2>2
    <2>9. \A x \in h.mentions : x[2] \in h.nodes
      BY <2>4, <2>8 DEF Clusterable
    <2>10. h.inCommunity \subseteq h.nodes \X Communities
      BY <2>2, <2>4, <2>8 DEF Clusterable
    <2>11. Clusterable(h)
      BY <2>2, <2>4, <2>7, <2>9, <2>10 DEF Clusterable
    <2> QED
      BY <2>11 DEF h
  <1> QED
    BY <1>1, <1>3, <1>4

-----------------------------------------------------------------------------
\* A community that is added moves nobody.
LEMMA UpsertSettles ==
  ASSUME NEW g, Clusterable(g), NEW c \in Communities,
         NEW h, h = UpsertCommunity(g, c)
  PROVE  /\ Clusterable(h) /\ h.nodes = g.nodes /\ h.communities = g.communities \cup {c}
         /\ \A e, d : Settled(g, e, d) => Settled(h, e, d)
  <1>1. PICK n : Repainted(g, h, g.communities \cup {c}, g.community, g.inCommunity,
                           [g.memberCount EXCEPT ![c] = n])
    BY UpsertPaints
  <1> QED
    BY <1>1 DEF Repainted, Settled

\* An entity that is assigned is in that community, the others are where they were,
\* and the counts of other communities than it leaves and enters are still right.
LEMMA AssignSettles ==
  ASSUME NEW g, Clusterable(g), NEW e \in g.nodes, NEW c \in g.communities,
         NEW h, h = PutInto(g, e, c)
  PROVE  /\ Clusterable(h) /\ h.nodes = g.nodes /\ h.communities = g.communities
         /\ Settled(h, e, c)
         /\ \A x \in Entities : \A d : x # e /\ Settled(g, x, d) => Settled(h, x, d)
         /\ \A d \in Communities :
              d # c /\ d # g.community[e] /\ CountedRight(g, d) => CountedRight(h, d)
  <1>1. Repainted(g, h, g.communities, [g.community EXCEPT ![e] = c],
                  {x \in g.inCommunity : x[1] # e} \cup {<<e, c>>}, g.memberCount)
    BY AssignPaints
  <1>2. /\ Clusterable(h) /\ h.nodes = g.nodes /\ h.communities = g.communities
        /\ h.memberCount = g.memberCount
        /\ h.community = [g.community EXCEPT ![e] = c]
        /\ h.inCommunity = {x \in g.inCommunity : x[1] # e} \cup {<<e, c>>}
    BY <1>1 DEF Repainted
  <1>3. /\ e \in Entities /\ g.nodes \subseteq Entities
        /\ g.community \in [Entities -> Communities \cup {NoCommunity}]
    BY DEF Clusterable
  <1>4. Settled(h, e, c)
    BY <1>2, <1>3 DEF Settled
  <1>5. ASSUME NEW x \in Entities, NEW d, x # e, Settled(g, x, d) PROVE Settled(h, x, d)
    <2>1. {y \in h.inCommunity : y[1] = x} = {y \in g.inCommunity : y[1] = x}
      BY <1>2, <1>5
    <2> QED
      BY <1>2, <1>3, <1>5, <2>1 DEF Settled
  <1>6. ASSUME NEW d \in Communities, d # c, d # g.community[e], CountedRight(g, d)
        PROVE  CountedRight(h, d)
    <2>1. CommunityMembers(h, d) = CommunityMembers(g, d)
      BY <1>2, <1>3, <1>6 DEF CommunityMembers
    <2> QED
      BY <1>2, <1>6, <2>1 DEF CountedRight
  <1> QED
    BY <1>2, <1>4, <1>5, <1>6

\* Counting a community moves nobody and leaves the other counts alone.
LEMMA RefreshSettles ==
  ASSUME NEW g, Clusterable(g), NEW c \in g.communities,
         NEW h, h = RefreshCommunityMemberCount(g, c)
  PROVE  /\ Clusterable(h) /\ h.nodes = g.nodes /\ h.communities = g.communities
         /\ \A e, d : Settled(g, e, d) => Settled(h, e, d)
         /\ CountedRight(h, c)
         /\ \A d \in Communities : CountedRight(g, d) => CountedRight(h, d)
  <1>1. Repainted(g, h, g.communities, g.community, g.inCommunity,
                  [g.memberCount EXCEPT ![c] = Cardinality(CommunityMembers(g, c))])
    BY RefreshPaints
  <1>2. c \in Communities /\ DOMAIN g.memberCount = Communities
    BY DEF Clusterable
  <1>3. \A d : CommunityMembers(h, d) = CommunityMembers(g, d)
    BY <1>1 DEF CommunityMembers, Repainted
  <1>4. CountedRight(h, c) /\ \A d \in Communities : CountedRight(g, d) => CountedRight(h, d)
    BY <1>1, <1>2, <1>3 DEF CountedRight, Repainted
  <1> QED
    BY <1>1, <1>4 DEF Repainted, Settled

\* Pruning takes the communities that are counted empty, and nobody else's edge.
LEMMA PruneSettles ==
  ASSUME NEW g, Clusterable(g), NEW h, h = PruneEmptyCommunities(g)
  PROVE  /\ Clusterable(h) /\ h.nodes = g.nodes /\ h.community = g.community
         /\ \A d \in Communities : g.memberCount[d] = 0 => d \notin h.communities
         /\ \A d \in g.communities : g.memberCount[d] # 0 =>
              d \in h.communities /\ \A e : Settled(g, e, d) => Settled(h, e, d)
         /\ \A d : CountedRight(g, d) => CountedRight(h, d)
  <1> DEFINE gone == {c \in g.communities : g.memberCount[c] = 0}
  <1>1. Repainted(g, h, g.communities \ gone, g.community,
                  {x \in g.inCommunity : x[2] \notin gone}, g.memberCount)
    BY PrunePaints
  <1>2. /\ Clusterable(h) /\ h.nodes = g.nodes /\ h.communities = g.communities \ gone
        /\ h.memberCount = g.memberCount /\ h.community = g.community
        /\ h.inCommunity = {x \in g.inCommunity : x[2] \notin gone}
    BY <1>1 DEF Repainted
  <1>3. ASSUME NEW d \in g.communities, g.memberCount[d] # 0, NEW e, Settled(g, e, d)
        PROVE  Settled(h, e, d)
    <2>1. d \notin gone
      BY <1>3
    <2>2. {x \in h.inCommunity : x[1] = e} = {x \in g.inCommunity : x[1] = e}
      BY <1>2, <1>3, <2>1 DEF Settled
    <2> QED
      BY <1>2, <1>3, <2>2 DEF Settled
  <1>4. \A d : CountedRight(g, d) => CountedRight(h, d)
    BY <1>2 DEF CountedRight, CommunityMembers
  <1> QED
    BY <1>2, <1>3, <1>4

-----------------------------------------------------------------------------
(* One lemma for each write of a job that nobody disturbs.                 *)

\* A community that is to be there is there once it is added.
LEMMA UpsertAgrees ==
  ASSUME NEW g, Clusterable(g), NEW a, NEW T, NEW t, NEW rest, NEW c \in Communities,
         AssignsAgree(g, "upsert", a, T, t, rest)
  PROVE  AssignsAgree(UpsertCommunity(g, c), "upsert", a, T, t, rest \ {c})
  <1> DEFINE h == UpsertCommunity(g, c)
  <1>1. h.nodes = g.nodes /\ h.communities = g.communities \cup {c}
    BY UpsertSettles
  <1> HIDE DEF h
  <1>2. AssignsAgree(h, "upsert", a, T, t, rest \ {c})
    BY <1>1 DEF AssignsAgree
  <1> QED
    BY <1>2 DEF h

\* An assigned entity is where the job wants it, and stays there.
LEMMA AssignAgrees ==
  ASSUME NEW g, Clusterable(g), NEW a, NEW T, NEW t, NEW rest, NEW e \in rest, t[e] \in T,
         AssignsAgree(g, "assign", a, T, t, rest)
  PROVE  AssignsAgree(PutInto(g, e, t[e]), "assign", a, T, t, rest \ {e})
  <1> DEFINE h == PutInto(g, e, t[e])
  <1>1. e \in g.nodes /\ t[e] \in g.communities
    BY DEF AssignsAgree
  <1>2. /\ h.nodes = g.nodes /\ h.communities = g.communities /\ Settled(h, e, t[e])
        /\ \A x \in Entities : \A d : x # e /\ Settled(g, x, d) => Settled(h, x, d)
    BY <1>1, AssignSettles
  <1> HIDE DEF h
  <1>3. g.nodes \subseteq Entities
    BY DEF Clusterable
  <1>4. AssignsAgree(h, "assign", a, T, t, rest \ {e})
    BY <1>2, <1>3 DEF AssignsAgree
  <1> QED
    BY <1>4 DEF h

\* A counted community is counted right, and stays so while others are counted.
LEMMA RefreshAgrees ==
  ASSUME NEW g, Clusterable(g), NEW a, NEW T, NEW t, NEW rest, NEW c \in rest,
         AssignsAgree(g, "refresh", a, T, t, rest)
  PROVE  AssignsAgree(RefreshCommunityMemberCount(g, c), "refresh", a, T, t, rest \ {c})
  <1> DEFINE h == RefreshCommunityMemberCount(g, c)
  <1>1. c \in g.communities /\ T \subseteq Communities
    BY DEF AssignsAgree, Clusterable
  <1>2. /\ h.nodes = g.nodes /\ h.communities = g.communities /\ CountedRight(h, c)
        /\ \A x, d : Settled(g, x, d) => Settled(h, x, d)
        /\ \A d \in Communities : CountedRight(g, d) => CountedRight(h, d)
    BY <1>1, RefreshSettles
  <1> HIDE DEF h
  <1>3. AssignsAgree(h, "refresh", a, T, t, rest \ {c})
    BY <1>1, <1>2 DEF AssignsAgree
  <1> QED
    BY <1>3 DEF h

\* An entity that joins finds its community.
LEMMA JoinAgrees ==
  ASSUME NEW g, Clusterable(g), NEW a, NEW t, NEW rest, NEW now, NEW e \in rest, e \in a,
         t[e] \in Communities, JoinsAgree(g, "join", a, t, rest, now)
  PROVE  JoinsAgree(UpsertCommunity(g, t[e]), "joining", a, t, rest \ {e}, <<e>>)
  <1> DEFINE h == UpsertCommunity(g, t[e])
  <1>1. /\ h.nodes = g.nodes /\ h.communities = g.communities \cup {t[e]}
        /\ \A x, d : Settled(g, x, d) => Settled(h, x, d)
    BY UpsertSettles
  <1> HIDE DEF h
  <1>2. JoinsAgree(h, "joining", a, t, rest \ {e}, <<e>>)
    BY <1>1 DEF JoinsAgree
  <1> QED
    BY <1>2 DEF h

\* An entity that found its community is put there.
LEMMA JoiningAgrees ==
  ASSUME NEW g, Clusterable(g), NEW a, NEW t, NEW rest, NEW now,
         JoinsAgree(g, "joining", a, t, rest, now)
  PROVE  JoinsAgree(PutInto(g, now[1], t[now[1]]), "joined", a, t, rest \ {now[1]}, now)
  <1> DEFINE e == now[1]
             h == PutInto(g, e, t[e])
  <1>1. e \in g.nodes /\ t[e] \in g.communities
    BY DEF JoinsAgree
  <1>2. /\ h.nodes = g.nodes /\ h.communities = g.communities /\ Settled(h, e, t[e])
        /\ \A x \in Entities : \A d : x # e /\ Settled(g, x, d) => Settled(h, x, d)
    BY <1>1, AssignSettles
  <1> HIDE DEF h
  <1>3. g.nodes \subseteq Entities
    BY DEF Clusterable
  <1>4. JoinsAgree(h, "joined", a, t, rest \ {e}, now)
    BY <1>2, <1>3 DEF JoinsAgree
  <1> QED
    BY <1>4 DEF h

\* Counting after it joined moves nobody.
LEMMA JoinedAgrees ==
  ASSUME NEW g, Clusterable(g), NEW a, NEW t, NEW rest, NEW now,
         JoinsAgree(g, "joined", a, t, rest, now),
         NEW p \in {"join", "done"}, p = "done" => rest = {}
  PROVE  JoinsAgree(RefreshCommunityMemberCount(g, t[now[1]]), p, a, t, rest, << >>)
  <1> DEFINE c == t[now[1]]
             h == RefreshCommunityMemberCount(g, c)
  <1>1. c \in g.communities
    BY DEF JoinsAgree
  <1>2. /\ h.nodes = g.nodes /\ h.communities = g.communities
        /\ \A x, d : Settled(g, x, d) => Settled(h, x, d)
    BY <1>1, RefreshSettles
  <1> HIDE DEF h
  <1>3. JoinsAgree(h, p, a, t, rest, << >>)
    BY <1>2 DEF JoinsAgree
  <1> QED
    BY <1>3 DEF h

-----------------------------------------------------------------------------
(* Merging.                                                                *)

\* Nothing was merged yet: every community ends at itself.
LEMMA ReadAgrees ==
  ASSUME NEW g, Clusterable(g), NEW a, NEW T, NEW t, AssignsAgree(g, "refresh", a, T, t, {}),
         \A e \in a : t[e] \in T,
         NEW M, \A c \in T : M[c] = CommunityMembers(g, c),
         NEW P, \A x \in P : x.left \in T /\ x.right \in T,
         NEW into_k, \A c \in T : into_k[c] = c, NEW now
  PROVE  MergesAgree(g, "merge", a, T, t, {}, M, P, into_k, now)
  <1>1. /\ a = g.nodes /\ T \subseteq g.communities
        /\ \A e \in a : Settled(g, e, t[e])
        /\ \A c \in T : CountedRight(g, c)
    BY DEF AssignsAgree
  <1>2. \A c \in T : M[c] = {e \in a : t[e] = c}
    BY <1>1 DEF CommunityMembers, Settled
  <1>3. Closed(into_k, T) /\ EndsSomewhere(T, into_k)
    BY DEF Closed, EndsSomewhere
  <1>4. \A e \in a : Settled(g, e, into_k[t[e]])
    BY <1>1
  <1> QED
    BY <1>1, <1>2, <1>3, <1>4 DEF MergesAgree

\* From every community one comes to one that was not dissolved, by any way that is
\* closed: Root is defined.
LEMMA RootExists ==
  ASSUME NEW T, NEW into_k, Closed(into_k, T), EndsSomewhere(T, into_k), NEW c \in T
  PROVE  \E r \in T :
           /\ into_k[r] = r
           /\ \A S \in SUBSET T : c \in S /\ (\A x \in S : into_k[x] \in S) => r \in S
  <1> DEFINE Way == {x \in T : \A S \in SUBSET T :
                       c \in S /\ (\A y \in S : into_k[y] \in S) => x \in S}
  <1>1. c \in Way
    OBVIOUS
  <1>2. Closed(into_k, Way)
    BY DEF Closed
  <1>3. PICK r \in Way : into_k[r] = r
    <2> HIDE DEF Way
    <2>1. Way \in SUBSET T
      BY DEF Way
    <2> QED
      BY <1>1, <1>2, <2>1 DEF EndsSomewhere
  <1> QED
    BY <1>3

\* One that went nowhere is dissolved into another of that kind.
LEMMA MergedEndsSomewhere ==
  ASSUME NEW T, T \subseteq Communities, NEW from, DOMAIN from = Communities,
         Closed(from, T), EndsSomewhere(T, from),
         NEW keep \in T, NEW dissolve \in T, keep # dissolve, from[keep] = keep,
         NEW to, to = [from EXCEPT ![dissolve] = keep]
  PROVE  Closed(to, T) /\ EndsSomewhere(T, to)
  <1>1. Closed(to, T)
    BY DEF Closed
  <1>2. ASSUME NEW S \in SUBSET T, S # {}, Closed(to, S) PROVE \E c \in S : to[c] = c
    <2>1. CASE dissolve \in S
      BY <1>2, <2>1 DEF Closed
    <2>2. CASE dissolve \notin S
      <3>1. Closed(from, S)
        BY <1>2, <2>2 DEF Closed
      <3>2. PICK c \in S : from[c] = c
        BY <1>2, <3>1 DEF EndsSomewhere
      <3> QED
        BY <2>2, <3>2
    <2> QED
      BY <2>1, <2>2
  <1> QED
    BY <1>1, <1>2 DEF EndsSomewhere

\* Two communities that were not dissolved are merged: the members of one have to move,
\* and they are in it, because nobody moved into it whom the job remembers as its own.
LEMMA CompareAgrees ==
  ASSUME NEW g, Clusterable(g), NEW a, NEW T, NEW t, NEW rest, NEW M, NEW P, NEW from, NEW now,
         DOMAIN from = Communities,
         MergesAgree(g, "merge", a, T, t, rest, M, P, from, now),
         NEW keep \in T, NEW dissolve \in T, keep # dissolve,
         from[keep] = keep, from[dissolve] = dissolve, NEW Q \in SUBSET P
  PROVE  MergesAgree(g, "moving", a, T, t, M[dissolve], M, Q,
                     [from EXCEPT ![dissolve] = keep], <<keep, dissolve>>)
  <1> DEFINE to == [from EXCEPT ![dissolve] = keep]
             then == <<keep, dissolve>>
  <1>1. /\ a = g.nodes /\ T \subseteq g.communities
        /\ Closed(from, T) /\ EndsSomewhere(T, from)
        /\ \A c \in T : M[c] = {e \in a : t[e] = c}
        /\ \A x \in P : x.left \in T /\ x.right \in T
        /\ \A e \in a : Settled(g, e, from[t[e]])
        /\ \A c \in T : CountedRight(g, c)
    BY DEF MergesAgree
  <1>2. T \subseteq Communities
    BY <1>1 DEF Clusterable
  <1>3. Closed(to, T) /\ EndsSomewhere(T, to)
    BY <1>1, <1>2, MergedEndsSomewhere
  <1>4. \A e \in M[dissolve] : e \in a /\ t[e] = dissolve /\ Settled(g, e, dissolve)
    BY <1>1
  <1>5. \A e \in a \ M[dissolve] : Settled(g, e, to[t[e]])
    BY <1>1
  <1>6. to[dissolve] = keep /\ then[1] = keep /\ then[2] = dissolve
    BY <1>2
  <1> HIDE DEF to, then
  <1>7. MergesAgree(g, "moving", a, T, t, M[dissolve], M, Q, to, then)
    BY <1>1, <1>3, <1>4, <1>5, <1>6 DEF MergesAgree
  <1> QED
    BY <1>7 DEF to, then

\* A pair that is not merged is not looked at again.
LEMMA SkipAgrees ==
  ASSUME NEW g, NEW a, NEW T, NEW t, NEW rest, NEW M, NEW P, NEW into_k, NEW now,
         MergesAgree(g, "merge", a, T, t, rest, M, P, into_k, now), NEW Q \in SUBSET P
  PROVE  MergesAgree(g, "merge", a, T, t, rest, M, Q, into_k, now)
  BY DEF MergesAgree

\* A member moves to the community that is kept: only those two are miscounted.
LEMMA MoveAgrees ==
  ASSUME NEW g, Clusterable(g), NEW a, NEW T, NEW t, NEW rest, NEW M, NEW P, NEW into_k, NEW now,
         MergesAgree(g, "moving", a, T, t, rest, M, P, into_k, now), NEW e \in rest
  PROVE  MergesAgree(PutInto(g, e, now[1]), "moving", a, T, t, rest \ {e},
                     M, P, into_k, now)
  <1> DEFINE h == PutInto(g, e, now[1])
  <1>1. /\ a = g.nodes /\ T \subseteq g.communities
        /\ \A x \in a \ rest : Settled(g, x, into_k[t[x]])
        /\ \A c \in T \ {now[1], now[2]} : CountedRight(g, c)
        /\ now[1] \in T /\ now[2] \in T /\ now[1] # now[2]
        /\ into_k[now[2]] = now[1]
        /\ \A x \in rest : x \in a /\ t[x] = now[2] /\ Settled(g, x, now[2])
    BY DEF MergesAgree
  <1>2. g.nodes \subseteq Entities /\ T \subseteq Communities
    BY <1>1 DEF Clusterable
  <1>3. g.community[e] = now[2]
    BY <1>1 DEF Settled
  <1>4. /\ h.nodes = g.nodes /\ h.communities = g.communities /\ Settled(h, e, now[1])
        /\ \A x \in Entities : \A d : x # e /\ Settled(g, x, d) => Settled(h, x, d)
        /\ \A d \in Communities :
             d # now[1] /\ d # g.community[e] /\ CountedRight(g, d) => CountedRight(h, d)
    BY <1>1, AssignSettles
  <1> HIDE DEF h
  <1>5. \A x \in a \ (rest \ {e}) : Settled(h, x, into_k[t[x]])
    BY <1>1, <1>2, <1>4
  <1>6. \A x \in rest \ {e} : x \in a /\ t[x] = now[2] /\ Settled(h, x, now[2])
    BY <1>1, <1>2, <1>4
  <1>7. \A c \in T \ {now[1], now[2]} : CountedRight(h, c)
    BY <1>1, <1>2, <1>3, <1>4
  <1>8. MergesAgree(h, "moving", a, T, t, rest \ {e}, M, P, into_k, now)
    BY <1>1, <1>4, <1>5, <1>6, <1>7 DEF MergesAgree
  <1> QED
    BY <1>8 DEF h

\* When the members have moved, the community that grew is counted first.
LEMMA CountKeptAgrees ==
  ASSUME NEW g, Clusterable(g), NEW a, NEW T, NEW t, NEW M, NEW P, NEW into_k, NEW now,
         MergesAgree(g, "moving", a, T, t, {}, M, P, into_k, now)
  PROVE  MergesAgree(RefreshCommunityMemberCount(g, now[1]), "moved", a, T, t, {}, M, P, into_k, now)
  <1> DEFINE h == RefreshCommunityMemberCount(g, now[1])
  <1>1. /\ a = g.nodes /\ T \subseteq g.communities
        /\ \A x \in a : Settled(g, x, into_k[t[x]])
        /\ \A c \in T \ {now[1], now[2]} : CountedRight(g, c)
        /\ now[1] \in T /\ now[2] \in T
    BY DEF MergesAgree
  <1>2. T \subseteq Communities
    BY <1>1 DEF Clusterable
  <1>3. /\ h.nodes = g.nodes /\ h.communities = g.communities
        /\ CountedRight(h, now[1]) /\ \A x, d : Settled(g, x, d) => Settled(h, x, d)
        /\ \A d \in Communities : CountedRight(g, d) => CountedRight(h, d)
    BY <1>1, RefreshSettles
  <1> HIDE DEF h
  <1>4. \A c \in T \ {now[2]} : CountedRight(h, c)
    BY <1>1, <1>2, <1>3
  <1>5. \A x \in a : Settled(h, x, into_k[t[x]])
    BY <1>1, <1>3
  <1>6. MergesAgree(h, "moved", a, T, t, {}, M, P, into_k, now)
    BY <1>1, <1>3, <1>4, <1>5 DEF MergesAgree
  <1> QED
    BY <1>6 DEF h

\* When the one that was dissolved is counted too, every community is right again.
LEMMA CountDissolvedAgrees ==
  ASSUME NEW g, Clusterable(g), NEW a, NEW T, NEW t, NEW M, NEW P, NEW into_k, NEW now, NEW next,
         MergesAgree(g, "moved", a, T, t, {}, M, P, into_k, now)
  PROVE  MergesAgree(RefreshCommunityMemberCount(g, now[2]), "merge", a, T, t, {}, M, P, into_k, next)
  <1> DEFINE h == RefreshCommunityMemberCount(g, now[2])
  <1>1. /\ a = g.nodes /\ T \subseteq g.communities
        /\ \A x \in a : Settled(g, x, into_k[t[x]])
        /\ \A c \in T \ {now[2]} : CountedRight(g, c)
        /\ now[2] \in T
    BY DEF MergesAgree
  <1>2. T \subseteq Communities
    BY <1>1 DEF Clusterable
  <1>3. /\ h.nodes = g.nodes /\ h.communities = g.communities
        /\ CountedRight(h, now[2]) /\ \A x, d : Settled(g, x, d) => Settled(h, x, d)
        /\ \A d \in Communities : CountedRight(g, d) => CountedRight(h, d)
    BY <1>1, RefreshSettles
  <1> HIDE DEF h
  <1>4. \A c \in T : CountedRight(h, c)
    BY <1>1, <1>2, <1>3
  <1>5. \A x \in a : Settled(h, x, into_k[t[x]])
    BY <1>1, <1>3
  <1>6. MergesAgree(h, "merge", a, T, t, {}, M, P, into_k, next)
    BY <1>1, <1>3, <1>4, <1>5 DEF MergesAgree
  <1> QED
    BY <1>6 DEF h

\* What is pruned had no members, so nobody loses an edge; a community whose members
\* moved on, and that kept nobody, is gone.
LEMMA PruneAgrees ==
  ASSUME NEW g, Clusterable(g), NEW a, NEW T, NEW t, NEW rest, NEW M, NEW P, NEW into_k, NEW now,
         MergesAgree(g, "merge", a, T, t, rest, M, P, into_k, now), \A e \in a : t[e] \in T
  PROVE  FullAgrees(PruneEmptyCommunities(g), a, T, into_k)
  <1> DEFINE h == PruneEmptyCommunities(g)
  <1>1. /\ a = g.nodes /\ T \subseteq g.communities /\ Closed(into_k, T)
        /\ \A x \in a : Settled(g, x, into_k[t[x]])
        /\ \A c \in T : CountedRight(g, c)
    BY DEF MergesAgree
  <1>2. T \subseteq Communities /\ a \subseteq Entities
    BY <1>1 DEF Clusterable
  <1>3. /\ h.nodes = g.nodes /\ h.community = g.community
        /\ \A d \in Communities : g.memberCount[d] = 0 => d \notin h.communities
        /\ \A d \in g.communities : g.memberCount[d] # 0 =>
             d \in h.communities /\ \A e : Settled(g, e, d) => Settled(h, e, d)
        /\ \A d : CountedRight(g, d) => CountedRight(h, d)
    BY PruneSettles
  <1> HIDE DEF h
  <1>4. ASSUME NEW d \in T
        PROVE  (g.memberCount[d] = 0) <=> (CommunityMembers(g, d) = {})
    <2>1. IsFiniteSet(CommunityMembers(g, d))
      BY <1>1, <1>2, FS_Subset, ClusteringAssumption DEF ClusteringAssumption, CommunityMembers
    <2> QED
      BY <1>1, <2>1, FS_EmptySet DEF CountedRight
  <1>5. ASSUME NEW e \in a
        PROVE  /\ into_k[t[e]] \in T /\ into_k[t[e]] \in h.communities
               /\ Settled(h, e, into_k[t[e]])
    <2>1. into_k[t[e]] \in T
      BY <1>1 DEF Closed
    <2>2. e \in CommunityMembers(g, into_k[t[e]])
      BY <1>1 DEF CommunityMembers, Settled
    <2> QED
      BY <1>1, <1>3, <1>4, <2>1, <2>2
  <1>6. ASSUME NEW e \in a
        PROVE  /\ h.community[e] \in h.communities
               /\ {x[2] : x \in {y \in h.inCommunity : y[1] = e}} = {h.community[e]}
    <2>1. /\ h.community[e] = into_k[t[e]]
          /\ {y \in h.inCommunity : y[1] = e} = {<<e, h.community[e]>>}
      BY <1>5 DEF Settled
    <2>2. {x[2] : x \in {<<e, h.community[e]>>}} = {h.community[e]}
      OBVIOUS
    <2> QED
      BY <1>5, <2>1, <2>2
  <1>7. \A c \in {h.community[e] : e \in a} : CountedRight(h, c)
    BY <1>1, <1>3, <1>5 DEF Settled
  <1>8. ASSUME NEW c \in T, into_k[c] # c, \A x \in T \ {c} : into_k[x] # c
        PROVE  c \notin h.communities
    <2>1. \A e \in a : g.community[e] # c
      BY <1>1, <1>8 DEF Settled
    <2>2. CommunityMembers(g, c) = {}
      BY <1>1, <2>1 DEF CommunityMembers
    <2> QED
      BY <1>2, <1>3, <1>4, <2>2
  <1>9. FullAgrees(h, a, T, into_k)
    BY <1>6, <1>7, <1>8 DEF FullAgrees
  <1> QED
    BY <1>9 DEF h

-----------------------------------------------------------------------------
(* The steps.                                                              *)

\* What each of these methods writes can be clustered again, whatever it finds.
LEMMA WritesClusterable ==
  ASSUME NEW g, Clusterable(g)
  PROVE  /\ \A c \in Communities : Clusterable(UpsertCommunity(g, c))
         /\ \A old, e, c : Clusterable(AssignEntityCommunity(g, old, e, c))
         /\ \A c : Clusterable(RefreshCommunityMemberCount(g, c))
         /\ Clusterable(PruneEmptyCommunities(g))
  <1>2. ASSUME NEW c PROVE Clusterable(RefreshCommunityMemberCount(g, c))
    <2>1. CASE c \in g.communities
      BY <2>1, RefreshSettles
    <2>2. CASE c \notin g.communities
      BY <2>2 DEF RefreshCommunityMemberCount
    <2> QED
      BY <2>1, <2>2
  <1> QED
    BY <1>2, AssignKeepsClusterable, UpsertSettles, PruneSettles

\* The variables of the other jobs stay, and a write disturbs them.
Leaves(k) ==
  /\ IsPerJob(step') /\ IsPerJob(todo') /\ IsPerJob(target') /\ IsPerJob(members')
  /\ IsPerJob(pairs') /\ IsPerJob(into') /\ IsPerJob(current')
  /\ \A j \in Clusterers \ {k} :
       /\ step'[j] = step[j] /\ todo'[j] = todo[j] /\ target'[j] = target[j]
       /\ members'[j] = members[j] /\ pairs'[j] = pairs[j] /\ into'[j] = into[j]
       /\ current'[j] = current[j]
       /\ step[j] # "idle" /\ j \notin disturbed' => net' = net /\ j \notin disturbed

\* The matches of the other jobs are what the write has left of them, or stay.
Rematches(k) ==
  \/ Writes(k, net')
  \/ /\ net' = net /\ IsPerJob(matched')
     /\ \A j \in Clusterers \ {k} : matched'[j] = matched[j] /\ (j \in late <=> j \in late')
     /\ k \in Clusterers => \A m \in matched'[k] : Matched(k, m)'

LEMMA WritesGraph ==
  ASSUME NEW k, NEW g, Writes(k, g)
  PROVE  net' = g /\ Rematches(k)
  <1>1. net' = g
    BY DEF Writes
  <1> QED
    BY <1>1 DEF Rematches

\* Nothing is matched at a step that assigns nothing.
LEMMA NothingMatched ==
  ASSUME SettleInv, NEW k \in Clusterers,
         \/ step[k] \notin {"assign", "moving", "joining"}
         \/ step[k] # "joining" /\ todo[k] = {}
  PROVE  matched[k] = {}
  BY DEF SettleInv, Matched

LEMMA MatchesStay ==
  ASSUME SettleInv, NEW k, k \in Clusterers => matched[k] = {}, net' = net, UNCHANGED matchVars
  PROVE  Rematches(k)
  BY DEF SettleInv, matchVars, Rematches, IsPerJob

\* Whoever writes, the other jobs' matches are still good.
LEMMA MatchesStep ==
  ASSUME SettleInv, NEW k, Leaves(k), Rematches(k)
  PROVE  IsPerJob(matched') /\ \A j \in Clusterers : \A m \in matched'[j] : Matched(j, m)'
  <1>1. CASE Writes(k, net')
    <2>1. PICK kept : kept = (net.inCommunity \ Replaced(k)) \cap net'.inCommunity
      OBVIOUS
    <2>2. PICK others : others = {j \in Clusterers \ {k} : step[j] # "idle"}
      OBVIOUS
    <2>3. PICK new : new = {x[1] : x \in net'.inCommunity \ kept}
      OBVIOUS
    <2>4. /\ disturbed' = IF net' = net /\ Replaced(k) = {} THEN disturbed ELSE disturbed \cup others
          /\ matched' = [j \in Clusterers |->
               IF j = k THEN {} ELSE {StillMatched(m, net', kept) : m \in matched[j]}]
          /\ late' = (late \cup {j \in others : \E m \in matched[j] : m.entity \in new}) \ {k}
      BY <1>1, <2>1, <2>2, <2>3 DEF Writes
    <2>5. ASSUME NEW j \in Clusterers, NEW n \in matched'[j] PROVE Matched(j, n)'
      <3>1. j # k /\ matched'[j] = {StillMatched(m, net', kept) : m \in matched[j]}
        BY <2>4, <2>5
      <3>2. PICK m \in matched[j] : n = StillMatched(m, net', kept)
        BY <2>5, <3>1
      <3>3. Matched(j, m)
        BY DEF SettleInv
      <3>4. /\ n = [entity |-> m.entity, community |-> m.community, edges |-> m.edges \cap kept,
                    there |-> m.there /\ m.entity \in net'.nodes /\ m.community \in net'.communities]
            /\ m.there \in BOOLEAN /\ step[j] # "idle" /\ j \in others
        BY <2>2, <3>1, <3>2, <3>3 DEF Matched, StillMatched
      <3>5. /\ step'[j] = step[j] /\ todo'[j] = todo[j] /\ target'[j] = target[j]
            /\ current'[j] = current[j]
            /\ j \notin disturbed' => j \notin disturbed /\ net' = net /\ Replaced(k) = {}
        BY <2>4, <3>1, <3>4 DEF Leaves
      <3>6. ASSUME n.there, j \notin late' PROVE EdgesOf(net', n.entity) \subseteq n.edges
        <4>1. j \notin late /\ m.entity \notin new
          BY <2>4, <3>1, <3>4, <3>6
        <4>2. EdgesOf(net, m.entity) \subseteq m.edges
          BY <3>3, <3>4, <3>6, <4>1 DEF Matched
        <4>3. \A x \in net'.inCommunity : x[1] = m.entity => x \in kept
          BY <2>3, <4>1
        <4>4. \A x \in kept : x[1] = m.entity => x \in EdgesOf(net, m.entity)
          BY <2>1 DEF EdgesOf
        <4> QED
          BY <3>4, <4>2, <4>3, <4>4 DEF EdgesOf
      <3>7. ASSUME j \notin disturbed'
            PROVE  /\ n.edges = EdgesOf(net', n.entity)
                   /\ n.entity \in net'.nodes /\ n.community \in net'.communities => n.there
        <4>1. kept = net.inCommunity /\ net' = net
          BY <2>1, <3>5, <3>7
        <4>2. /\ m.edges = EdgesOf(net, m.entity)
              /\ m.entity \in net.nodes /\ m.community \in net.communities => m.there
          BY <3>3, <3>5, <3>7 DEF Matched
        <4>3. m.edges \cap kept = EdgesOf(net, m.entity)
          BY <4>1, <4>2 DEF EdgesOf
        <4> QED
          BY <3>4, <4>1, <4>2, <4>3
      <3> QED
        BY <3>3, <3>4, <3>5, <3>6, <3>7 DEF Matched
    <2>6. IsPerJob(matched')
      BY <2>4 DEF IsPerJob
    <2> QED
      BY <2>5, <2>6
  <1>2. CASE ~Writes(k, net')
    <2>1. /\ net' = net /\ IsPerJob(matched')
          /\ \A j \in Clusterers \ {k} : matched'[j] = matched[j] /\ (j \in late <=> j \in late')
          /\ k \in Clusterers => \A m \in matched'[k] : Matched(k, m)'
      BY <1>2 DEF Rematches
    <2>2. ASSUME NEW j \in Clusterers \ {k}, NEW m \in matched'[j] PROVE Matched(j, m)'
      <3>1. Matched(j, m) /\ step[j] # "idle"
        BY <2>1 DEF SettleInv, Matched
      <3>2. /\ step'[j] = step[j] /\ todo'[j] = todo[j] /\ target'[j] = target[j]
            /\ current'[j] = current[j] /\ (j \notin disturbed' => j \notin disturbed)
        BY <3>1 DEF Leaves
      <3> QED
        BY <2>1, <3>1, <3>2 DEF Matched
    <2> QED
      BY <2>1, <2>2
  <1> QED
    BY <1>1, <1>2

\* What a job relies on stays when neither its variables nor the graph change.
LEMMA JobStays ==
  ASSUME NEW j \in Clusterers, net' = net,
         step'[j] = step[j], todo'[j] = todo[j], target'[j] = target[j],
         members'[j] = members[j], pairs'[j] = pairs[j], into'[j] = into[j],
         current'[j] = current[j], JobAgrees(j)
  PROVE  JobAgrees(j)'
  <1>1. Assigned(j)' = Assigned(j) /\ Targets(j)' = Targets(j)
    BY DEF Assigned, Targets
  <1> QED
    BY <1>1 DEF JobAgrees

\* A step changes one job at most, and a change of the graph disturbs the others.
LEMMA Step ==
  ASSUME SettleInv, NEW k, Leaves(k), Rematches(k), Clusterable(net'),
         k \in Clusterers =>
           JobTyped(k)' /\ (step'[k] # "idle" /\ k \notin disturbed' => JobAgrees(k)')
  PROVE  SettleInv'
  <1>1. ASSUME NEW j \in Clusterers \ {k} PROVE JobTyped(j)'
    BY <1>1 DEF SettleInv, Leaves, JobTyped, Assigned
  <1>2. ASSUME NEW j \in Clusterers \ {k}, step'[j] # "idle", j \notin disturbed'
        PROVE  JobAgrees(j)'
    <2>1. step[j] # "idle" /\ net' = net /\ j \notin disturbed
      BY <1>2 DEF Leaves
    <2>2. JobAgrees(j)
      BY <2>1 DEF SettleInv
    <2> QED
      BY <2>1, <2>2, JobStays DEF Leaves
  <1>3. \A j \in Clusterers : JobTyped(j)'
    BY <1>1
  <1>4. \A j \in Clusterers : step'[j] # "idle" /\ j \notin disturbed' => JobAgrees(j)'
    BY <1>2
  <1>5. /\ IsPerJob(step)' /\ IsPerJob(todo)' /\ IsPerJob(target)' /\ IsPerJob(members)'
        /\ IsPerJob(pairs)' /\ IsPerJob(into)' /\ IsPerJob(current)'
    BY DEF Leaves, IsPerJob
  <1>6. Clusterable(net)'
    OBVIOUS
  <1> QED
    BY <1>3, <1>4, <1>5, <1>6, MatchesStep DEF SettleInv

\* What a job decided on are communities.
LEMMA TargetsAreCommunities ==
  ASSUME NEW k \in Clusterers, JobTyped(k)
  PROVE  /\ \A e \in Assigned(k) : e \in Entities /\ target[k][e] \in Targets(k)
         /\ Targets(k) \subseteq Communities
  BY DEF JobTyped, Assigned, Targets

\* A write of a loop keeps the invariant when it keeps what the loop relies on.
LEMMA TakesStep ==
  ASSUME SettleInv, NEW k \in Clusterers, NEW p, p \notin {"idle", "join", "joining", "joined"},
         NEW x, NEW g, Takes(k, p, x, g), Clusterable(g),
         step[k] = p /\ x \in todo[k] /\ k \notin disturbed =>
           Agrees(g, p, Assigned(k), Targets(k), target[k], todo[k] \ {x}, members[k],
                  pairs[k], into[k], current[k])
  PROVE  SettleInv'
  <1>1. /\ step[k] = p /\ x \in todo[k] /\ todo' = [todo EXCEPT ![k] = todo[k] \ {x}]
        /\ net' = g /\ step' = step /\ target' = target /\ members' = members
        /\ pairs' = pairs /\ into' = into /\ current' = current /\ Writes(k, g)
        /\ disturbed' = IF g = net /\ Replaced(k) = {} THEN disturbed ELSE
             disturbed \cup {j \in Clusterers \ {k} : step[j] # "idle"}
    BY DEF Takes, Writes, mergeVars
  <1>2. todo'[k] = todo[k] \ {x}
    BY <1>1 DEF SettleInv, IsPerJob
  <1>3. Leaves(k)
    BY <1>1 DEF SettleInv, IsPerJob, Leaves
  <1>4. JobTyped(k)'
    BY <1>1 DEF SettleInv, JobTyped
  <1>5. Assigned(k)' = Assigned(k) /\ Targets(k)' = Targets(k)
    BY <1>1 DEF Assigned, Targets
  <1>6. ASSUME k \notin disturbed' PROVE JobAgrees(k)'
    <2>1. k \notin disturbed
      BY <1>1, <1>6
    <2> QED
      BY <1>1, <1>2, <1>5, <2>1 DEF JobAgrees
  <1>7. Rematches(k)
    BY <1>1, WritesGraph
  <1> QED
    BY <1>1, <1>3, <1>4, <1>6, <1>7, Step

\* Each of the loops of writes.
LEMMA LoopsStep ==
  ASSUME SettleInv, NEW k \in Clusterers
  PROVE  \A c \in Communities : Upserts(k, c) \/ Refreshes(k, c) => SettleInv'
  <1>1. Clusterable(net) /\ JobTyped(k) /\ (step[k] # "idle" /\ k \notin disturbed => JobAgrees(k))
    BY DEF SettleInv
  <1>2. ASSUME NEW c \in Communities, Upserts(k, c) PROVE SettleInv'
    <2>1. Takes(k, "upsert", c, UpsertCommunity(net, c))
      BY <1>2 DEF Upserts
    <2>2. Clusterable(UpsertCommunity(net, c))
      BY <1>1, WritesClusterable
    <2>3. ASSUME step[k] = "upsert", k \notin disturbed
          PROVE  Agrees(UpsertCommunity(net, c), "upsert", Assigned(k), Targets(k), target[k],
                        todo[k] \ {c}, members[k], pairs[k], into[k], current[k])
      <3>1. AssignsAgree(net, "upsert", Assigned(k), Targets(k), target[k], todo[k])
        BY <1>1, <2>3 DEF JobAgrees, Agrees
      <3> QED
        BY <1>1, <3>1, UpsertAgrees DEF Agrees
    <2> QED
      BY <2>1, <2>2, <2>3, TakesStep
  <1>3. ASSUME NEW c \in Communities, Refreshes(k, c) PROVE SettleInv'
    <2>1. Takes(k, "refresh", c, RefreshCommunityMemberCount(net, c))
      BY <1>3 DEF Refreshes
    <2>2. Clusterable(RefreshCommunityMemberCount(net, c))
      BY <1>1, WritesClusterable
    <2>3. ASSUME step[k] = "refresh", c \in todo[k], k \notin disturbed
          PROVE  Agrees(RefreshCommunityMemberCount(net, c), "refresh", Assigned(k), Targets(k),
                        target[k], todo[k] \ {c}, members[k], pairs[k], into[k], current[k])
      <3>1. AssignsAgree(net, "refresh", Assigned(k), Targets(k), target[k], todo[k])
        BY <1>1, <2>3 DEF JobAgrees, Agrees
      <3> QED
        BY <1>1, <2>3, <3>1, RefreshAgrees DEF Agrees
    <2> QED
      BY <2>1, <2>2, <2>3, TakesStep
  <1> QED
    BY <1>2, <1>3

\* An assignment matches what it will write.
LEMMA MatchesNothingElse ==
  ASSUME SettleInv, NEW k \in Clusterers, NEW e, NEW c, Matches(k, e, c),
         step[k] \in {"assign", "moving", "joining"},
         step[k] = "joining" => e = current[k][1], step[k] # "joining" => e \in todo[k],
         step[k] = "moving" => c = current[k][1], step[k] # "moving" => c = target[k][e]
  PROVE  SettleInv'
  <1>1. PICK m : m = [entity |-> e, community |-> c, edges |-> EdgesOf(net, e),
                      there |-> e \in net.nodes /\ c \in net.communities]
    OBVIOUS
  <1>2. /\ matched' = [matched EXCEPT ![k] = {m}]
        /\ UNCHANGED <<net, step, todo, target, members, pairs, into, current, disturbed, late>>
    BY <1>1 DEF Matches, mergeVars
  <1>3. matched'[k] = {m}
    BY <1>2 DEF SettleInv, IsPerJob
  <1>4. Leaves(k)
    BY <1>2 DEF SettleInv, IsPerJob, Leaves
  <1>5. Matched(k, m)'
    BY <1>1, <1>2 DEF Matched
  <1>6. Rematches(k)
    BY <1>2, <1>3, <1>5 DEF Rematches, SettleInv, IsPerJob
  <1>7. JobTyped(k)'
    BY <1>2 DEF SettleInv, JobTyped, Assigned
  <1>8. step'[k] # "idle" /\ k \notin disturbed' => JobAgrees(k)'
    BY <1>2, JobStays DEF SettleInv
  <1>9. Clusterable(net')
    BY <1>2 DEF SettleInv
  <1> QED
    BY <1>4, <1>6, <1>7, <1>8, <1>9, Step

LEMMA MatchesSteps ==
  ASSUME SettleInv, NEW k \in Clusterers
  PROVE  /\ \A e \in Entities : Assigns(k, e) \/ MovesMember(k, e) => SettleInv'
         /\ JoinsCommunity(k) => SettleInv'
  <1>1. ASSUME NEW e \in Entities, Assigns(k, e) PROVE SettleInv'
    BY <1>1, MatchesNothingElse DEF Assigns
  <1>2. ASSUME NEW e \in Entities, MovesMember(k, e) PROVE SettleInv'
    BY <1>2, MatchesNothingElse DEF MovesMember
  <1>3. ASSUME JoinsCommunity(k) PROVE SettleInv'
    BY <1>3, MatchesNothingElse DEF JoinsCommunity
  <1> QED
    BY <1>1, <1>2, <1>3

\* It writes; if nobody disturbed the job, nothing has changed since it matched.
LEMMA AssignsMatchedStep ==
  ASSUME SettleInv, NEW k \in Clusterers, AssignsMatched(k)
  PROVE  SettleInv'
  <1>1. /\ Clusterable(net) /\ JobTyped(k)
        /\ step[k] # "idle" /\ k \notin disturbed => JobAgrees(k)
    BY DEF SettleInv
  <1>2. PICK m \in matched[k] :
          /\ step' = [step EXCEPT ![k] = IF step[k] = "joining" THEN "joined" ELSE step[k]]
          /\ todo' = [todo EXCEPT ![k] = todo[k] \ {m.entity}]
          /\ Writes(k, IF m.there THEN AssignEntityCommunity(net, m.edges, m.entity, m.community)
                       ELSE net)
          /\ UNCHANGED <<target, members, pairs, into, current>>
    BY DEF AssignsMatched, mergeVars
  <1>3. PICK e, c : e = m.entity /\ c = m.community
    OBVIOUS
  <1>4. /\ net' = IF m.there THEN AssignEntityCommunity(net, m.edges, e, c) ELSE net
        /\ Rematches(k)
    BY <1>2, <1>3, WritesGraph
  <1>5. disturbed' = IF net' = net /\ Replaced(k) = {} THEN disturbed ELSE
          disturbed \cup {j \in Clusterers \ {k} : step[j] # "idle"}
    BY <1>2 DEF Writes
  <1>6. /\ step[k] \in {"assign", "moving", "joining"} /\ m.there \in BOOLEAN
        /\ step[k] = "joining" => e = current[k][1]
        /\ step[k] # "joining" => e \in todo[k]
        /\ step[k] = "moving" => c = current[k][1]
        /\ step[k] # "moving" => c = target[k][e]
        /\ m.there => e \in net.nodes /\ c \in net.communities
        /\ k \notin disturbed =>
             m.edges = EdgesOf(net, e) /\ (e \in net.nodes /\ c \in net.communities => m.there)
    BY <1>3 DEF SettleInv, Matched
  <1>7. Clusterable(net')
    BY <1>1, <1>4, WritesClusterable
  <1>8. /\ step'[k] = IF step[k] = "joining" THEN "joined" ELSE step[k]
        /\ todo'[k] = todo[k] \ {e}
    BY <1>2, <1>3 DEF SettleInv, IsPerJob
  <1>9. Leaves(k)
    BY <1>2, <1>5 DEF SettleInv, IsPerJob, Leaves
  <1>10. Assigned(k)' = Assigned(k) /\ Targets(k)' = Targets(k)
    BY <1>2 DEF Assigned, Targets
  <1>11. JobTyped(k)'
    BY <1>1, <1>2, <1>8, <1>10 DEF JobTyped
  <1>12. ASSUME k \notin disturbed' PROVE JobAgrees(k)'
    <2>1. k \notin disturbed /\ JobAgrees(k)
      BY <1>1, <1>5, <1>6, <1>12
    <2>2. net' = PutInto(net, e, c)
      BY <1>4, <1>6, <2>1 DEF PutInto, AssignEntityCommunity
    <2>3. CASE step[k] = "assign"
      <3>1. AssignsAgree(net, "assign", Assigned(k), Targets(k), target[k], todo[k])
        BY <2>1, <2>3 DEF JobAgrees, Agrees
      <3>2. target[k][e] \in Targets(k)
        BY <1>1, <1>6, <2>3, <3>1, TargetsAreCommunities DEF AssignsAgree
      <3>3. AssignsAgree(net', "assign", Assigned(k), Targets(k), target[k], todo[k] \ {e})
        BY <1>1, <1>6, <2>2, <2>3, <3>1, <3>2, AssignAgrees
      <3> QED
        BY <1>2, <1>8, <1>10, <2>3, <3>3 DEF JobAgrees, Agrees
    <2>4. CASE step[k] = "moving"
      <3>1. MergesAgree(net, "moving", Assigned(k), Targets(k), target[k], todo[k], members[k],
                        pairs[k], into[k], current[k])
        BY <2>1, <2>4 DEF JobAgrees, Agrees
      <3>2. MergesAgree(net', "moving", Assigned(k), Targets(k), target[k], todo[k] \ {e},
                        members[k], pairs[k], into[k], current[k])
        BY <1>1, <1>6, <2>2, <2>4, <3>1, MoveAgrees
      <3> QED
        BY <1>2, <1>8, <1>10, <2>4, <3>2 DEF JobAgrees, Agrees
    <2>5. CASE step[k] = "joining"
      <3>1. JoinsAgree(net, "joining", Assigned(k), target[k], todo[k], current[k])
        BY <2>1, <2>5 DEF JobAgrees, Agrees
      <3>2. JoinsAgree(net', "joined", Assigned(k), target[k], todo[k] \ {e}, current[k])
        BY <1>1, <1>6, <2>2, <2>5, <3>1, JoiningAgrees
      <3> QED
        BY <1>2, <1>8, <1>10, <2>5, <3>2 DEF JobAgrees, Agrees
    <2> QED
      BY <1>6, <2>3, <2>4, <2>5
  <1> QED
    BY <1>4, <1>7, <1>9, <1>11, <1>12, Step

\* From one loop to the next.
LEMMA GoesOnStep ==
  ASSUME SettleInv, NEW k \in Clusterers, GoesOn(k)
  PROVE  SettleInv'
  <1>1. JobTyped(k) /\ (step[k] # "idle" /\ k \notin disturbed => JobAgrees(k))
    BY DEF SettleInv
  <1>2. PICK p, q, rest :
          /\ p \in {"upsert", "assign"} /\ q \in {"assign", "refresh"}
          /\ step[k] = p /\ todo[k] = {} /\ step' = [step EXCEPT ![k] = q]
          /\ todo' = [todo EXCEPT ![k] = rest]
          /\ \/ p = "upsert" /\ q = "assign" /\ rest = Assigned(k)
             \/ p = "assign" /\ q = "refresh" /\ rest = Targets(k)
    BY DEF GoesOn, Advances
  <1>3. UNCHANGED <<net, target, members, pairs, into, current, disturbed>>
    BY DEF GoesOn, mergeVars
  <1>4. step'[k] = q /\ todo'[k] = rest
    BY <1>2 DEF SettleInv, IsPerJob
  <1>5. Leaves(k)
    BY <1>2, <1>3 DEF SettleInv, IsPerJob, Leaves
  <1>6. JobTyped(k)'
    BY <1>1, <1>2, <1>3, <1>4 DEF JobTyped
  <1>7. Assigned(k)' = Assigned(k) /\ Targets(k)' = Targets(k)
    BY <1>3 DEF Assigned, Targets
  <1>8. ASSUME k \notin disturbed PROVE JobAgrees(k)'
    <2>1. AssignsAgree(net, p, Assigned(k), Targets(k), target[k], {})
      BY <1>1, <1>2, <1>8 DEF JobAgrees, Agrees
    <2>2. AssignsAgree(net, q, Assigned(k), Targets(k), target[k], rest)
      BY <1>2, <2>1 DEF AssignsAgree
    <2>3. Agrees(net, q, Assigned(k), Targets(k), target[k], rest, members[k], pairs[k],
                 into[k], current[k])
      BY <1>2, <2>2 DEF Agrees
    <2> QED
      BY <1>3, <1>4, <1>7, <2>3 DEF JobAgrees
  <1>9. Clusterable(net')
    BY <1>3 DEF SettleInv
  <1>10. Rematches(k)
    BY <1>2, <1>3, NothingMatched, MatchesStay DEF GoesOn
  <1> QED
    BY <1>3, <1>5, <1>6, <1>8, <1>9, <1>10, Step

\* The first of the three writes of an entity that joins.
LEMMA JoinsStep ==
  ASSUME SettleInv, NEW k \in Clusterers, NEW e \in Entities, Joins(k, e)
  PROVE  SettleInv'
  <1>1. /\ Clusterable(net) /\ JobTyped(k)
        /\ step[k] # "idle" /\ k \notin disturbed => JobAgrees(k)
    BY DEF SettleInv
  <1>2. /\ step[k] = "join" /\ e \in todo[k]
        /\ step' = [step EXCEPT ![k] = "joining"]
        /\ todo' = [todo EXCEPT ![k] = todo[k] \ {e}]
        /\ current' = [current EXCEPT ![k] = <<e>>]
        /\ net' = UpsertCommunity(net, target[k][e])
        /\ disturbed' = IF net' = net /\ Replaced(k) = {} THEN disturbed ELSE
             disturbed \cup {j \in Clusterers \ {k} : step[j] # "idle"}
        /\ UNCHANGED <<target, members, pairs, into>>
    BY DEF Joins, Writes, mergeVars
  <1>3. e \in Assigned(k) /\ target[k][e] \in Communities
    BY <1>1, <1>2, TargetsAreCommunities DEF JobTyped
  <1>4. Clusterable(net')
    BY <1>1, <1>2, <1>3, WritesClusterable
  <1>5. step'[k] = "joining" /\ todo'[k] = todo[k] \ {e} /\ current'[k] = <<e>>
    BY <1>2 DEF SettleInv, IsPerJob
  <1>6. Leaves(k)
    BY <1>2 DEF SettleInv, IsPerJob, Leaves
  <1>7. Assigned(k)' = Assigned(k) /\ Targets(k)' = Targets(k)
    BY <1>2 DEF Assigned, Targets
  <1>8. JobTyped(k)'
    BY <1>1, <1>2, <1>5, <1>7 DEF JobTyped
  <1>9. ASSUME k \notin disturbed' PROVE JobAgrees(k)'
    <2>1. JoinsAgree(net, "join", Assigned(k), target[k], todo[k], current[k])
      BY <1>1, <1>2, <1>9 DEF JobAgrees, Agrees
    <2>2. JoinsAgree(net', "joining", Assigned(k), target[k], todo[k] \ {e}, <<e>>)
      BY <1>1, <1>2, <1>3, <2>1, JoinAgrees
    <2> QED
      BY <1>2, <1>5, <1>7, <2>2 DEF JobAgrees, Agrees
  <1>10. Rematches(k)
    BY WritesGraph DEF Joins
  <1> QED
    BY <1>4, <1>6, <1>8, <1>9, <1>10, Step

\* The last of them.
LEMMA CountsJoinedStep ==
  ASSUME SettleInv, NEW k \in Clusterers, CountsJoined(k)
  PROVE  SettleInv'
  <1>1. /\ Clusterable(net) /\ JobTyped(k)
        /\ step[k] # "idle" /\ k \notin disturbed => JobAgrees(k)
    BY DEF SettleInv
  <1>2. PICK p \in {"join", "done"} :
          /\ p = (IF todo[k] = {} THEN "done" ELSE "join")
          /\ step[k] = "joined" /\ step' = [step EXCEPT ![k] = p]
          /\ current' = [current EXCEPT ![k] = << >>]
          /\ net' = RefreshCommunityMemberCount(net, target[k][current[k][1]])
          /\ disturbed' = IF net' = net /\ Replaced(k) = {} THEN disturbed ELSE
               disturbed \cup {j \in Clusterers \ {k} : step[j] # "idle"}
          /\ UNCHANGED <<todo, target, members, pairs, into>>
    BY DEF CountsJoined, Writes, mergeVars
  <1>3. Clusterable(net')
    BY <1>1, <1>2, WritesClusterable
  <1>4. step'[k] = p /\ current'[k] = << >>
    BY <1>2 DEF SettleInv, IsPerJob
  <1>5. Leaves(k)
    BY <1>2 DEF SettleInv, IsPerJob, Leaves
  <1>6. Assigned(k)' = Assigned(k) /\ Targets(k)' = Targets(k)
    BY <1>2 DEF Assigned, Targets
  <1>7. JobTyped(k)'
    BY <1>1, <1>2, <1>4, <1>6 DEF JobTyped
  <1>8. ASSUME k \notin disturbed' PROVE JobAgrees(k)'
    <2>1. JoinsAgree(net, "joined", Assigned(k), target[k], todo[k], current[k])
      BY <1>1, <1>2, <1>8 DEF JobAgrees, Agrees
    <2>2. JoinsAgree(net', p, Assigned(k), target[k], todo[k], << >>)
      BY <1>1, <1>2, <2>1, JoinedAgrees
    <2> QED
      BY <1>2, <1>4, <1>6, <2>2 DEF JobAgrees, Agrees
  <1>9. Rematches(k)
    BY WritesGraph DEF CountsJoined
  <1> QED
    BY <1>3, <1>5, <1>7, <1>8, <1>9, Step

\* Members are read once every community is counted.
LEMMA ReadsMembersStep ==
  ASSUME SettleInv, NEW k \in Clusterers, ReadsMembers(k)
  PROVE  SettleInv'
  <1>1. /\ Clusterable(net) /\ JobTyped(k)
        /\ step[k] # "idle" /\ k \notin disturbed => JobAgrees(k)
    BY DEF SettleInv
  <1>2. PICK s \in SetToSeqs(Targets(k)) : pairs' = [pairs EXCEPT ![k] = Pairs(s)]
    BY DEF ReadsMembers
  <1>3. /\ step[k] = "refresh" /\ todo[k] = {}
        /\ step' = [step EXCEPT ![k] = "merge"] /\ todo' = [todo EXCEPT ![k] = {}]
        /\ members' = [members EXCEPT ![k] = [c \in Communities |->
             IF c \in Targets(k) THEN CommunityMembers(net, c) ELSE {}]]
        /\ into' = [into EXCEPT ![k] = [c \in Communities |-> c]]
        /\ UNCHANGED <<net, target, current, disturbed>>
    BY DEF ReadsMembers, Advances
  <1>4. /\ step'[k] = "merge" /\ todo'[k] = {} /\ pairs'[k] = Pairs(s)
        /\ members'[k] = [c \in Communities |->
             IF c \in Targets(k) THEN CommunityMembers(net, c) ELSE {}]
        /\ into'[k] = [c \in Communities |-> c]
    BY <1>2, <1>3 DEF SettleInv, IsPerJob
  <1>5. Leaves(k)
    BY <1>2, <1>3 DEF SettleInv, IsPerJob, Leaves
  <1>6. Assigned(k)' = Assigned(k) /\ Targets(k)' = Targets(k)
    BY <1>3 DEF Assigned, Targets
  <1>7. JobTyped(k)'
    BY <1>1, <1>3, <1>4 DEF JobTyped
  <1>8. \A x \in Pairs(s) : x.left \in Targets(k) /\ x.right \in Targets(k)
    <2>1. \A i \in DOMAIN s : s[i] \in Targets(k)
      BY DEF SetToSeqs
    <2> QED
      BY <2>1 DEF Pairs
  <1>9. ASSUME k \notin disturbed PROVE JobAgrees(k)'
    <2>1. AssignsAgree(net, "refresh", Assigned(k), Targets(k), target[k], {})
      BY <1>1, <1>3, <1>9 DEF JobAgrees, Agrees
    <2>2. /\ \A e \in Assigned(k) : target[k][e] \in Targets(k)
          /\ Targets(k) \subseteq Communities
      BY <1>1, TargetsAreCommunities
    <2>3. /\ \A c \in Targets(k) : members'[k][c] = CommunityMembers(net, c)
          /\ \A c \in Targets(k) : into'[k][c] = c
      BY <1>4, <2>2
    <2>4. MergesAgree(net, "merge", Assigned(k), Targets(k), target[k], {}, members'[k],
                      pairs'[k], into'[k], current[k])
      BY <1>1, <1>4, <1>8, <2>1, <2>2, <2>3, ReadAgrees
    <2> QED
      BY <1>3, <1>4, <1>6, <2>4 DEF JobAgrees, Agrees
  <1>10. Clusterable(net')
    BY <1>1, <1>3
  <1>11. Rematches(k)
    BY <1>3, NothingMatched, MatchesStay DEF ReadsMembers
  <1> QED
    BY <1>3, <1>5, <1>7, <1>9, <1>10, <1>11, Step

\* What Root finds.
LEMMA RootIsKept ==
  ASSUME NEW k, Closed(into[k], Targets(k)), EndsSomewhere(Targets(k), into[k]),
         NEW c \in Targets(k)
  PROVE  Root(k, c) \in Targets(k) /\ into[k][Root(k, c)] = Root(k, c)
  <1>1. \E r \in Targets(k) :
          /\ into[k][r] = r
          /\ \A S \in SUBSET Targets(k) : c \in S /\ (\A x \in S : into[k][x] \in S) => r \in S
    BY RootExists
  <1> QED
    BY <1>1 DEF Root

\* A pair is compared by where its communities went.
LEMMA ComparesPairStep ==
  ASSUME SettleInv, NEW k \in Clusterers, ComparesPair(k)
  PROVE  SettleInv'
  <1>1. /\ Clusterable(net) /\ JobTyped(k)
        /\ step[k] # "idle" /\ k \notin disturbed => JobAgrees(k)
    BY DEF SettleInv
  <1>2. PICK p \in First(pairs[k]) :
          LET l == Root(k, p.left)
              r == Root(k, p.right)
              keep == IF Size(k, l) >= Size(k, r) THEN l ELSE r
              dissolve == IF keep = l THEN r ELSE l
          IN /\ step[k] = "merge" /\ pairs' = [pairs EXCEPT ![k] = pairs[k] \ {p}]
             /\ \/ UNCHANGED <<into, step, todo, current>>
                \/ /\ l # r /\ into' = [into EXCEPT ![k][dissolve] = keep]
                   /\ current' = [current EXCEPT ![k] = <<keep, dissolve>>]
                   /\ step' = [step EXCEPT ![k] = "moving"]
                   /\ todo' = [todo EXCEPT ![k] = members[k][dissolve]]
    BY DEF ComparesPair
  <1> DEFINE l == Root(k, p.left)
             r == Root(k, p.right)
             keep == IF Size(k, l) >= Size(k, r) THEN l ELSE r
             dissolve == IF keep = l THEN r ELSE l
  <1>3. /\ l = Root(k, p.left) /\ r = Root(k, p.right)
        /\ {keep, dissolve} = {l, r}
        /\ step[k] = "merge" /\ pairs' = [pairs EXCEPT ![k] = pairs[k] \ {p}]
        /\ \/ UNCHANGED <<into, step, todo, current>>
           \/ /\ l # r /\ into' = [into EXCEPT ![k][dissolve] = keep]
              /\ current' = [current EXCEPT ![k] = <<keep, dissolve>>]
              /\ step' = [step EXCEPT ![k] = "moving"]
              /\ todo' = [todo EXCEPT ![k] = members[k][dissolve]]
    BY <1>2
  <1> HIDE DEF l, r, keep, dissolve
  <1>4. UNCHANGED <<net, target, members, disturbed>>
    BY DEF ComparesPair
  <1>5. Leaves(k)
    BY <1>3, <1>4 DEF SettleInv, IsPerJob, Leaves
  <1>6. JobTyped(k)'
    <2>1. CASE UNCHANGED <<into, step, todo, current>>
      BY <1>1, <1>4, <2>1 DEF JobTyped, Assigned
    <2>2. CASE /\ into' = [into EXCEPT ![k][dissolve] = keep]
               /\ step' = [step EXCEPT ![k] = "moving"]
      <3>1. step'[k] = "moving" /\ into'[k] = [into[k] EXCEPT ![dissolve] = keep]
        BY <2>2 DEF SettleInv, IsPerJob
      <3>2. into'[k] = [c \in Communities |-> into'[k][c]]
        BY <1>1, <3>1 DEF JobTyped
      <3> QED
        BY <1>1, <1>4, <3>1, <3>2 DEF JobTyped
    <2> QED
      BY <1>3, <2>1, <2>2
  <1>7. Assigned(k)' = Assigned(k) /\ Targets(k)' = Targets(k)
    BY <1>4 DEF Assigned, Targets
  <1>8. ASSUME k \notin disturbed PROVE JobAgrees(k)'
    <2>1. MergesAgree(net, "merge", Assigned(k), Targets(k), target[k], todo[k], members[k],
                      pairs[k], into[k], current[k])
      BY <1>1, <1>3, <1>8 DEF JobAgrees, Agrees
    <2>2. pairs'[k] = pairs[k] \ {p} /\ pairs'[k] \in SUBSET pairs[k]
      BY <1>3 DEF SettleInv, IsPerJob
    <2>3. CASE UNCHANGED <<into, step, todo, current>>
      <3>1. MergesAgree(net, "merge", Assigned(k), Targets(k), target[k], todo[k], members[k],
                        pairs'[k], into[k], current[k])
        BY <2>1, <2>2, SkipAgrees
      <3> QED
        BY <1>3, <1>4, <1>7, <2>3, <3>1 DEF JobAgrees, Agrees
    <2>4. CASE /\ l # r /\ into' = [into EXCEPT ![k][dissolve] = keep]
               /\ current' = [current EXCEPT ![k] = <<keep, dissolve>>]
               /\ step' = [step EXCEPT ![k] = "moving"]
               /\ todo' = [todo EXCEPT ![k] = members[k][dissolve]]
      <3>1. /\ step'[k] = "moving" /\ into'[k] = [into[k] EXCEPT ![dissolve] = keep]
            /\ todo'[k] = members[k][dissolve] /\ current'[k] = <<keep, dissolve>>
        BY <2>4 DEF SettleInv, IsPerJob
      <3>2. /\ Closed(into[k], Targets(k)) /\ EndsSomewhere(Targets(k), into[k])
            /\ p.left \in Targets(k) /\ p.right \in Targets(k)
        BY <2>1 DEF MergesAgree, First
      <3>3. l \in Targets(k) /\ into[k][l] = l /\ r \in Targets(k) /\ into[k][r] = r
        BY <1>3, <3>2, RootIsKept
      <3>4. /\ keep \in Targets(k) /\ dissolve \in Targets(k) /\ keep # dissolve
            /\ into[k][keep] = keep /\ into[k][dissolve] = dissolve
        BY <1>3, <2>4, <3>3
      <3>5. DOMAIN into[k] = Communities
        BY <1>1 DEF JobTyped
      <3>6. MergesAgree(net, "moving", Assigned(k), Targets(k), target[k], members[k][dissolve],
                        members[k], pairs'[k], [into[k] EXCEPT ![dissolve] = keep],
                        <<keep, dissolve>>)
        BY <1>1, <2>1, <2>2, <3>4, <3>5, CompareAgrees
      <3> QED
        BY <1>4, <1>7, <3>1, <3>6 DEF JobAgrees, Agrees
    <2> QED
      BY <1>3, <2>3, <2>4
  <1>9. Clusterable(net')
    BY <1>1, <1>4
  <1>10. Rematches(k)
    BY <1>3, <1>4, NothingMatched, MatchesStay DEF ComparesPair
  <1> QED
    BY <1>4, <1>5, <1>6, <1>8, <1>9, <1>10, Step

\* The community that grew is counted.
LEMMA CountsKeptStep ==
  ASSUME SettleInv, NEW k \in Clusterers, CountsKept(k)
  PROVE  SettleInv'
  <1>1. /\ Clusterable(net) /\ JobTyped(k)
        /\ step[k] # "idle" /\ k \notin disturbed => JobAgrees(k)
    BY DEF SettleInv
  <1>2. /\ step[k] = "moving" /\ todo[k] = {}
        /\ step' = [step EXCEPT ![k] = "moved"] /\ todo' = [todo EXCEPT ![k] = {}]
        /\ current' = current
        /\ net' = RefreshCommunityMemberCount(net, current[k][1])
        /\ disturbed' = IF net' = net /\ Replaced(k) = {} THEN disturbed ELSE
             disturbed \cup {j \in Clusterers \ {k} : step[j] # "idle"}
        /\ UNCHANGED <<target, members, pairs, into>>
    BY DEF CountsKept, Advances, Writes, mergeVars
  <1>3. Clusterable(net')
    BY <1>1, <1>2, WritesClusterable
  <1>4. step'[k] = "moved" /\ todo'[k] = {} /\ current'[k] = current[k]
    BY <1>2 DEF SettleInv, IsPerJob
  <1>5. Leaves(k)
    BY <1>2 DEF SettleInv, IsPerJob, Leaves
  <1>6. Assigned(k)' = Assigned(k) /\ Targets(k)' = Targets(k)
    BY <1>2 DEF Assigned, Targets
  <1>7. JobTyped(k)'
    BY <1>1, <1>2, <1>4, <1>6 DEF JobTyped
  <1>8. ASSUME k \notin disturbed' PROVE JobAgrees(k)'
    <2>1. MergesAgree(net, "moving", Assigned(k), Targets(k), target[k], {}, members[k],
                      pairs[k], into[k], current[k])
      BY <1>1, <1>2, <1>8 DEF JobAgrees, Agrees
    <2>2. MergesAgree(net', "moved", Assigned(k), Targets(k), target[k], {}, members[k],
                      pairs[k], into[k], current[k])
      BY <1>1, <1>2, <2>1, CountKeptAgrees
    <2> QED
      BY <1>2, <1>4, <1>6, <2>2 DEF JobAgrees, Agrees
  <1>9. Rematches(k)
    BY WritesGraph DEF CountsKept
  <1> QED
    BY <1>3, <1>5, <1>7, <1>8, <1>9, Step

\* The community that was dissolved is counted.
LEMMA CountsDissolvedStep ==
  ASSUME SettleInv, NEW k \in Clusterers, CountsDissolved(k)
  PROVE  SettleInv'
  <1>1. /\ Clusterable(net) /\ JobTyped(k)
        /\ step[k] # "idle" /\ k \notin disturbed => JobAgrees(k)
    BY DEF SettleInv
  <1>2. /\ step[k] = "moved" /\ todo[k] = {}
        /\ step' = [step EXCEPT ![k] = "merge"] /\ todo' = [todo EXCEPT ![k] = {}]
        /\ current' = [current EXCEPT ![k] = << >>]
        /\ net' = RefreshCommunityMemberCount(net, current[k][2])
        /\ disturbed' = IF net' = net /\ Replaced(k) = {} THEN disturbed ELSE
             disturbed \cup {j \in Clusterers \ {k} : step[j] # "idle"}
        /\ UNCHANGED <<target, members, pairs, into>>
    BY DEF CountsDissolved, Advances, Writes, mergeVars
  <1>3. Clusterable(net')
    BY <1>1, <1>2, WritesClusterable
  <1>4. step'[k] = "merge" /\ todo'[k] = {} /\ current'[k] = << >>
    BY <1>2 DEF SettleInv, IsPerJob
  <1>5. Leaves(k)
    BY <1>2 DEF SettleInv, IsPerJob, Leaves
  <1>6. Assigned(k)' = Assigned(k) /\ Targets(k)' = Targets(k)
    BY <1>2 DEF Assigned, Targets
  <1>7. JobTyped(k)'
    BY <1>1, <1>2, <1>4, <1>6 DEF JobTyped
  <1>8. ASSUME k \notin disturbed' PROVE JobAgrees(k)'
    <2>1. MergesAgree(net, "moved", Assigned(k), Targets(k), target[k], {}, members[k],
                      pairs[k], into[k], current[k])
      BY <1>1, <1>2, <1>8 DEF JobAgrees, Agrees
    <2>2. MergesAgree(net', "merge", Assigned(k), Targets(k), target[k], {}, members[k],
                      pairs[k], into[k], << >>)
      BY <1>1, <1>2, <2>1, CountDissolvedAgrees
    <2> QED
      BY <1>2, <1>4, <1>6, <2>2 DEF JobAgrees, Agrees
  <1>9. Rematches(k)
    BY WritesGraph DEF CountsDissolved
  <1> QED
    BY <1>3, <1>5, <1>7, <1>8, <1>9, Step

\* The communities counted empty go.
LEMMA PrunesStep ==
  ASSUME SettleInv, NEW k \in Clusterers, Prunes(k)
  PROVE  SettleInv'
  <1>1. /\ Clusterable(net) /\ JobTyped(k)
        /\ step[k] # "idle" /\ k \notin disturbed => JobAgrees(k)
    BY DEF SettleInv
  <1>2. /\ step[k] = "merge" /\ step' = [step EXCEPT ![k] = "settled"]
        /\ net' = PruneEmptyCommunities(net)
        /\ disturbed' = IF net' = net /\ Replaced(k) = {} THEN disturbed ELSE
             disturbed \cup {j \in Clusterers \ {k} : step[j] # "idle"}
        /\ UNCHANGED <<todo, target, members, pairs, into, current>>
    BY DEF Prunes, Writes, mergeVars
  <1>3. Clusterable(net')
    BY <1>1, <1>2, WritesClusterable
  <1>4. step'[k] = "settled"
    BY <1>2 DEF SettleInv, IsPerJob
  <1>5. Leaves(k)
    BY <1>2 DEF SettleInv, IsPerJob, Leaves
  <1>6. Assigned(k)' = Assigned(k) /\ Targets(k)' = Targets(k)
    BY <1>2 DEF Assigned, Targets
  <1>7. JobTyped(k)'
    BY <1>1, <1>2, <1>4, <1>6 DEF JobTyped
  <1>8. ASSUME k \notin disturbed' PROVE JobAgrees(k)'
    <2>1. MergesAgree(net, "merge", Assigned(k), Targets(k), target[k], todo[k], members[k],
                      pairs[k], into[k], current[k])
      BY <1>1, <1>2, <1>8 DEF JobAgrees, Agrees
    <2>2. FullAgrees(net', Assigned(k), Targets(k), into[k])
      BY <1>1, <1>2, <2>1, PruneAgrees, TargetsAreCommunities
    <2> QED
      BY <1>2, <1>4, <1>6, <2>2 DEF JobAgrees, Agrees
  <1>9. Rematches(k)
    BY WritesGraph DEF Prunes
  <1> QED
    BY <1>3, <1>5, <1>7, <1>8, <1>9, Step

\* A job that ends, or whose worker dies, relies on nothing any more.
LEMMA FinishesStep ==
  ASSUME SettleInv, NEW k \in Clusterers, Finishes(k)
  PROVE  SettleInv'
  <1>1. /\ step' = [step EXCEPT ![k] = "idle"] /\ todo' = [todo EXCEPT ![k] = {}]
        /\ target' = [target EXCEPT ![k] = NoTarget]
        /\ members' = [members EXCEPT ![k] = [c \in Communities |-> {}]]
        /\ pairs' = [pairs EXCEPT ![k] = {}]
        /\ into' = [into EXCEPT ![k] = [c \in Communities |-> c]]
        /\ current' = [current EXCEPT ![k] = << >>]
        /\ matched' = [matched EXCEPT ![k] = {}] /\ late' = late \ {k}
        /\ UNCHANGED <<net, disturbed>>
    BY DEF Finishes
  <1>2. /\ step'[k] = "idle" /\ target'[k] = NoTarget /\ matched'[k] = {}
        /\ into'[k] = [c \in Communities |-> c]
    BY <1>1 DEF SettleInv, IsPerJob
  <1>3. Leaves(k)
    BY <1>1 DEF SettleInv, IsPerJob, Leaves
  <1>4. JobTyped(k)'
    BY <1>2 DEF JobTyped, NoTarget
  <1>5. Clusterable(net')
    BY <1>1 DEF SettleInv
  <1>6. Rematches(k)
    BY <1>1, <1>2 DEF Rematches, SettleInv, IsPerJob
  <1> QED
    BY <1>2, <1>3, <1>4, <1>5, <1>6, Step

\* What a clustering decides at its start.
LEMMA StartsFullStep ==
  ASSUME SettleInv, NEW k \in Clusterers, StartsFull(k)
  PROVE  SettleInv'
  <1>1. Clusterable(net) /\ JobTyped(k)
    BY DEF SettleInv
  <1>2. PICK voted \in [net.nodes -> net.nodes] :
          target' = [target EXCEPT ![k] = [e \in Entities |->
            IF e \in net.nodes THEN CommunityIdForLabel(Label(net, voted[e]))
            ELSE NoCommunity]]
    BY DEF StartsFull
  <1>3. /\ \A e \in net.nodes : CommunityIdForLabel(Label(net, e)) \in Communities
        /\ step' = [step EXCEPT ![k] = "upsert"]
        /\ todo' = [todo EXCEPT ![k] = {target'[k][e] : e \in net.nodes}]
        /\ disturbed' = disturbed \ {k}
        /\ UNCHANGED <<net, members, pairs, into, current>>
    BY DEF StartsFull, mergeVars
  <1>4. /\ target'[k] = [e \in Entities |->
             IF e \in net.nodes THEN CommunityIdForLabel(Label(net, voted[e]))
             ELSE NoCommunity]
        /\ step'[k] = "upsert" /\ todo'[k] = {target'[k][e] : e \in net.nodes}
    BY <1>2, <1>3 DEF SettleInv, IsPerJob
  <1>5. Leaves(k)
    BY <1>2, <1>3 DEF SettleInv, IsPerJob, Leaves
  <1>6. net.nodes \subseteq Entities /\ NoCommunity \notin Communities
    BY <1>1, ClusteringAssumption DEF ClusteringAssumption, Clusterable
  <1>7. /\ \A e \in net.nodes : target'[k][e] \in Communities
        /\ \A e \in Entities \ net.nodes : target'[k][e] = NoCommunity
    BY <1>3, <1>4, <1>6
  <1>8. target'[k] \in [Entities -> Communities \cup {NoCommunity}]
    BY <1>3, <1>4, <1>6
  <1>9. JobTyped(k)'
    BY <1>1, <1>3, <1>4, <1>8 DEF JobTyped
  <1>10. Assigned(k)' = net.nodes /\ Targets(k)' = todo'[k]
    <2>1. Assigned(k)' = net.nodes
      BY <1>6, <1>7 DEF Assigned
    <2>2. {target'[k][e] : e \in Entities} \ {NoCommunity} = {target'[k][e] : e \in net.nodes}
      BY <1>6, <1>7
    <2> QED
      BY <1>4, <2>1, <2>2 DEF Targets
  <1>11. AssignsAgree(net, "upsert", net.nodes, todo'[k], target'[k], todo'[k])
    BY DEF AssignsAgree
  <1>12. JobAgrees(k)'
    BY <1>3, <1>4, <1>10, <1>11 DEF JobAgrees, Agrees
  <1>13. Clusterable(net')
    BY <1>1, <1>3
  <1>14. Rematches(k)
    BY <1>3, NothingMatched, MatchesStay DEF StartsFull
  <1> QED
    BY <1>5, <1>9, <1>12, <1>13, <1>14, Step

\* What an incremental clustering decides at its start.
LEMMA StartsIncrementalStep ==
  ASSUME SettleInv, NEW k \in Clusterers, NEW m \in Memories, StartsIncremental(k, m)
  PROVE  SettleInv'
  <1> DEFINE found == DialogueEntityIds(net, m)
             near(e) == {net.community[x] : x \in CommunityVoteNeighbors(net, e)} \ {NoCommunity}
             own(e) == near(e) \cup {CommunityIdForLabel(e)}
  <1>1. Clusterable(net) /\ JobTyped(k)
    BY DEF SettleInv
  <1>2. PICK join \in [found -> UNION {own(e) : e \in found}] :
          /\ \A e \in found : join[e] \in own(e)
          /\ target' = [target EXCEPT ![k] = [e \in Entities |->
               IF e \in found THEN join[e] ELSE NoCommunity]]
    BY DEF StartsIncremental
  <1>3. /\ step' = [step EXCEPT ![k] = "join"]
        /\ todo' = [todo EXCEPT ![k] = found]
        /\ disturbed' = disturbed \ {k}
        /\ UNCHANGED <<net, members, pairs, into, current>>
    BY DEF StartsIncremental, mergeVars
  <1>4. /\ found \subseteq net.nodes /\ found \subseteq Entities
        /\ NoCommunity \notin Communities /\ MaxRenames \in Nat \ {0}
    BY <1>1, ClusteringAssumption DEF ClusteringAssumption, Clusterable, DialogueEntityIds
  <1>5. \A e \in found : own(e) \subseteq Communities
    <2> SUFFICES ASSUME NEW e \in found PROVE own(e) \subseteq Communities
      OBVIOUS
    <2>1. near(e) \subseteq Communities
      BY <1>1 DEF Clusterable, CommunityVoteNeighbors
    <2>2. CommunityIdForLabel(e) \in Communities
      BY <1>4 DEF CommunityIdForLabel, Communities
    <2> QED
      BY <2>1, <2>2
  <1> HIDE DEF found, own
  <1>6. /\ target'[k] = [e \in Entities |-> IF e \in found THEN join[e] ELSE NoCommunity]
        /\ step'[k] = "join" /\ todo'[k] = found
    BY <1>2, <1>3 DEF SettleInv, IsPerJob
  <1>7. Leaves(k)
    BY <1>2, <1>3 DEF SettleInv, IsPerJob, Leaves
  <1>8. \A e \in found : join[e] \in Communities
    BY <1>2, <1>5
  <1>9. target'[k] \in [Entities -> Communities \cup {NoCommunity}]
    BY <1>4, <1>6, <1>8
  <1>10. Assigned(k)' = found
    BY <1>4, <1>6, <1>8 DEF Assigned
  <1>11. JobTyped(k)'
    BY <1>1, <1>3, <1>6, <1>9, <1>10 DEF JobTyped
  <1>12. JoinsAgree(net, "join", found, target'[k], found, current[k])
    BY <1>4 DEF JoinsAgree
  <1>13. JobAgrees(k)'
    BY <1>3, <1>6, <1>10, <1>12 DEF JobAgrees, Agrees
  <1>14. Clusterable(net')
    BY <1>1, <1>3
  <1>15. Rematches(k)
    BY <1>3, NothingMatched, MatchesStay DEF StartsIncremental
  <1> QED
    BY <1>7, <1>11, <1>13, <1>14, <1>15, Step

\* The other users of the graph disturb every job if they change it at all.
LEMMA OthersStep ==
  ASSUME SettleInv, NEW g, Changes(g), Clusterable(g)
  PROVE  SettleInv'
  <1>1. /\ net' = g
        /\ disturbed' = IF g = net /\ Replaced("other") = {} THEN disturbed ELSE
             disturbed \cup {j \in Clusterers \ {"other"} : step[j] # "idle"}
        /\ UNCHANGED <<step, todo, target, members, pairs, into, current>>
    BY DEF Changes, Writes, mergeVars
  <1>2. "other" \notin Clusterers
    BY ClusteringAssumption DEF ClusteringAssumption
  <1>3. Leaves("other")
    BY <1>1, <1>2 DEF SettleInv, IsPerJob, Leaves
  <1>4. Rematches("other")
    BY WritesGraph DEF Changes
  <1> QED
    BY <1>1, <1>2, <1>3, <1>4, Step

\* Before the first job nobody relies on anything.
LEMMA SettleInit == ClusteringInit => SettleInv
  <1> SUFFICES ASSUME ClusteringInit PROVE SettleInv
    OBVIOUS
  <1>1. Clusterable(net)
    BY KnownAssumption DEF KnownAssumption, ClusteringInit
  <1>2. /\ IsPerJob(step) /\ IsPerJob(todo) /\ IsPerJob(target) /\ IsPerJob(members)
        /\ IsPerJob(pairs) /\ IsPerJob(into) /\ IsPerJob(current)
        /\ IsPerJob(matched) /\ \A k \in Clusterers : matched[k] = {}
    BY DEF ClusteringInit, IsPerJob
  <1>3. \A k \in Clusterers : JobTyped(k) /\ step[k] = "idle"
    BY DEF ClusteringInit, JobTyped, NoTarget
  <1> QED
    BY <1>1, <1>2, <1>3 DEF SettleInv

\* Every step of every job and of the other users.
LEMMA SettleStep ==
  ASSUME SettleInv, [ClusteringNext]_clusteringVars
  PROVE  SettleInv'
  <1>1. ASSUME NEW k \in Clusterers, Clusters(k) PROVE SettleInv'
    <2>1. CASE \E c \in Communities : Upserts(k, c) \/ Refreshes(k, c)
      BY <2>1, LoopsStep
    <2>2. CASE JoinsCommunity(k) \/ \E e \in Entities : Assigns(k, e) \/ Joins(k, e) \/ MovesMember(k, e)
      BY <2>2, MatchesSteps, JoinsStep
    <2> QED
      BY <1>1, <2>1, <2>2, StartsFullStep, StartsIncrementalStep, AssignsMatchedStep, GoesOnStep,
         CountsJoinedStep, ReadsMembersStep, ComparesPairStep, CountsKeptStep, CountsDissolvedStep,
         PrunesStep, FinishesStep DEF Clusters
  <1>2. Clusterable(net)
    BY DEF SettleInv
  <1>3. ASSUME NEW m \in Memories, Learns(m) PROVE SettleInv'
    BY <1>2, <1>3, OthersStep, OthersKeepClusterable DEF Learns
  <1>4. ASSUME NEW e \in Entities, Forgets(e) PROVE SettleInv'
    BY <1>2, <1>4, OthersStep, OthersKeepClusterable DEF Forgets
  <1>5. CASE MergesNodes
    BY <1>2, <1>5, OthersStep, OthersKeepClusterable DEF MergesNodes
  <1>6. CASE UNCHANGED clusteringVars
    <2>1. UNCHANGED <<net, step, todo, target, members, pairs, into, current, disturbed>>
      BY <1>6 DEF clusteringVars, mergeVars
    <2>2. "other" \notin Clusterers
      BY ClusteringAssumption DEF ClusteringAssumption
    <2>3. Leaves("other")
      BY <2>1, <2>2 DEF SettleInv, IsPerJob, Leaves
    <2>4. Rematches("other")
      BY <1>6, <2>2, MatchesStay DEF clusteringVars
    <2> QED
      BY <1>2, <2>1, <2>2, <2>3, <2>4, Step
  <1> QED
    BY <1>1, <1>3, <1>4, <1>5, <1>6 DEF ClusteringNext

\* Whatever graph it finds and however jobs and other users overlap, a clustering that
\* nobody disturbed leaves every entity it decided on in one community, counted right
\* after a full one (_full_cluster, _merge_communities).
THEOREM ClusteringSettles == ClusteringSpec => []UndisturbedClusteringSettles
  <1>1. SettleInv /\ [ClusteringNext]_clusteringVars => SettleInv'
    BY SettleStep
  <1>2. SettleInv => UndisturbedClusteringSettles
    <2> SUFFICES ASSUME SettleInv, NEW k \in Clusterers, step[k] \in {"done", "settled"},
                        k \notin disturbed
                 PROVE
          /\ \A e \in Assigned(k) :
               /\ net.community[e] \in net.communities
               /\ {x[2] : x \in {y \in net.inCommunity : y[1] = e}} = {net.community[e]}
          /\ step[k] = "settled" =>
               /\ \A c \in {net.community[e] : e \in Assigned(k)} :
                    net.memberCount[c] = Cardinality(CommunityMembers(net, c))
               /\ \A c \in Targets(k) :
                    into[k][c] # c /\ (\A x \in Targets(k) \ {c} : into[k][x] # c)
                      => c \notin net.communities
      BY DEF UndisturbedClusteringSettles
    <2>1. JobAgrees(k)
      BY DEF SettleInv
    <2>2. CASE step[k] = "done"
      <3>1. JoinsAgree(net, "done", Assigned(k), target[k], todo[k], current[k])
        BY <2>1, <2>2 DEF JobAgrees, Agrees
      <3> SUFFICES ASSUME NEW e \in Assigned(k)
                   PROVE  /\ net.community[e] \in net.communities
                          /\ {x[2] : x \in {y \in net.inCommunity : y[1] = e}}
                               = {net.community[e]}
        BY <2>2
      <3>2. Settled(net, e, target[k][e]) /\ target[k][e] \in net.communities
        BY <3>1 DEF JoinsAgree
      <3>3. {y \in net.inCommunity : y[1] = e} = {<<e, net.community[e]>>}
        BY <3>2 DEF Settled
      <3>4. {x[2] : x \in {<<e, net.community[e]>>}} = {net.community[e]}
        OBVIOUS
      <3> QED
        BY <3>2, <3>3, <3>4 DEF Settled
    <2>3. CASE step[k] = "settled"
      <3>1. FullAgrees(net, Assigned(k), Targets(k), into[k])
        BY <2>1, <2>3 DEF JobAgrees, Agrees
      <3> QED
        BY <3>1 DEF FullAgrees, CountedRight
    <2> QED
      BY <2>2, <2>3
  <1> QED
    BY <1>1, <1>2, SettleInit, PTL DEF ClusteringSpec
-----------------------------------------------------------------------------
(* Communities.                                                            *)

\* An entity has edges to the community it names only, unless it is excepted.
Named(g, except) ==
  \A x \in g.inCommunity : x[1] \notin except => x[2] = g.community[x[1]]

\* What leaves the edges as they are, or takes some away with their entities.
LEMMA FewerEdges ==
  ASSUME NEW g, Clusterable(g), NEW except, Named(g, except)
  PROVE  /\ \A c : Named(UpsertCommunity(g, c), except)
         /\ \A c : Named(RefreshCommunityMemberCount(g, c), except)
         /\ Named(PruneEmptyCommunities(g), except)
         /\ \A m, d : Named(SaveGraph(g, m, d), except)
         /\ \A e : Named(DeleteEntity(g, e), except \ {e})
  <1>1. ASSUME NEW c PROVE Named(UpsertCommunity(g, c), except)
    BY DEF UpsertCommunity, Named, Clusterable
  <1>2. ASSUME NEW c PROVE Named(RefreshCommunityMemberCount(g, c), except)
    BY DEF RefreshCommunityMemberCount, Named, Clusterable
  <1>3. Named(PruneEmptyCommunities(g), except)
    BY DEF PruneEmptyCommunities, Named, Clusterable
  <1>4. ASSUME NEW m, NEW d PROVE Named(SaveGraph(g, m, d), except)
    <2>1. /\ SaveGraph(g, m, d).inCommunity = g.inCommunity
          /\ SaveGraph(g, m, d).community = g.community
      BY DEF SaveGraph, Clusterable
    <2> QED
      BY <2>1 DEF Named
  <1>5. ASSUME NEW e PROVE Named(DeleteEntity(g, e), except \ {e})
    <2>1. /\ DeleteEntity(g, e).inCommunity = {x \in g.inCommunity : x[1] \notin {e}}
          /\ DeleteEntity(g, e).community =
               [y \in Entities |-> IF y \in {e} THEN NoCommunity ELSE g.community[y]]
      BY DEF DeleteEntity, Detached, Clusterable
    <2>2. \A x \in g.inCommunity : x[1] \in Entities
      BY DEF Clusterable
    <2> QED
      BY <2>1, <2>2 DEF Named
  <1> QED
    BY <1>1, <1>2, <1>3, <1>4, <1>5

\* An entity leaves the communities that were matched for the one it is assigned to.
LEMMA AssignedToOne ==
  ASSUME NEW g, Clusterable(g), NEW except, Named(g, except),
         NEW e \in g.nodes, NEW c \in g.communities, NEW old
  PROVE  /\ Named(AssignEntityCommunity(g, old, e, c), except \cup {e})
         /\ EdgesOf(g, e) \subseteq old =>
              Named(AssignEntityCommunity(g, old, e, c), except \ {e})
  <1>1. PICK h : h = AssignEntityCommunity(g, old, e, c)
    OBVIOUS
  <1>2. /\ h.community = [g.community EXCEPT ![e] = c]
        /\ h.inCommunity = (g.inCommunity \ old) \cup {<<e, c>>}
    BY <1>1 DEF AssignEntityCommunity, Clusterable
  <1>3. e \in Entities /\ g.community \in [Entities -> Communities \cup {NoCommunity}]
    BY DEF Clusterable
  <1>4. h.community[e] = c /\ \A x : x # e => h.community[x] = g.community[x]
    BY <1>2, <1>3
  <1>5. Named(h, except \cup {e})
    BY <1>2, <1>4 DEF Named
  <1>6. ASSUME EdgesOf(g, e) \subseteq old PROVE Named(h, except \ {e})
    BY <1>2, <1>4, <1>6 DEF Named, EdgesOf
  <1> QED
    BY <1>1, <1>5, <1>6

\* Merging gives several communities only to those that take over a duplicate.
LEMMA MergedHaveSeveral ==
  ASSUME NEW g, Clusterable(g), NEW except, Named(g, except), NEW k \in Keepers(g)
  PROVE  Named(MergeDuplicateEntities(g, k),
               (except \cup {k[e] : e \in {x \in g.nodes : k[x] # x}}) \cap {k[e] : e \in g.nodes})
  <1>1. PICK h : h = MergeDuplicateEntities(g, k)
    OBVIOUS
  <1>2. PICK took : took = {k[e] : e \in {x \in g.nodes : k[x] # x}}
    OBVIOUS
  <1>3. PICK gone : gone = {e \in g.nodes : k[e] # e}
    OBVIOUS
  <1>4. PICK merged : merged = {e \in g.nodes \ gone : {x \in g.nodes : k[x] = e} # {e}}
    OBVIOUS
  <1>5. k \in [g.nodes -> g.nodes] /\ \A a \in g.nodes : k[k[a]] = k[a]
    BY DEF Keepers
  <1>6. /\ g.nodes \subseteq Entities
        /\ \A x \in g.inCommunity : x[1] \in g.nodes /\ x = <<x[1], x[2]>>
    BY DEF Clusterable
  <1>7. /\ h.inCommunity = {x \in g.inCommunity : x[1] \notin gone}
                             \cup {<<k[x[1]], x[2]>> : x \in g.inCommunity}
        /\ \A e \in Entities \ (gone \cup merged) : h.community[e] = g.community[e]
    <2> DEFINE d == Detached(g, gone)
               theirs(e) == {x[2] : x \in {y \in g.inCommunity : y[1] \in gone /\ k[y[1]] = e}}
    <2>1. /\ d.inCommunity = {x \in g.inCommunity : x[1] \notin gone}
          /\ d.community = [e \in Entities |-> IF e \in gone THEN NoCommunity ELSE g.community[e]]
          /\ "inCommunity" \in DOMAIN d /\ "community" \in DOMAIN d
      BY DEF Detached, Clusterable
    <2> HIDE DEF d
    <2>2. /\ h.inCommunity = d.inCommunity \cup {<<k[x[1]], x[2]>> : x \in g.inCommunity}
          /\ h.community = [e \in Entities |->
               IF e \in merged /\ d.community[e] = NoCommunity /\ theirs(e) # {}
               THEN CHOOSE c \in theirs(e) : TRUE ELSE d.community[e]]
      BY <1>1, <1>3, <1>4, <2>1 DEF MergeDuplicateEntities, d
    <2> HIDE DEF theirs
    <2> QED
      BY <2>1, <2>2
  <1>8. merged \subseteq took
    <2> SUFFICES ASSUME NEW e \in merged PROVE e \in took
      OBVIOUS
    <2>1. e \in g.nodes /\ k[e] = e /\ {x \in g.nodes : k[x] = e} # {e}
      BY <1>3, <1>4
    <2>2. PICK x \in g.nodes : k[x] = e /\ x # e
      BY <2>1
    <2> QED
      BY <1>2, <2>2
  <1>9. ASSUME NEW x \in h.inCommunity, x[1] \notin (except \cup took) \cap {k[e] : e \in g.nodes}
        PROVE  x[2] = h.community[x[1]]
    <2>1. /\ x[1] \in {k[e] : e \in g.nodes} /\ x[1] \in g.nodes
          /\ x[1] \notin gone
      BY <1>3, <1>5, <1>6, <1>7
    <2>2. x[1] \notin except /\ x[1] \notin took
      BY <1>9, <2>1
    <2>3. x \in g.inCommunity
      <3>1. CASE x \in {<<k[y[1]], y[2]>> : y \in g.inCommunity}
        <4>1. PICK y \in g.inCommunity : x = <<k[y[1]], y[2]>>
          BY <3>1
        <4>2. k[y[1]] = y[1]
          BY <1>2, <1>6, <2>2, <4>1
        <4> QED
          BY <1>6, <4>1, <4>2
      <3> QED
        BY <1>7, <3>1
    <2>4. h.community[x[1]] = g.community[x[1]]
      BY <1>6, <1>7, <1>8, <2>1, <2>2
    <2> QED
      BY <2>2, <2>3, <2>4 DEF Named
  <1> QED
    BY <1>1, <1>2, <1>9 DEF Named

\* An assignment that is not late has matched every edge of its entity.
LEMMA AssignsMatchedNames ==
  ASSUME SettleInv, Named(net, doubled), NEW k \in Clusterers, AssignsMatched(k)
  PROVE  Named(net', doubled')
  <1>1. PICK m \in matched[k] :
          /\ Writes(k, IF m.there THEN AssignEntityCommunity(net, m.edges, m.entity, m.community)
                       ELSE net)
          /\ doubled' = CASE ~m.there -> doubled
                          [] m.there /\ k \in late -> doubled \cup {m.entity}
                          [] m.there /\ k \notin late -> doubled \ {m.entity}
    BY DEF AssignsMatched
  <1>2. net' = IF m.there THEN AssignEntityCommunity(net, m.edges, m.entity, m.community) ELSE net
    BY <1>1, WritesGraph
  <1>3. Clusterable(net) /\ Matched(k, m)
    BY DEF SettleInv
  <1>4. CASE ~m.there
    BY <1>1, <1>2, <1>4
  <1>5. CASE m.there
    <2>1. m.entity \in net.nodes /\ m.community \in net.communities
      BY <1>3, <1>5 DEF Matched
    <2>2. CASE k \in late
      BY <1>1, <1>2, <1>3, <1>5, <2>1, <2>2, AssignedToOne
    <2>3. CASE k \notin late
      <3>1. EdgesOf(net, m.entity) \subseteq m.edges
        BY <1>3, <1>5, <2>3 DEF Matched
      <3> QED
        BY <1>1, <1>2, <1>3, <1>5, <2>1, <2>3, <3>1, AssignedToOne
    <2> QED
      BY <2>2, <2>3
  <1> QED
    BY <1>4, <1>5

\* Every step of a clustering job keeps the edges so.
LEMMA ClustersNames ==
  ASSUME SettleInv, Named(net, doubled), NEW k \in Clusterers, Clusters(k)
  PROVE  Named(net', doubled')
  <1>0. Clusterable(net)
    BY DEF SettleInv
  <1>1. ASSUME NEW c, Upserts(k, c) \/ Refreshes(k, c) PROVE Named(net', doubled')
    BY <1>0, <1>1, FewerEdges DEF Upserts, Refreshes, Takes, Writes
  <1>2. ASSUME NEW e, Joins(k, e) PROVE Named(net', doubled')
    BY <1>0, <1>2, FewerEdges DEF Joins, Writes
  <1>3. CASE CountsJoined(k) \/ Prunes(k)
    BY <1>0, <1>3, FewerEdges DEF CountsJoined, Prunes, Writes
  <1>4. CASE CountsKept(k) \/ CountsDissolved(k)
    BY <1>0, <1>4, FewerEdges DEF CountsKept, CountsDissolved, Writes
  <1>5. ASSUME UNCHANGED <<net, doubled>> PROVE Named(net', doubled')
    BY <1>5
  <1>6. ASSUME NEW e, Assigns(k, e) \/ MovesMember(k, e) PROVE Named(net', doubled')
    BY <1>5, <1>6 DEF Assigns, MovesMember, Matches
  <1>7. CASE \/ StartsFull(k) \/ GoesOn(k) \/ ReadsMembers(k) \/ ComparesPair(k) \/ Finishes(k)
             \/ JoinsCommunity(k)
    BY <1>5, <1>7 DEF StartsFull, GoesOn, ReadsMembers, ComparesPair, Finishes, JoinsCommunity, Matches
  <1>8. ASSUME NEW m, StartsIncremental(k, m) PROVE Named(net', doubled')
    BY <1>5, <1>8 DEF StartsIncremental
  <1> QED
    BY <1>1, <1>2, <1>3, <1>4, <1>6, <1>7, <1>8, AssignsMatchedNames DEF Clusters

\* However many jobs cluster a graph at once, and whoever else writes it, an entity
\* is in no community but the one it names, unless an assignment of it was overtaken
\* by another or it took over a duplicate, since it was last assigned undisturbed
\* (assign_entity_community).
THEOREM OneCommunityEach == ClusteringSpec => []OneCommunityPerEntity
  <1>1. ClusteringInit => Named(net, doubled)
    BY KnownAssumption DEF KnownAssumption, ClusteringInit, Named
  <1>2. SettleInv /\ Named(net, doubled) /\ [ClusteringNext]_clusteringVars => Named(net, doubled)'
    <2> SUFFICES ASSUME SettleInv, Named(net, doubled), [ClusteringNext]_clusteringVars
                 PROVE  Named(net', doubled')
      OBVIOUS
    <2>0. Clusterable(net)
      BY DEF SettleInv
    <2>1. ASSUME NEW m, Learns(m) PROVE Named(net', doubled')
      BY <2>0, <2>1, FewerEdges DEF Learns, Changes, Writes
    <2>2. ASSUME NEW e, Forgets(e) PROVE Named(net', doubled')
      BY <2>0, <2>2, FewerEdges DEF Forgets, Changes, Writes
    <2>3. CASE MergesNodes
      <3>1. PICK k \in Keepers(net) :
              /\ net' = MergeDuplicateEntities(net, k)
              /\ doubled' = (doubled \cup {k[e] : e \in {x \in net.nodes : k[x] # x}})
                              \cap {k[e] : e \in net.nodes}
        BY <2>3 DEF MergesNodes, Changes, Writes
      <3> QED
        BY <2>0, <3>1, MergedHaveSeveral
    <2>4. CASE UNCHANGED clusteringVars
      BY <2>4 DEF clusteringVars
    <2> QED
      BY <2>1, <2>2, <2>3, <2>4, ClustersNames DEF ClusteringNext
  <1>3. Named(net, doubled) => OneCommunityPerEntity
    BY DEF Named, OneCommunityPerEntity, EdgesOf
  <1> QED
    BY <1>1, <1>2, <1>3, SettleInit, SettleStep, PTL DEF ClusteringSpec
=============================================================================
