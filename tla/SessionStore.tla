------------------------------ MODULE SessionStore ------------------------------
(***************************************************************************)
(* The rows of sessions and of the projects they are filed under.  Titles, *)
(* projects and task ids are written by whole-object saves: load the row,  *)
(* change the object, read the row again and, on commit, write the columns *)
(* in which the object differs from that second reading.  Events, files,   *)
(* memories, counts and status are written by single UPDATE statements,    *)
(* from requests and from agent tasks at the same time.                    *)
(***************************************************************************)
EXTENDS Integers, Sequences, FiniteSets

CONSTANTS
  Sessions, Projects,
  Titles,       \* titles of sessions, names of projects
  TaskIds, SessionStatuses, Files, AgentNames,
  Writers,     \* requests and tasks whose transactions overlap
  None,        \* no row, no project, nothing
  MaxWrites,   \* bound: operations begun
  MaxUnread    \* bound: unread messages

ASSUME SessionAssumption ==
  /\ Sessions \cap Projects = {}
  /\ None \notin Sessions \cup Projects \cup Writers
  /\ "pending" \in SessionStatuses /\ MaxUnread \in Nat \ {0}

SessionColumns == {"title", "project", "task", "unread", "events", "files", "memories", "status"}
ColumnsOf(id) == IF id \in Sessions THEN SessionColumns ELSE {"name"}

NewSession(p) ==
  [c \in SessionColumns |->
     CASE c = "title" -> None [] c = "project" -> p [] c = "task" -> None
       [] c = "unread" -> 0 [] c = "events" -> <<>> [] c = "files" -> {}
       [] c = "memories" -> [a \in AgentNames |-> 0] [] c = "status" -> "pending"]

VARIABLES
  stored,       \* the committed row of every session and project, or None
  writer,     \* what each writer has read and will write
  lock,       \* who holds the row lock of each session
  intended,   \* every row as the updates of it meant it to be (history)
  raced,      \* columns written between the two readings of somebody's save (history)
  writes

sessionVars == <<stored, writer, lock, intended, raced, writes>>

RowIds == Sessions \cup Projects
Resting == [step |-> "idle", id |-> None, object |-> None, seen |-> None, set |-> {}]

SessionsInit ==
  /\ stored = [i \in RowIds |-> None]
  /\ writer = [w \in Writers |-> Resting]
  /\ lock = [s \in Sessions |-> None]
  /\ intended = stored
  /\ raced = {}
  /\ writes = 0

ToDo == writes < MaxWrites
Begins(w, state) ==
  /\ writer[w].step = "idle" /\ ToDo
  /\ writer' = [writer EXCEPT ![w] = state]
  /\ writes' = writes + 1
Rests(w) == writer' = [writer EXCEPT ![w] = Resting]

\* Columns C of row id are written by w: a save that has loaded the row and not
\* read it again will undo this.
Races(w, id, C) ==
  raced' = IF \E v \in Writers \ {w} : writer[v].step = "loaded" /\ writer[v].id = id
           THEN raced \cup ({id} \X C) ELSE raced

-----------------------------------------------------------------------------
(* Whole-object saves.                                                     *)

\* A new object gets an id nobody has had.
CreatesSession(w, s) ==
  /\ stored[s] = None /\ \A v \in Writers : writer[v].id # s
  /\ \E p \in Projects \cup {None} :
       /\ p # None => stored[p] # None
       /\ Begins(w, [step |-> "loaded", id |-> s, object |-> NewSession(p), seen |-> None,
                     set |-> SessionColumns])
  /\ UNCHANGED <<stored, lock, intended, raced>>

CreatesProject(w, p) ==
  /\ stored[p] = None /\ \A v \in Writers : writer[v].id # p
  /\ \E n \in Titles :
       Begins(w, [step |-> "loaded", id |-> p, object |-> [c \in {"name"} |-> n],
                  seen |-> None, set |-> {"name"}])
  /\ UNCHANGED <<stored, lock, intended, raced>>

LoadsToUpdate(w, id) ==
  /\ stored[id] # None
  /\ Begins(w, [step |-> "loaded", id |-> id, object |-> stored[id], seen |-> None, set |-> {}])
  /\ UNCHANGED <<stored, lock, intended, raced>>

Sets(w, c, x) ==
  LET id == writer[w].id
  IN /\ writer[w].step = "loaded" /\ id # None /\ c \in ColumnsOf(id)
     /\ c \notin writer[w].set
     /\ writer' = [writer EXCEPT ![w].object[c] = x, ![w].set = @ \cup {c}]
     /\ UNCHANGED <<stored, lock, intended, raced, writes>>

\* update_session, update_project, and the task that chat() has created.
SetsTitle(w) == \E n \in Titles : Sets(w, "title", n)
SetsProject(w) ==
  \E p \in Projects \cup {None} : (p # None => stored[p] # None) /\ Sets(w, "project", p)
SetsName(w) == \E n \in Titles : Sets(w, "name", n)
SetsTask(w) == \E t \in TaskIds : Sets(w, "task", t)

\* save() reads the row once more.
LooksAgain(w) ==
  /\ writer[w].step = "loaded" /\ writer[w].set # {}
  /\ writer' = [writer EXCEPT ![w].step = "saved", ![w].seen = stored[writer[w].id]]
  /\ UNCHANGED <<stored, lock, intended, raced, writes>>

Kept(r, ids) == {i \in ids : r[i] # None}

\* A session's project must exist; a user's projects have different names.
Consistent(r) ==
  /\ \A s \in Kept(r, Sessions) : r[s]["project"] \in Kept(r, Projects) \cup {None}
  /\ \A p, q \in Kept(r, Projects) : p # q => r[p]["name"] # r[q]["name"]

\* Mutant of Dirty: a save writes every column.
MutDirty(w) == ColumnsOf(writer[w].id)

\* The columns in which the object differs from the second reading.
Dirty(w) ==
  LET t == writer[w]
  IN {c \in ColumnsOf(t.id) : t.seen = None \/ t.object[c] # t.seen[c]}

\* An insert wants no row, an update wants one; a lock is waited for.
CommitsSave(w) ==
  LET t == writer[w]
      id == t.id
      written == Dirty(w)
      merged == [c \in ColumnsOf(id) |-> IF c \in written THEN t.object[c] ELSE stored[id][c]]
      after == [stored EXCEPT ![id] = merged]
  IN /\ t.step = "saved"
     /\ id \in Sessions => lock[id] = None
     /\ written # {} => (t.seen = None <=> stored[id] = None)
     /\ written # {} => Consistent(after)
     /\ stored' = IF written = {} THEN stored ELSE after
     /\ intended' = CASE stored[id] = None /\ written # {} -> [intended EXCEPT ![id] = merged]
                     [] stored[id] = None /\ written = {} -> intended
                     [] OTHER -> [intended EXCEPT ![id] =
                          [c \in ColumnsOf(id) |-> IF c \in t.set \cap written THEN t.object[c] ELSE @[c]]]
     /\ Races(w, id, IF t.seen = None THEN written ELSE t.set \cap written)
     /\ Rests(w)
     /\ UNCHANGED <<lock, writes>>

\* An error, a constraint, a row that went away, a client that went away.
RollsBackWriter(w) ==
  /\ writer[w].step # "idle"
  /\ Rests(w)
  /\ lock' = [s \in Sessions |-> IF lock[s] = w THEN None ELSE lock[s]]
  /\ UNCHANGED <<stored, intended, raced, writes>>

-----------------------------------------------------------------------------
(* Single statements: of the row as it is then, under its lock.            *)

Updates(s, c, value) ==
  /\ stored[s] # None /\ lock[s] = None
  /\ stored' = [stored EXCEPT ![s][c] = value]
  /\ intended' = [intended EXCEPT ![s][c] =
       CASE c = "unread" /\ value = 0 -> 0
         [] c = "unread" -> @ + (value - stored[s][c])
         [] c = "events" -> @ \o SubSeq(value, Len(stored[s][c]) + 1, Len(value))
         [] c = "files" -> @ \cup value
         [] OTHER -> value]
  /\ Races(None, s, {c})
  /\ UNCHANGED lock

Statement(s, c, value) ==
  /\ Updates(s, c, value)
  /\ ToDo /\ writes' = writes + 1
  /\ UNCHANGED writer

UpdateTitle(s) == \E n \in Titles : Statement(s, "title", n)
AddEvent(s) == stored[s] # None /\ Statement(s, "events", Append(stored[s]["events"], "step"))
AddFile(s) ==
  stored[s] # None /\ \E f \in Files : Statement(s, "files", stored[s]["files"] \cup {f})
UpdateStatus(s) == \E x \in SessionStatuses : Statement(s, "status", x)
ClearUnread(s) == Statement(s, "unread", 0)
IncrementUnread(s) ==
  /\ stored[s] # None /\ stored[s]["unread"] < MaxUnread
  /\ Statement(s, "unread", stored[s]["unread"] + 1)
SaveMemory(s) ==
  /\ stored[s] # None
  /\ \E a \in AgentNames : Statement(s, "memories", [stored[s]["memories"] EXCEPT ![a] = 1 - @])

\* A chat: the question is stored, then the whole answer, or the error.
Asks(w, s) ==
  /\ stored[s] # None
  /\ Updates(s, "events", Append(stored[s]["events"], "user"))
  /\ Begins(w, [Resting EXCEPT !.step = "answering", !.id = s])
AnswersWith(w, events) ==
  LET s == writer[w].id
  IN /\ writer[w].step = "answering" /\ stored[s] # None
     /\ Updates(s, "events", stored[s]["events"] \o events)
     /\ Rests(w)
     /\ UNCHANGED writes
Answers(w) == AnswersWith(w, <<"assistant", "done">>)
AnswerFails(w) == AnswersWith(w, <<"error">>)

\* remove_file locks the row, reads the files and writes those that stay.
RemovesFile(w, s) ==
  /\ stored[s] # None /\ lock[s] = None
  /\ \E f \in Files :
       Begins(w, [step |-> "removing", id |-> s, object |-> stored[s]["files"] \ {f},
                  seen |-> stored[s]["files"], set |-> {f}])
  /\ lock' = [lock EXCEPT ![s] = w]
  /\ UNCHANGED <<stored, intended, raced>>

CommitsRemoval(w) ==
  LET t == writer[w]
  IN /\ t.step = "removing"
     /\ stored[t.id] # None
     /\ stored' = [stored EXCEPT ![t.id]["files"] = t.object]
     /\ intended' = [intended EXCEPT ![t.id]["files"] = @ \ t.set]
     /\ IF t.object = t.seen THEN UNCHANGED raced ELSE Races(w, t.id, {"files"})
     /\ lock' = [lock EXCEPT ![t.id] = None]
     /\ Rests(w)
     /\ UNCHANGED writes

Gone(ids) ==
  /\ stored' = [i \in RowIds |-> IF i \in ids THEN None ELSE stored[i]]
  /\ intended' = [i \in RowIds |-> IF i \in ids THEN None ELSE intended[i]]
  /\ writes' = writes + 1
  /\ UNCHANGED <<writer, lock, raced>>

DeletesSession(s) == stored[s] # None /\ lock[s] = None /\ ToDo /\ Gone({s})

\* A project is deleted with its sessions.
DeletesProject(p) ==
  LET filed == {s \in Sessions : stored[s] # None /\ stored[s]["project"] = p}
  IN /\ stored[p] # None /\ ToDo /\ \A s \in filed : lock[s] = None
     /\ Gone(filed \cup {p})

SessionsNext ==
  \/ \E w \in Writers :
       \/ \E s \in Sessions : CreatesSession(w, s) \/ RemovesFile(w, s)
       \/ \E p \in Projects : CreatesProject(w, p)
       \/ \E i \in RowIds : LoadsToUpdate(w, i)
       \/ SetsTitle(w) \/ SetsProject(w) \/ SetsName(w) \/ SetsTask(w)
       \/ LooksAgain(w) \/ CommitsSave(w) \/ RollsBackWriter(w) \/ CommitsRemoval(w)
       \/ \E s \in Sessions : Asks(w, s)
       \/ Answers(w) \/ AnswerFails(w)
  \/ \E s \in Sessions :
       \/ UpdateTitle(s) \/ AddEvent(s) \/ AddFile(s) \/ UpdateStatus(s)
       \/ ClearUnread(s) \/ IncrementUnread(s) \/ SaveMemory(s) \/ DeletesSession(s)
  \/ \E p \in Projects : DeletesProject(p)

SessionsSpec == SessionsInit /\ [][SessionsNext]_sessionVars

-----------------------------------------------------------------------------
(* Properties.                                                             *)

\* A column holds what its updates meant it to hold, unless one of them fell
\* between the two readings of a save: appended events, added and removed files,
\* counts and memories survive whole-object saves, that write only what differs
\* from the second reading, and each other (save, add_event, remove_file).
UnracedColumnsStand ==
  \A i \in RowIds : stored[i] # None =>
    \A c \in ColumnsOf(i) : <<i, c>> \in raced \/ stored[i][c] = intended[i][c]
=============================================================================
