---------------------------- MODULE ProjectRecords ----------------------------
(***************************************************************************)
(* The project's records beside tasks: tags, actor queues (tracks), the    *)
(* matcher records (instructions, saved views and queue feeds, which share *)
(* one service pattern) and comments; and the links of tags and queues to  *)
(* tasks.  Concurrent clients run the service methods as transactions.     *)
(*                                                                         *)
(* A behaviour is about one table.  `name' is what the table keeps unique: *)
(* a tag's or matcher record's name, a track's machine:actor; for a        *)
(* comment it is the task.  Other columns are left out: an edit that       *)
(* changes only them has name = Keep, and an assignment's position is not  *)
(* kept.  A method reads and validates in one step and writes and commits  *)
(* in another, every column of a row as it was read; no table here has a   *)
(* version to compare.  A JSON import is one of the requests.              *)
(***************************************************************************)
EXTENDS FiniteSets, Naturals

CONSTANTS
  Task, Id, Name,
  Client,      \* concurrent requests
  None, Gone,  \* no row yet; a deleted comment, whose uuid only a file gives again
  Keep,        \* an absent name
  Tables,      \* the tables to consider
  Files,       \* the files to import
  Isolations   \* "serial" (SQLite), "read_committed" (Postgres)

ASSUME TablesAssumption ==
  Tables \subseteq {"tags", "tracks", "matchers", "comments"}
ASSUME IsolationsAssumption == Isolations \subseteq {"serial", "read_committed"}
ASSUME NamesAssumption == Keep \notin Name \cup Task /\ Task \cap Name = {}
ASSUME NoneAssumption == None # Gone /\ {None, Gone} \cap [name : Name \cup Task, archived : BOOLEAN] = {}

VARIABLES
  table, isolation,  \* fixed
  task,   \* what a task row says, as far as assignments care; "none": no row
  rows,   \* the table
  links,  \* task_tags or track_assignments
  tx      \* the open transaction of each client

db == <<task, rows, links>>
vars == <<table, isolation, db, tx>>

TaskState == {"none", "open", "finished", "archived"}
Row == [name : Name \cup Task, archived : BOOLEAN]
Link == [row : Id, task : Task]

(* A file's tasks, its rows with their places in its array, and its links. *)
ASSUME FilesAssumption ==
  \A f \in Files :
    /\ DOMAIN f.tasks \subseteq Task
    /\ \A t \in DOMAIN f.tasks : f.tasks[t] \in TaskState \ {"none"}
    /\ DOMAIN f.rows \subseteq Id /\ \A i \in DOMAIN f.rows : f.rows[i] \in Row
    /\ f.place \in [DOMAIN f.rows -> Nat]
    /\ f.links \subseteq Link

Stored  == {i \in Id : rows[i] \notin {None, Gone}}
Unused  == {i \in Id : rows[i] = None}
Tasks   == {t \in Task : task[t] # "none"}
Names   == IF table = "comments" THEN Tasks ELSE Name

Idle == [op |-> "idle"]

Init ==
  /\ table \in Tables
  /\ isolation \in Isolations
  /\ task = [t \in Task |-> "open"]
  /\ rows = [i \in Id |-> None]
  /\ links = {}
  /\ tx = [c \in Client |-> Idle]

-----------------------------------------------------------------------------
(* Faulty: "begin" without "immediate". *)
BeginDeferred(c) == tx[c] = Idle

MayBegin(c) ==
  IF isolation = "serial" THEN \A d \in Client : tx[d] = Idle ELSE tx[c] = Idle

Begins(c, request) ==
  /\ tx' = [tx EXCEPT ![c] = request]
  /\ UNCHANGED <<table, isolation, db>>

Ends(c) == tx' = [tx EXCEPT ![c] = Idle] /\ UNCHANGED <<table, isolation>>

Taken(n, i) == \E j \in Stored \ {i} : rows[j].name = n

(* Rows to add: ids not taken.  A comment's id is a new uuid. *)
NewRows(names) == UNION {[ids -> names] : ids \in SUBSET Unused \ {{}}}

(* The names are not taken, nor given twice. *)
NamesFree(new) ==
  \A i \in DOMAIN new : ~Taken(new[i], i) /\ \A j \in DOMAIN new \ {i} : new[i] # new[j]

Adds(c, new) == Begins(c, [op |-> "add", new |-> new])

(* TagService.add, addMany *)
AddTags(c) ==
  /\ table = "tags"
  /\ \E new \in NewRows(Name) : NamesFree(new) /\ Adds(c, new)

(* TrackService.add *)
AddTrack(c) ==
  /\ table = "tracks"
  /\ \E new \in NewRows(Name) : Cardinality(DOMAIN new) = 1 /\ NamesFree(new) /\ Adds(c, new)

(* InstructionService.add, addMany; the other two services add one. *)
AddMatchers(c) ==
  /\ table = "matchers"
  /\ \E new \in NewRows(Name) : NamesFree(new) /\ Adds(c, new)

(* CommentService.add, addMany: the task has a row. *)
AddComments(c) ==
  /\ table = "comments"
  /\ \E new \in NewRows(Tasks) : Adds(c, new)

(* Faulty: an option that is not given overwrites the column. *)
RenamedAlways(i, n) == [rows[i] EXCEPT !.name = n]

(* update writes every column, those not asked for as they were read. *)
Writes(c, i, next) == i \in Stored /\ Begins(c, [op |-> "write", row |-> i, next |-> next])

Renamed(i, n) == [rows[i] EXCEPT !.name = IF n = Keep THEN @ ELSE n]

(* TagService.edit leaves a taken name to the index. *)
EditTag(c, i) ==
  /\ table = "tags" /\ i \in Stored
  /\ \E n \in Name \cup {Keep} : Writes(c, i, Renamed(i, n))

(* The matcher services look for another row with the new name. *)
EditMatcher(c, i) ==
  /\ table = "matchers" /\ i \in Stored
  /\ \E n \in Name \cup {Keep} : ~Taken(Renamed(i, n).name, i) /\ Writes(c, i, Renamed(i, n))

(* TrackService.rename, CommentService.edit: other columns. *)
RenameTrack(c, i) == table = "tracks" /\ i \in Stored /\ Writes(c, i, rows[i])

EditComment(c, i) == table = "comments" /\ i \in Stored /\ Writes(c, i, rows[i])

Marked(i, archived) == [rows[i] EXCEPT !.archived = archived]

(* Nothing restores a tag or a track. *)
ArchiveTag(c, i) == table = "tags" /\ i \in Stored /\ Writes(c, i, Marked(i, TRUE))

ArchiveTrack(c, i) == table = "tracks" /\ i \in Stored /\ Writes(c, i, Marked(i, TRUE))

MarkMatcher(c, i, archived) ==
  table = "matchers" /\ i \in Stored /\ Writes(c, i, Marked(i, archived))

MarkComment(c, i, archived) ==
  table = "comments" /\ i \in Stored /\ Writes(c, i, Marked(i, archived))

(* TrackService.assign *)
BeginQueue(c, i, t) ==
  /\ table = "tracks"
  /\ i \in Stored /\ ~rows[i].archived
  /\ task[t] = "open"
  /\ \A l \in links : l.task # t
  /\ Begins(c, [op |-> "link", links |-> {[row |-> i, task |-> t]}])

(* TagService.assign and assignMany: pairs that are there are skipped, and *)
(* the task may be archived.                                               *)
BeginTag(c) ==
  /\ table = "tags"
  /\ \E pairs \in SUBSET [row : {i \in Stored : ~rows[i].archived}, task : Tasks] :
       /\ pairs \ links # {}
       /\ Begins(c, [op |-> "link", links |-> pairs \ links])

(* TagService.remove, which looks for the pair; unassign, which does not.  *)
BeginUnlink(c, i, t) ==
  /\ table \in {"tags", "tracks"}
  /\ i \in Stored
  /\ table = "tags" => \E l \in links : l.row = i /\ l.task = t
  /\ Begins(c, [op |-> "unlink", row |-> i, task |-> t])

(* normalizeJsonImport: no name twice. *)
FileNamed(f) ==
  IF table = "comments" THEN \A i \in DOMAIN f.rows : f.rows[i].name \in Task
  ELSE \A i, j \in DOMAIN f.rows :
         f.rows[i].name \in Name /\ (i # j => f.rows[i].name # f.rows[j].name)

(* ImportService.json up to its writes.  Assignments that are there are    *)
(* skipped; nobody asks whether a link's record is archived or its task    *)
(* finished.                                                               *)
BeginImport(c, f) ==
  LET known == Tasks \cup DOMAIN f.tasks
  IN /\ FileNamed(f)
     /\ table = "comments" => \A i \in DOMAIN f.rows : f.rows[i].name \in known
     /\ f.links # {} => table \in {"tags", "tracks"}
     /\ \A l \in f.links : l.task \in known /\ l.row \in Stored \cup DOMAIN f.rows
     /\ table = "tracks" => \A l \in f.links, k \in links : l.task = k.task => l = k
     /\ Begins(c, [op |-> "import", file |-> f,
                   tasks |-> DOMAIN f.tasks \cap Tasks, rows |-> DOMAIN f.rows \cap Stored,
                   links |-> IF table = "tracks" THEN f.links \ links ELSE f.links])

-----------------------------------------------------------------------------
(* Faulty: the table has no unique index, as in the memory store. *)
NotIndexed(new) == TRUE

(* Primary key and unique index refuse rows that came in meanwhile. *)
IndexAccepts(new) ==
  table # "comments" => \A i \in DOMAIN new : ~Taken(new[i].name, i)

(* comments.task_id references tasks. *)
CommentTasksStored(new) ==
  table = "comments" => \A i \in DOMAIN new : new[i].name \in Tasks

CommitAdd(c) ==
  LET new == [i \in DOMAIN tx[c].new |-> [name |-> tx[c].new[i], archived |-> FALSE]]
  IN /\ tx[c].op = "add"
     /\ DOMAIN new \subseteq Unused
     /\ IndexAccepts(new) /\ CommentTasksStored(new)
     /\ rows' = [i \in Id |-> IF i \in DOMAIN new THEN new[i] ELSE rows[i]]
     /\ Ends(c)
     /\ UNCHANGED <<task, links>>

(* update; a row that is gone is no error. *)
CommitWrite(c) ==
  LET i == tx[c].row
  IN /\ tx[c].op = "write"
     /\ IF i \in Stored
        THEN /\ IndexAccepts([j \in {i} |-> tx[c].next])
             /\ CommentTasksStored([j \in {i} |-> tx[c].next])
             /\ rows' = [rows EXCEPT ![i] = tx[c].next]
        ELSE UNCHANGED rows
     /\ Ends(c)
     /\ UNCHANGED <<task, links>>

(* track_assignments has each task once; for tags a pair that came in      *)
(* meanwhile is skipped ("on conflict do nothing").                        *)
QueueIndexAccepts(new) == \A l \in new, k \in links : l.task # k.task

(* The foreign keys look for the task; tags and tracks are never deleted.  *)
CommitLink(c) ==
  /\ tx[c].op = "link"
  /\ \A l \in tx[c].links : l.task \in Tasks
  /\ table = "tracks" => QueueIndexAccepts(tx[c].links)
  /\ links' = links \cup tx[c].links
  /\ Ends(c)
  /\ UNCHANGED <<task, rows>>

CommitUnlink(c) ==
  /\ tx[c].op = "unlink"
  /\ links' = {l \in links : l.row # tx[c].row \/ l.task # tx[c].task}
  /\ Ends(c)
  /\ UNCHANGED <<task, rows>>

(* Primary keys; the name of a row is free, or its holder comes earlier in *)
(* the file and has been given another.                                    *)
ImportAccepted(r) ==
  /\ (DOMAIN r.file.tasks \ r.tasks) \cap Tasks = {}
  /\ (DOMAIN r.file.rows \ r.rows) \cap Stored = {}
  /\ table # "comments" =>
       \A i \in DOMAIN r.file.rows : \A j \in Stored \ {i} :
         rows[j].name = r.file.rows[i].name
           => j \in DOMAIN r.file.rows /\ r.file.place[j] < r.file.place[i]

(* Tasks and rows that were found are updated whole, or gone; the others   *)
(* are new.                                                                *)
Imported(found, file, stored) == {x \in DOMAIN file : x \in found => x \in stored}

(* ImportService.json writes tasks, rows and links, in this order. *)
CommitImport(c) ==
  LET r     == tx[c]
      f     == r.file
      tasks == Imported(r.tasks, f.tasks, Tasks)
      rewritten == Imported(r.rows, f.rows, Stored)
      known == Tasks \cup tasks
  IN /\ r.op = "import"
     /\ ImportAccepted(r)
     /\ table = "comments" => \A i \in rewritten : f.rows[i].name \in known
     /\ \A l \in r.links : l.task \in known
     /\ table = "tracks" => /\ QueueIndexAccepts(r.links)
                            /\ \A l, k \in r.links : l.task = k.task => l = k
     /\ task' = [t \in Task |-> IF t \in tasks THEN f.tasks[t] ELSE task[t]]
     /\ rows' = [i \in Id |-> IF i \in rewritten THEN f.rows[i] ELSE rows[i]]
     /\ links' = links \cup r.links
     /\ Ends(c)

(* A failed check, a refused write, a lost connection. *)
Rollback(c) ==
  /\ tx[c] # Idle
  /\ Ends(c)
  /\ UNCHANGED db

(* TaskService: the task is added, edited, archived or restored ...        *)
TaskChanges(t, state) ==
  /\ isolation = "serial" => \A c \in Client : tx[c] = Idle
  /\ state # "none" /\ state # task[t]
  /\ task[t] = "none" => state # "archived"
  /\ task' = [task EXCEPT ![t] = state]
  /\ UNCHANGED <<table, isolation, rows, links, tx>>

(* Faulty: the memory store's delete without its loop over assignments.    *)
LinksKept(t) == links

(* on delete cascade *)
LinksAfterDelete(t) == {l \in links : l.task # t}

(* ... or deleted, with its comments, tags and assignment. *)
TaskDeleted(t) ==
  /\ isolation = "serial" => \A c \in Client : tx[c] = Idle
  /\ task[t] # "none"
  /\ task' = [task EXCEPT ![t] = "none"]
  /\ rows' = [i \in Id |-> IF i \in Stored /\ rows[i].name = t THEN Gone ELSE rows[i]]
  /\ links' = LinksAfterDelete(t)
  /\ UNCHANGED <<table, isolation, tx>>

-----------------------------------------------------------------------------
Request(c) ==
  /\ MayBegin(c)
  /\ \/ AddTags(c) \/ AddTrack(c) \/ AddMatchers(c) \/ AddComments(c)
     \/ \E i \in Id : EditTag(c, i) \/ EditMatcher(c, i) \/ RenameTrack(c, i) \/ EditComment(c, i)
     \/ \E i \in Id : ArchiveTag(c, i) \/ ArchiveTrack(c, i)
     \/ \E i \in Id, archived \in BOOLEAN : MarkMatcher(c, i, archived) \/ MarkComment(c, i, archived)
     \/ \E i \in Id, t \in Task : BeginQueue(c, i, t) \/ BeginUnlink(c, i, t)
     \/ BeginTag(c)
     \/ \E f \in Files : BeginImport(c, f)

Commit(c) ==
  CommitAdd(c) \/ CommitWrite(c) \/ CommitLink(c) \/ CommitUnlink(c) \/ CommitImport(c)

Next ==
  \/ \E c \in Client : Request(c) \/ Commit(c) \/ Rollback(c)
  \/ \E t \in Task, s \in TaskState : TaskChanges(t, s)
  \/ \E t \in Task : TaskDeleted(t)

Spec == Init /\ [][Next]_vars

-----------------------------------------------------------------------------
RecordsTypeOK ==
  /\ table \in Tables /\ isolation \in Isolations
  /\ task \in [Task -> TaskState]
  /\ rows \in [Id -> Row \cup {None, Gone}]
  /\ links \subseteq Link
  /\ \A c \in Client : tx[c].op \in {"idle", "add", "write", "link", "unlink", "import"}

(* Two stored tags, tracks or matcher records never share their name or    *)
(* actor, although the services check it in a statement before the write,  *)
(* and TagService.edit does not check it at all (unique indexes).          *)
NamesUnique ==
  table # "comments" =>
    \A i, j \in Stored : i # j => rows[i].name # rows[j].name

(* A link has its record and its task, a comment its task, and a task is   *)
(* in one queue at most, however assignments and deletes overlap           *)
(* ("Track assignment is exclusive per task").                             *)
LinksSound ==
  /\ \A l \in links : l.row \in Stored /\ l.task \in Tasks
  /\ table = "comments" => \A i \in Stored : rows[i].name \in Tasks
  /\ table = "tracks" => \A l, k \in links : l.task = k.task => l = k

(* The step commits an import of f. *)
ImportsNow(f) == \E c \in Client : tx[c].op = "import" /\ tx[c].file = f /\ tx'[c] = Idle

(* With SQLite's transactions a task goes to a queue only while the task   *)
(* is open and the queue is not archived, a tag only while it is not       *)
(* archived (TrackService.assign, TagService.assign), unless an imported   *)
(* file has the link, which asks for neither.                              *)
AssignmentsAllowed ==
  [][\A l \in links' \ links :
       isolation = "serial" =>
         \/ \E f \in Files : ImportsNow(f) /\ l \in f.links
         \/ ~rows[l.row].archived /\ (table = "tracks" => task[l.task] = "open")]_vars

(* With SQLite's transactions an archived tag or track stays archived:     *)
(* there is no restore, and an edit writes back the archived_at it read.   *)
(* Only a file that has it as not archived brings it back.                 *)
ArchivedForGood ==
  [][\A i \in Stored :
       isolation = "serial" /\ table \in {"tags", "tracks"} /\ rows[i].archived
         => \/ i \in Stored' /\ rows'[i].archived
            \/ \E f \in Files : ImportsNow(f) /\ i \in DOMAIN f.rows /\ ~f.rows[i].archived]_vars

=============================================================================
