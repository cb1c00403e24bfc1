--------------------------- MODULE TaskTransactions ---------------------------
(***************************************************************************)
(* The same service methods as TaskGraph, now as the store transactions    *)
(* they run in: clients load, check and write in separate steps.           *)
(*                                                                         *)
(* The variables of TaskGraph are the committed rows.  A method reads the  *)
(* row it will change (Load), validates against the tables as they are     *)
(* committed by then (Check), and writes and commits (Commit), or rolls    *)
(* back.  Postgres runs plain "begin", so READ COMMITTED: a transaction    *)
(* sees what others commit between its statements.  SQLite runs "begin     *)
(* immediate": one transaction at a time.                                  *)
(*                                                                         *)
(* The statements of one check are taken as one read, and a write together *)
(* with its commit: the row locks keep others from writing in between, and *)
(* a read in between sees the rows as before the write.  Hard delete is    *)
(* the one method with two writes and keeps both.                          *)
(***************************************************************************)
EXTENDS TaskGraph

CONSTANTS
  Client,      \* concurrent requests
  Isolation,   \* "serial" (SQLite) or "read_committed" (Postgres)
  Ops,         \* the methods the clients call
  MaxVersion   \* bound: no commit makes a higher version

ASSUME IsolationAssumption  == Isolation \in {"serial", "read_committed"}
ASSUME OpsAssumption        == Ops \subseteq {"add", "edit", "release", "archive",
                                              "restore", "delete", "depend"}
ASSUME MaxVersionAssumption == MaxVersion \in Nat \ {0}

VARIABLES
  version,  \* the version column; 0 for an id without a row
  tx        \* what each client's transaction has done so far

txVars == <<vars, version, tx>>

(* The methods that rewrite a row they have read. *)
RowOps == {"edit", "release", "archive", "restore"}

(* A request: method, task, second task (parent or dependency), lifecycle. *)
Request ==
  {r \in [op : {"add"}, t : Task, u : Task \cup {None}, l : Lifecycle]
          \cup [op : {"edit"}, t : Task, u : Task \cup {None, Keep}, l : Lifecycle \cup {Keep}]
          \cup [op : {"release", "archive", "restore", "delete"}, t : Task, u : {Keep}, l : {Keep}]
          \cup [op : {"depend"}, t : Task, u : Task, l : {Keep}]
     : r.op \in Ops}

Row(t) == [lifecycle |-> lifecycle[t], archived |-> t \in archived,
           parent |-> parent[t], version |-> version[t]]

Idle == [stage |-> "idle"]

InTransaction(c) == tx[c] # Idle

(* Rows a transaction has updated and not committed yet. *)
LockedByOthers(c) ==
  UNION {tx[o].locked : o \in {o \in Client \ {c} : tx[o].stage = "detached"}}

-----------------------------------------------------------------------------
TxInit ==
  /\ Init
  /\ version = [t \in Task |-> 0]
  /\ tx = [c \in Client |-> Idle]

(* Faulty: "begin" without "immediate", which lets two begin. *)
BeginDeferred(c) == ~InTransaction(c)

(* SQLite's "begin immediate" takes the write lock, or throws when another *)
(* transaction is open.                                                    *)
MayBegin(c) ==
  IF Isolation = "serial" THEN \A o \in Client : ~InTransaction(o) ELSE ~InTransaction(c)

(* Begin, and read the row of the task the request names. *)
Load(c, r) ==
  /\ MayBegin(c)
  /\ (r.op = "add") # (r.t \in tasks)
  /\ tx' = [tx EXCEPT ![c] = [stage |-> "loaded", req |-> r,
                             row |-> IF r.op \in RowOps THEN Row(r.t) ELSE None]]
  /\ UNCHANGED <<vars, version>>

(* The row an edit request asks for, its own row as it was loaded. *)
EditedParent(r, row)    == IF r.u = Keep THEN row.parent ELSE r.u
EditedLifecycle(r, row) == IF r.l = Keep THEN row.lifecycle ELSE r.l

(* ensureParentTask *)
ParentAccepted(t, p) == p \in tasks \ archived /\ ~ParentCycle(t, p, parent)

AddPasses(r) ==
  /\ r.t \notin tasks
  /\ r.u # None => ParentAccepted(r.t, r.u)
  /\ ParentTakesChild(r.u, r.l, lifecycle)

EditPasses(r, row) ==
  LET q == EditedParent(r, row)
      l == EditedLifecycle(r, row)
  IN /\ r.u \in Task => ParentAccepted(r.t, r.u)
     /\ q # None => q \in tasks
     /\ ParentTakesChild(q, l, lifecycle)
     /\ l = "finished" =>
          ScopeFinished(r.t, tasks \cup {r.t}, lifecycle, archived,
                        [parent EXCEPT ![r.t] = q])

ReleasePasses(row) == ~row.archived /\ row.lifecycle = "started"

RestorePasses(t, row) ==
  /\ row.archived /\ row.parent \notin archived
  /\ FinishedParentsValid(tasks, [lifecycle EXCEPT ![t] = row.lifecycle],
                          archived \ {t}, [parent EXCEPT ![t] = row.parent])

DependPasses(r) ==
  /\ {r.t, r.u} \subseteq tasks \ archived
  /\ <<r.t, r.u>> \notin deps
  /\ ~DependencyCycle(r.t, r.u, deps)
  /\ ~SameLine(r.t, r.u, tasks, parent)

(* The validations of each method, on the rows committed by now. *)
Passes(r, row) ==
  \/ r.op = "add" /\ AddPasses(r)
  \/ r.op = "edit" /\ EditPasses(r, row)
  \/ r.op = "release" /\ ReleasePasses(row)
  \/ r.op = "archive"
  \/ r.op = "restore" /\ RestorePasses(r.t, row)
  \/ r.op = "delete" /\ \A e \in deps : e[2] # r.t
  \/ r.op = "depend" /\ DependPasses(r)

Check(c) ==
  /\ tx[c].stage = "loaded"
  /\ Passes(tx[c].req, tx[c].row)
  /\ tx' = [tx EXCEPT ![c].stage = "checked"]
  /\ UNCHANGED <<vars, version>>

-----------------------------------------------------------------------------
(* create, createIfAbsent: the primary key refuses an id taken meanwhile. *)
CommitAdd(c) ==
  LET r == tx[c].req
  IN /\ tx[c].stage = "checked" /\ r.op = "add"
     /\ r.t \notin tasks
     /\ tasks' = tasks \cup {r.t}
     /\ lifecycle' = [lifecycle EXCEPT ![r.t] = r.l]
     /\ parent' = [parent EXCEPT ![r.t] = r.u]
     /\ version' = [version EXCEPT ![r.t] = 1]
     /\ tx' = [tx EXCEPT ![c] = Idle]
     /\ UNCHANGED <<archived, deps>>

(* Faulty: update, without the version in its WHERE clause. *)
RowStored(t, row) == t \in tasks

(* updateWithPrevious: every column is written from the loaded row, if the *)
(* version is still the one loaded.                                        *)
RowAsLoaded(t, row) == t \in tasks /\ version[t] = row.version

(* Faulty: a lifecycle change has counted the version up already. *)
CountedTwice(row) == row.version + 2

NextVersion(row) == row.version + 1

CommitRow(c) ==
  LET r   == tx[c].req
      row == tx[c].row
  IN /\ tx[c].stage = "checked" /\ r.op \in RowOps
     /\ r.t \notin LockedByOthers(c)
     /\ RowAsLoaded(r.t, row)
     /\ row.version < MaxVersion
     /\ lifecycle' = [lifecycle EXCEPT ![r.t] =
                        IF r.op = "release" THEN "open" ELSE EditedLifecycle(r, row)]
     /\ parent' = [parent EXCEPT ![r.t] = EditedParent(r, row)]
     /\ archived' = IF r.op = "archive" \/ (row.archived /\ r.op # "restore")
                    THEN archived \cup {r.t} ELSE archived \ {r.t}
     /\ version' = [version EXCEPT ![r.t] = NextVersion(row)]
     /\ tx' = [tx EXCEPT ![c] = Idle]
     /\ UNCHANGED <<tasks, deps>>

(* Faulty: no foreign keys, the check has seen both rows. *)
EndsSeen(r) == r.t # r.u

(* The foreign keys of task_dependencies look for both rows. *)
EndsReferenced(r) == {r.t, r.u} \subseteq tasks

(* Dependency insert. *)
CommitDepend(c) ==
  LET r == tx[c].req
  IN /\ tx[c].stage = "checked" /\ r.op = "depend"
     /\ EndsReferenced(r)
     /\ deps' = deps \cup {<<r.t, r.u>>}
     /\ tx' = [tx EXCEPT ![c] = Idle]
     /\ UNCHANGED <<tasks, lifecycle, archived, parent, version>>

(* PostgresTaskRepository.delete, first statement: the children's rows are *)
(* updated, their versions are not.  SQLite leaves this to its foreign key.*)
Detach(c) ==
  LET r == tx[c].req
      children == IF Store = "postgres" THEN Children(r.t) ELSE {}
  IN /\ tx[c].stage = "checked" /\ r.op = "delete"
     /\ children \cap LockedByOthers(c) = {}
     /\ tx' = [tx EXCEPT ![c] = [stage |-> "detached", req |-> r, locked |-> children]]
     /\ UNCHANGED <<vars, version>>

(* The foreign key of task_dependencies restricts the delete. *)
NoDependents(t) == \A e \in deps : e[2] # t

EdgesAfterDelete(t) == {e \in deps : e[1] # t}

(* Second statement, and commit. *)
CommitDelete(c) ==
  LET t == tx[c].req.t
  IN /\ tx[c].stage = "detached"
     /\ t \notin LockedByOthers(c)
     /\ NoDependents(t)
     /\ DeleteAccepted(t)
     /\ tasks' = tasks \ {t}
     /\ archived' = archived \ {t}
     /\ lifecycle' = [lifecycle EXCEPT ![t] = "open"]
     /\ parent' = [k \in Task |-> IF k = t \/ k \in tx[c].locked THEN None ELSE parent[k]]
     /\ deps' = EdgesAfterDelete(t)
     /\ version' = [version EXCEPT ![t] = 0]
     /\ tx' = [tx EXCEPT ![c] = Idle]

(* A failed check, a conflict, a lost connection. *)
Rollback(c) ==
  /\ InTransaction(c)
  /\ tx' = [tx EXCEPT ![c] = Idle]
  /\ UNCHANGED <<vars, version>>

TxNext ==
  \E c \in Client :
    \/ \E r \in Request : Load(c, r)
    \/ Check(c)
    \/ CommitAdd(c)
    \/ CommitRow(c)
    \/ CommitDepend(c)
    \/ Detach(c)
    \/ CommitDelete(c)
    \/ Rollback(c)

TxSpec == TxInit /\ [][TxNext]_txVars

-----------------------------------------------------------------------------
LoadedRow == [lifecycle : Lifecycle, archived : BOOLEAN,
              parent : Task \cup {None}, version : 1..MaxVersion]

Transaction ==
  [stage : {"idle"}]
    \cup [stage : {"loaded", "checked"}, req : Request,
          row : LoadedRow \cup {None}]
    \cup [stage : {"detached"}, req : Request, locked : SUBSET Task]

TxTypeOK ==
  /\ tasks \subseteq Task
  /\ lifecycle \in [Task -> Lifecycle]
  /\ archived \subseteq tasks
  /\ parent \in [Task -> Task \cup {None}]
  /\ deps \subseteq Task \X Task
  /\ version \in [Task -> 0..MaxVersion]
  /\ \A t \in Task : (version[t] = 0) = (t \notin tasks)
  /\ tx \in [Client -> Transaction]

(* Every dependency joins two rows, however deletes and dependency inserts *)
(* overlap (foreign keys of task_dependencies).                            *)
DependencyEndsStored == deps \subseteq tasks \X tasks

(* c commits a request about t with this step. *)
Commits(c, t) == tx[c].stage \in {"checked", "detached"} /\ tx'[c] = Idle /\ tx[c].req.t = t

(* The step changes a column of a row only as its request asks. *)
OnlyAsAsked ==
  \A t \in tasks \cap tasks' :
    /\ lifecycle'[t] # lifecycle[t] =>
         \E c \in Client : /\ Commits(c, t)
                           /\ \/ tx[c].req.l = lifecycle'[t]
                              \/ tx[c].req.op = "release" /\ lifecycle[t] = "started"
    /\ parent'[t] # parent[t] =>
         \E c \in Client : Commits(c, t) /\ tx[c].req.u = parent'[t]
    /\ (t \in archived') # (t \in archived) =>
         \E c \in Client : Commits(c, t) /\ tx[c].req.op \in {"archive", "restore"}

(* No lost update: a column of a row changes only by the commit of a       *)
(* request that asked for just that change, and a release always takes a   *)
(* task that is started at that moment, although every update writes all   *)
(* columns from a row read earlier (updateWithPrevious).                   *)
ColumnsChangeOnlyAsAsked == [][OnlyAsAsked]_txVars

=============================================================================
