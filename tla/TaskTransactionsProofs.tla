------------------------ MODULE TaskTransactionsProofs ------------------------
(***************************************************************************)
(* Theorems about TaskTransactions: type correctness and the references of *)
(* dependencies under either isolation, and that serial transactions       *)
(* implement TaskGraph.                                                    *)
(***************************************************************************)
EXTENDS TaskTransactions, TaskGraphProofs

(* What a request carries. *)
LEMMA RequestParts ==
  ASSUME NEW r \in Request
  PROVE  /\ r.t \in Task
         /\ r.op \in {"add", "edit", "release", "archive", "restore", "delete", "depend"}
         /\ r.op = "add" => r.u \in Task \cup {None} /\ r.l \in Lifecycle
         /\ r.op = "edit" => r.u \in Task \cup {None, Keep} /\ r.l \in Lifecycle \cup {Keep}
         /\ r.op \in {"release", "archive", "restore"} => r.u = Keep /\ r.l = Keep
         /\ r.op = "depend" => r.u \in Task
BY DEF Request

(* The forms a transaction takes. *)
LEMMA TransactionParts ==
  ASSUME NEW x \in Transaction
  PROVE  \/ x = Idle /\ x.stage = "idle"
         \/ /\ x \in [stage : {"loaded", "checked"}, req : Request, row : LoadedRow \cup {None}]
            /\ x.stage \in {"loaded", "checked"} /\ x.req \in Request
         \/ /\ x \in [stage : {"detached"}, req : Request, locked : SUBSET Task]
            /\ x.stage = "detached" /\ x.req \in Request /\ x.locked \in SUBSET Task
BY DEF Transaction, Idle

-----------------------------------------------------------------------------
(* A request that rewrites a row has read it. *)
RowRead ==
  \A c \in Client :
    tx[c].stage \in {"loaded", "checked"} /\ tx[c].req.op \in RowOps => tx[c].row \in LoadedRow

TxTypeInv == TxTypeOK /\ RowRead

(* Setting one client's transaction to a well-formed one. *)
LEMMA TransactionSet ==
  ASSUME TxTypeInv, NEW c \in Client, NEW x \in Transaction,
         x.stage \in {"loaded", "checked"} /\ x.req.op \in RowOps => x.row \in LoadedRow,
         tx' = [tx EXCEPT ![c] = x]
  PROVE  tx' \in [Client -> Transaction] /\ RowRead'
BY DEF TxTypeInv, TxTypeOK, RowRead, RowOps

LEMMA IdleIsTransaction == Idle \in Transaction /\ Idle.stage = "idle"
BY DEF Idle, Transaction

LEMMA TxTypeKept ==
  ASSUME TxTypeInv, [TxNext]_txVars
  PROVE  TxTypeInv'
<1> USE DEF TxTypeInv
<1>0. /\ tasks \in SUBSET Task /\ lifecycle \in [Task -> Lifecycle] /\ archived \in SUBSET tasks
      /\ parent \in [Task -> Task \cup {None}] /\ deps \in SUBSET (Task \X Task)
      /\ version \in [Task -> 0..MaxVersion]
      /\ \A t \in Task : (version[t] = 0) = (t \notin tasks)
      /\ tx \in [Client -> Transaction]
  BY DEF TxTypeOK
<1> DEFINE Kept == UNCHANGED <<vars, version>>
<1>1. ASSUME NEW c \in Client, NEW r \in Request, Load(c, r)
      PROVE  TxTypeInv'
  <2> DEFINE x == [stage |-> "loaded", req |-> r, row |-> IF r.op \in RowOps THEN Row(r.t) ELSE None]
  <2>1. r.op \in RowOps => Row(r.t) \in LoadedRow
    BY <1>0, <1>1, RequestParts DEF Load, RowOps, Row, LoadedRow
  <2>2. x \in Transaction
    BY <2>1 DEF Transaction
  <2>3. tx' = [tx EXCEPT ![c] = x]
    BY <1>1 DEF Load
  <2>4. tx' \in [Client -> Transaction] /\ RowRead'
    BY <2>1, <2>2, <2>3, TransactionSet
  <2> QED
    BY <1>1, <2>4, <1>0 DEF Load, TxTypeOK, vars
<1>2. ASSUME NEW c \in Client, Check(c)
      PROVE  TxTypeInv'
  <2>1. tx[c] \in [stage : {"loaded", "checked"}, req : Request, row : LoadedRow \cup {None}]
    BY <1>0, <1>2, TransactionParts DEF Check
  <2> DEFINE x == [tx[c] EXCEPT !.stage = "checked"]
  <2>2. x \in Transaction /\ x.req = tx[c].req /\ x.row = tx[c].row
    BY <2>1 DEF Transaction
  <2>3. tx' = [tx EXCEPT ![c] = x]
    BY <1>2 DEF Check
  <2>4. tx' \in [Client -> Transaction] /\ RowRead'
    BY <1>2, <2>1, <2>2, <2>3, TransactionSet DEF RowRead, Check
  <2> QED
    BY <1>2, <2>4, <1>0 DEF Check, TxTypeOK, vars
<1>3. ASSUME NEW c \in Client, tx' = [tx EXCEPT ![c] = Idle]
      PROVE  tx' \in [Client -> Transaction] /\ RowRead'
  BY <1>3, IdleIsTransaction, TransactionSet
<1>4. ASSUME NEW c \in Client, CommitAdd(c)
      PROVE  TxTypeInv'
  <2>1. tx[c].req \in Request
    BY <1>0, <1>4, TransactionParts DEF CommitAdd
  <2>2. tx' \in [Client -> Transaction] /\ RowRead'
    BY <1>3, <1>4 DEF CommitAdd
  <2> QED
    BY <1>0, <1>4, <2>1, <2>2, RequestParts, MaxVersionAssumption DEF CommitAdd, TxTypeOK
<1>5. ASSUME NEW c \in Client, CommitRow(c)
      PROVE  TxTypeInv'
  <2> DEFINE r == tx[c].req
             row == tx[c].row
  <2>1. r \in Request /\ row \in LoadedRow
    BY <1>0, <1>5, TransactionParts DEF CommitRow, RowRead
  <2>2. tx' \in [Client -> Transaction] /\ RowRead'
    BY <1>3, <1>5 DEF CommitRow
  <2>3. r.t \in Task /\ r.op \in RowOps /\ r.t \in tasks /\ row.version < MaxVersion
    BY <1>5, <2>1, RequestParts DEF CommitRow, RowAsLoaded
  <2>4. EditedLifecycle(r, row) \in Lifecycle /\ EditedParent(r, row) \in Task \cup {None}
    BY <2>1, <2>3, RequestParts DEF EditedLifecycle, EditedParent, LoadedRow, RowOps
  <2>5. NextVersion(row) \in 1..MaxVersion
    BY <2>1, <2>3, MaxVersionAssumption DEF LoadedRow, NextVersion
  <2>6. lifecycle' \in [Task -> Lifecycle] /\ parent' \in [Task -> Task \cup {None}]
    BY <1>0, <1>5, <2>4 DEF CommitRow, Lifecycle
  <2>7. tasks' = tasks /\ deps' = deps /\ archived' \subseteq tasks
    BY <1>0, <1>5, <2>3 DEF CommitRow
  <2>8. version' = [version EXCEPT ![r.t] = NextVersion(row)]
    BY <1>5 DEF CommitRow
  <2> QED
    BY <1>0, <2>2, <2>3, <2>5, <2>6, <2>7, <2>8 DEF TxTypeOK
<1>6. ASSUME NEW c \in Client, CommitDepend(c)
      PROVE  TxTypeInv'
  <2>1. tx' \in [Client -> Transaction] /\ RowRead'
    BY <1>3, <1>6 DEF CommitDepend
  <2> QED
    BY <1>0, <1>6, <2>1 DEF CommitDepend, EndsReferenced, TxTypeOK
<1>7. ASSUME NEW c \in Client, Detach(c)
      PROVE  TxTypeInv'
  <2> DEFINE children == IF Store = "postgres" THEN Children(tx[c].req.t) ELSE {}
             x == [stage |-> "detached", req |-> tx[c].req, locked |-> children]
  <2>1. tx[c].req \in Request
    BY <1>0, <1>7, TransactionParts DEF Detach
  <2>2. children \in SUBSET Task
    BY <1>0 DEF Children
  <2>3. x \in Transaction /\ x.stage = "detached"
    BY <2>1, <2>2 DEF Transaction
  <2>4. tx' = [tx EXCEPT ![c] = x]
    BY <1>7 DEF Detach
  <2>5. tx' \in [Client -> Transaction] /\ RowRead'
    BY <2>3, <2>4, TransactionSet
  <2> QED
    BY <1>0, <1>7, <2>5 DEF Detach, TxTypeOK, vars
<1>8. ASSUME NEW c \in Client, CommitDelete(c)
      PROVE  TxTypeInv'
  <2>1. tx[c].req.t \in Task
    BY <1>0, <1>8, TransactionParts, RequestParts DEF EdgesAfterDelete, CommitDelete
  <2>2. tx' \in [Client -> Transaction] /\ RowRead'
    BY <1>3, <1>8 DEF EdgesAfterDelete, CommitDelete
  <2>3. /\ lifecycle' \in [Task -> Lifecycle] /\ parent' \in [Task -> Task \cup {None}]
        /\ tasks' = tasks \ {tx[c].req.t} /\ archived' \subseteq tasks'
        /\ deps' \subseteq Task \X Task
    BY <1>0, <1>8 DEF EdgesAfterDelete, CommitDelete, Lifecycle
  <2>4. version' = [version EXCEPT ![tx[c].req.t] = 0]
    BY <1>8 DEF EdgesAfterDelete, CommitDelete
  <2> QED
    BY <1>0, <2>1, <2>2, <2>3, <2>4, MaxVersionAssumption DEF TxTypeOK
<1>9. ASSUME NEW c \in Client, Rollback(c)
      PROVE  TxTypeInv'
  <2>1. tx' \in [Client -> Transaction] /\ RowRead'
    BY <1>3, <1>9 DEF Rollback
  <2> QED
    BY <1>0, <1>9, <2>1 DEF Rollback, TxTypeOK, vars
<1>10. CASE UNCHANGED txVars
  BY <1>10 DEF txVars, vars, TxTypeOK, RowRead
<1> QED
  BY <1>1, <1>2, <1>4, <1>5, <1>6, <1>7, <1>8, <1>9, <1>10 DEF TxNext

LEMMA TxTypeInitially ==
  ASSUME TxInit
  PROVE  TxTypeInv
BY IdleIsTransaction, MaxVersionAssumption
   DEF TxInit, Init, TxTypeInv, TxTypeOK, RowRead, Lifecycle

(* The committed rows and every open transaction are well formed, and an   *)
(* id has version 0 exactly when it has no row.                            *)
THEOREM TxTypeCorrect == TxSpec => []TxTypeOK
<1>1. TxInit => TxTypeInv
  BY TxTypeInitially
<1>2. TxTypeInv /\ [TxNext]_txVars => TxTypeInv'
  BY TxTypeKept
<1>3. TxTypeInv => TxTypeOK
  BY DEF TxTypeInv
<1> QED
  BY <1>1, <1>2, <1>3, PTL DEF TxSpec

-----------------------------------------------------------------------------
(* No step leaves a dependency on an id without a row: the foreign keys    *)
(* are tested by the statements that write, not by the checks before them. *)
THEOREM DependencyEndsStoredInvariant == TxSpec => []DependencyEndsStored
<1>1. TxInit => DependencyEndsStored
  BY DEF TxInit, Init, DependencyEndsStored
<1>2. DependencyEndsStored /\ [TxNext]_txVars => DependencyEndsStored'
  <2> SUFFICES ASSUME DependencyEndsStored, [TxNext]_txVars
               PROVE  DependencyEndsStored'
    OBVIOUS
  <2> USE DEF DependencyEndsStored
  <2>1. ASSUME NEW c \in Client, NEW r \in Request, Load(c, r)
        PROVE  DependencyEndsStored'
    BY <2>1 DEF Load, vars
  <2>2. ASSUME NEW c \in Client, Check(c) \/ Detach(c) \/ Rollback(c)
        PROVE  DependencyEndsStored'
    BY <2>2 DEF Check, Detach, Rollback, vars
  <2>3. ASSUME NEW c \in Client, CommitAdd(c)
        PROVE  DependencyEndsStored'
    BY <2>3 DEF CommitAdd
  <2>4. ASSUME NEW c \in Client, CommitRow(c)
        PROVE  DependencyEndsStored'
    BY <2>4 DEF CommitRow
  <2>5. ASSUME NEW c \in Client, CommitDepend(c)
        PROVE  DependencyEndsStored'
    BY <2>5 DEF CommitDepend, EndsReferenced
  <2>6. ASSUME NEW c \in Client, CommitDelete(c)
        PROVE  DependencyEndsStored'
    BY <2>6 DEF EdgesAfterDelete, CommitDelete, NoDependents
  <2>7. CASE UNCHANGED txVars
    BY <2>7 DEF txVars, vars
  <2> QED
    BY <2>1, <2>2, <2>3, <2>4, <2>5, <2>6, <2>7 DEF TxNext
<1> QED
  BY <1>1, <1>2, PTL DEF TxSpec

-----------------------------------------------------------------------------
(* Serial transactions.                                                    *)

(* At most one transaction is open. *)
Alone == \A c, o \in Client : InTransaction(c) /\ InTransaction(o) => c = o

(* What a transaction has read, and what its request found, is still so. *)
Fresh ==
  \A c \in Client : tx[c].stage \in {"loaded", "checked"} =>
    /\ (tx[c].req.op = "add") # (tx[c].req.t \in tasks)
    /\ tx[c].req.op \in RowOps => tx[c].row = Row(tx[c].req.t)

(* The checks a transaction has passed would pass now. *)
Passed ==
  \A c \in Client : tx[c].stage = "checked" =>
    \A r \in {tx[c].req}, row \in {tx[c].row} : Passes(r, row)

(* A delete holds its task's children. *)
Held ==
  \A c \in Client : tx[c].stage = "detached" =>
    /\ tx[c].req.t \in tasks
    /\ tx[c].locked = IF Store = "postgres" THEN Children(tx[c].req.t) ELSE {}

SerialInv == TypeOK /\ TxTypeInv /\ Alone /\ Fresh /\ Passed /\ Held

(* Someone is in a transaction exactly at the stages after idle. *)
LEMMA InTransactionStage ==
  ASSUME TxTypeInv, NEW c \in Client
  PROVE  InTransaction(c) <=> tx[c].stage # "idle"
<1>1. tx[c] \in Transaction
  BY DEF TxTypeInv, TxTypeOK
<1> QED
  BY <1>1, TransactionParts DEF InTransaction, Idle

(* The step that ends the only transaction leaves none open. *)
LEMMA NobodyLeft ==
  ASSUME TxTypeInv, Alone, NEW c \in Client, InTransaction(c),
         tx' = [tx EXCEPT ![c] = Idle]
  PROVE  Alone' /\ Fresh' /\ Passed' /\ Held'
<1>1. \A o \in Client : tx'[o] = Idle
  BY DEF Alone, InTransaction, TxTypeInv, TxTypeOK
<1>2. \A o \in Client : tx'[o].stage = "idle"
  BY <1>1, IdleIsTransaction
<1> QED
  BY <1>1, <1>2 DEF Alone, InTransaction, Fresh, Passed, Held

(* A step of the only transaction that leaves the rows alone. *)
LEMMA OnlyOne ==
  ASSUME TxTypeInv, Alone, NEW c \in Client, NEW x,
         \A o \in Client \ {c} : ~InTransaction(o),
         tx' = [tx EXCEPT ![c] = x]
  PROVE  Alone' /\ tx'[c] = x /\ \A o \in Client \ {c} : tx'[o].stage = "idle"
<1>1. \A o \in Client \ {c} : tx'[o] = Idle
  BY DEF InTransaction, TxTypeInv, TxTypeOK
<1>2. tx'[c] = x
  BY DEF TxTypeInv, TxTypeOK
<1> QED
  BY <1>1, <1>2, IdleIsTransaction DEF Alone, InTransaction

(* Validations read the committed rows only. *)
LEMMA PassesAgain ==
  ASSUME UNCHANGED vars
  PROVE  \A r, row : Passes(r, row) => Passes(r, row)'
BY DEF vars, Passes, AddPasses, EditPasses, ReleasePasses, RestorePasses, DependPasses,
       ParentAccepted, EditedParent, EditedLifecycle

(* Steps within a transaction. *)
LEMMA InsideStep ==
  ASSUME Isolation = "serial", SerialInv, NEW c \in Client,
         (\E r \in Request : Load(c, r)) \/ Check(c) \/ Detach(c)
  PROVE  UNCHANGED vars /\ Alone' /\ Fresh' /\ Passed' /\ Held'
<1> USE DEF SerialInv
<1>0. UNCHANGED vars /\ UNCHANGED version
  BY DEF Load, Check, Detach
<1>1. \A t \in Task : Row(t)' = Row(t)
  BY <1>0 DEF Row, vars
<1>2. \A t \in Task : Children(t)' = Children(t)
  BY <1>0 DEF Children, vars
<1>3. tx[c] \in Transaction
  BY DEF TxTypeInv, TxTypeOK
<1>4. ASSUME NEW r \in Request, Load(c, r)
      PROVE  Alone' /\ Fresh' /\ Passed' /\ Held'
  <2> DEFINE x == [stage |-> "loaded", req |-> r, row |-> IF r.op \in RowOps THEN Row(r.t) ELSE None]
  <2>1. \A o \in Client : ~InTransaction(o)
    BY <1>4 DEF Load, MayBegin
  <2>2. tx' = [tx EXCEPT ![c] = x]
    BY <1>4 DEF Load
  <2>3. Alone' /\ tx'[c] = x /\ \A o \in Client \ {c} : tx'[o].stage = "idle"
    <3> HIDE DEF x
    <3> QED
      BY <2>1, <2>2, OnlyOne
  <2>4. (r.op = "add") # (r.t \in tasks')
    BY <1>0, <1>4 DEF Load, vars
  <2>5. r.op \in RowOps => x.row = Row(r.t)'
    BY <1>1, RequestParts
  <2>6. Fresh'
    BY <2>3, <2>4, <2>5 DEF Fresh
  <2> QED
    BY <2>3, <2>6 DEF Passed, Held
<1>5. ASSUME Check(c)
      PROVE  Alone' /\ Fresh' /\ Passed' /\ Held'
  <2>1. tx[c] \in [stage : {"loaded", "checked"}, req : Request, row : LoadedRow \cup {None}]
    BY <1>3, <1>5, TransactionParts DEF Check
  <2> DEFINE x == [tx[c] EXCEPT !.stage = "checked"]
  <2>2. x.stage = "checked" /\ x.req = tx[c].req /\ x.row = tx[c].row
    BY <2>1
  <2>3. InTransaction(c)
    BY <1>5, InTransactionStage DEF Check
  <2>4. tx' = [tx EXCEPT ![c] = x]
    BY <1>5 DEF Check
  <2>5. Alone' /\ tx'[c] = x /\ \A o \in Client \ {c} : tx'[o].stage = "idle"
    <3> HIDE DEF x
    <3> QED
      BY <2>3, <2>4, OnlyOne DEF Alone
  <2>6. tx'[c].req = tx[c].req /\ tx'[c].row = tx[c].row /\ tx'[c].stage = "checked"
    BY <2>2, <2>5
  <2>7. /\ (tx[c].req.op = "add") # (tx[c].req.t \in tasks)
        /\ tx[c].req.op \in RowOps => tx[c].row = Row(tx[c].req.t)
        /\ tx[c].req.t \in Task
    BY <1>5, <2>1, RequestParts DEF Check, Fresh
  <2>8. Fresh'
    <3>1. /\ (tx[c].req.op = "add") # (tx[c].req.t \in tasks')
          /\ tx[c].req.op \in RowOps => tx[c].row = Row(tx[c].req.t)'
      BY <1>0, <2>6, <2>7 DEF Row, vars
    <3> QED
      BY <2>5, <2>6, <3>1 DEF Fresh, Row
  <2>9. Passed'
    <3> SUFFICES ASSUME NEW o \in Client, tx'[o].stage = "checked",
                        NEW r \in {tx'[o].req}, NEW row \in {tx'[o].row}
                 PROVE  Passes(r, row)'
      BY DEF Passed
    <3>1. o = c
      BY <2>5
    <3>2. r = tx[c].req /\ row = tx[c].row
      BY <2>6, <3>1
    <3>3. Passes(r, row)
      BY <1>5, <3>2 DEF Check
    <3> QED
      BY <1>0, <3>3, PassesAgain
  <2> QED
    BY <2>5, <2>6, <2>8, <2>9 DEF Held
<1>6. ASSUME Detach(c)
      PROVE  Alone' /\ Fresh' /\ Passed' /\ Held'
  <2> DEFINE children == IF Store = "postgres" THEN Children(tx[c].req.t) ELSE {}
             x == [stage |-> "detached", req |-> tx[c].req, locked |-> children]
  <2>1. tx[c].req.t \in tasks /\ tx[c].req.t \in Task
    BY <1>3, <1>6, TransactionParts, RequestParts DEF Detach, Fresh
  <2>2. InTransaction(c)
    BY <1>6, InTransactionStage DEF Detach
  <2>3. tx' = [tx EXCEPT ![c] = x]
    BY <1>6 DEF Detach
  <2>4. Alone' /\ tx'[c] = x /\ \A o \in Client \ {c} : tx'[o].stage = "idle"
    <3> HIDE DEF x
    <3> QED
      BY <2>2, <2>3, OnlyOne DEF Alone
  <2>5. tx'[c].stage = "detached" /\ tx'[c].req = tx[c].req /\ tx'[c].locked = children
    BY <2>4
  <2>6. Held'
    BY <1>0, <1>2, <2>1, <2>4, <2>5 DEF Held, vars
  <2> QED
    BY <2>4, <2>5, <2>6 DEF Fresh, Passed
<1> QED
  BY <1>0, <1>4, <1>5, <1>6

(* The commit of an add is TaskGraph's Add. *)
LEMMA AddCommits ==
  ASSUME SerialInv, NEW c \in Client, CommitAdd(c)
  PROVE  Next
<1> DEFINE r == tx[c].req
<1>1. r \in Request /\ r.op = "add" /\ tx[c].stage = "checked"
  BY TransactionParts DEF CommitAdd, SerialInv, TxTypeInv, TxTypeOK
<1>2. Passes(r, tx[c].row)
  BY <1>1 DEF SerialInv, Passed
<1>3. r.t \in Task /\ r.u \in Task \cup {None} /\ r.l \in Lifecycle /\ AddPasses(r)
  BY <1>1, <1>2, RequestParts DEF Passes
<1>4. Add(r.t, r.u, r.l)
  BY <1>3 DEF Add, AddPasses, ParentAccepted, CommitAdd
<1> QED
  BY <1>3, <1>4 DEF Next, TaskNext

(* The commit of a row is the method that asked for it. *)
LEMMA RowCommits ==
  ASSUME SerialInv, NEW c \in Client, CommitRow(c)
  PROVE  Next
<1> DEFINE r == tx[c].req
           row == tx[c].row
           t == r.t
           q == EditedParent(r, row)
           l == EditedLifecycle(r, row)
<1>1. r \in Request /\ tx[c].stage = "checked" /\ r.op \in RowOps
  BY TransactionParts DEF CommitRow, SerialInv, TxTypeInv, TxTypeOK
<1>2. Passes(r, row)
  BY <1>1 DEF SerialInv, Passed
<1>3. t \in Task /\ t \in tasks /\ row = Row(t)
  BY <1>1, RequestParts DEF SerialInv, Fresh, RowOps
<1>4. /\ row.lifecycle = lifecycle[t] /\ row.parent = parent[t]
      /\ row.archived = (t \in archived)
  BY <1>3 DEF Row
<1>5. /\ lifecycle \in [Task -> Lifecycle] /\ parent \in [Task -> Task \cup {None}]
      /\ archived \subseteq tasks
  BY DEF SerialInv, TypeOK
<1>6. /\ lifecycle' = [lifecycle EXCEPT ![t] = IF r.op = "release" THEN "open" ELSE l]
      /\ parent' = [parent EXCEPT ![t] = q]
      /\ archived' = IF r.op = "archive" \/ (row.archived /\ r.op # "restore")
                     THEN archived \cup {t} ELSE archived \ {t}
      /\ UNCHANGED <<tasks, deps>>
  BY DEF CommitRow
<1>7. CASE r.op = "edit"
  <2>1. r.u \in Task \cup {None, Keep} /\ r.l \in Lifecycle \cup {Keep} /\ l \in Lifecycle
    BY <1>1, <1>3, <1>4, <1>5, <1>7, RequestParts DEF EditedLifecycle
  <2>2. q = IF r.u = Keep THEN parent[t] ELSE r.u
    BY <1>4 DEF EditedParent
  <2>3. archived' = archived
    BY <1>4, <1>6, <1>7
  <2>4. EditPasses(r, row)
    BY <1>2, <1>7 DEF Passes
  <2>5. tasks \cup {t} = tasks
    BY <1>3
  <2>6. /\ r.u \in Task => r.u \in tasks \ archived /\ ~ParentCycle(t, r.u, parent)
        /\ q # None => q \in tasks
        /\ ParentTakesChild(q, l, lifecycle)
        /\ l = "finished" => ScopeFinished(t, tasks, lifecycle, archived, [parent EXCEPT ![t] = q])
    BY <2>4, <2>5 DEF EditPasses, ParentAccepted
  <2>7. Edit(t, r.u, l)
    BY <1>3, <1>6, <1>7, <2>2, <2>3, <2>6 DEF Edit
  <2> QED
    BY <1>3, <2>1, <2>7 DEF Next, TaskNext
<1>8. CASE r.op # "edit"
  <2>1. r.op \in {"release", "archive", "restore"} /\ r.u = Keep /\ r.l = Keep
    BY <1>1, <1>8, RequestParts DEF RowOps
  <2>2. q = parent[t] /\ l = lifecycle[t]
    BY <1>4, <2>1 DEF EditedParent, EditedLifecycle
  <2>3. parent' = parent /\ [lifecycle EXCEPT ![t] = l] = lifecycle /\ [parent EXCEPT ![t] = parent[t]] = parent
    BY <1>3, <1>5, <1>6, <2>2
  <2>4. CASE r.op = "release"
    <3>1. ~row.archived /\ row.lifecycle = "started"
      BY <1>2, <2>4 DEF Passes, ReleasePasses
    <3>2. archived' = archived
      BY <1>4, <1>6, <2>4, <3>1
    <3>3. Release(t)
      BY <1>3, <1>4, <1>6, <2>3, <2>4, <3>1, <3>2 DEF Release
    <3> QED
      BY <1>3, <3>3 DEF Next, TaskNext
  <2>5. CASE r.op = "archive"
    <3>1. Archive(t)
      BY <1>3, <1>6, <2>3, <2>5 DEF Archive
    <3> QED
      BY <1>3, <3>1 DEF Next, TaskNext
  <2>6. CASE r.op = "restore"
    <3>1. RestorePasses(t, row)
      BY <1>2, <2>6 DEF Passes
    <3>2. row.archived /\ parent[t] \notin archived
      BY <1>4, <3>1 DEF RestorePasses
    <3>3. FinishedParentsValid(tasks, lifecycle, archived \ {t}, parent)
      BY <1>4, <2>2, <2>3, <3>1 DEF RestorePasses
    <3>4. Restore(t)
      BY <1>4, <1>6, <2>3, <2>6, <3>2, <3>3 DEF Restore
    <3> QED
      BY <1>3, <3>4 DEF Next, TaskNext
  <2> QED
    BY <2>1, <2>4, <2>5, <2>6
<1> QED
  BY <1>7, <1>8

(* The commit of a dependency is TaskGraph's DependencyAdd. *)
LEMMA DependCommits ==
  ASSUME SerialInv, NEW c \in Client, CommitDepend(c)
  PROVE  Next
<1> DEFINE r == tx[c].req
<1>1. r \in Request /\ r.op = "depend" /\ tx[c].stage = "checked"
  BY TransactionParts DEF CommitDepend, EndsReferenced, SerialInv, TxTypeInv, TxTypeOK
<1>2. DependPasses(r)
  BY <1>1 DEF SerialInv, Passed, Passes
<1>3. DependencyAdd(r.t, r.u)
  BY <1>2 DEF DependencyAdd, DependPasses, CommitDepend, EndsReferenced
<1> QED
  BY <1>1, <1>3, RequestParts DEF Next, DependencyNext

(* The commit of a hard delete is TaskGraph's Delete: with nobody else at  *)
(* work the children found by the first statement are those of the second. *)
LEMMA DeleteCommits ==
  ASSUME SerialInv, NEW c \in Client, CommitDelete(c)
  PROVE  Next
<1> DEFINE t == tx[c].req.t
<1>1. t \in Task /\ tx[c].stage = "detached"
  BY TransactionParts, RequestParts DEF EdgesAfterDelete, CommitDelete, SerialInv, TxTypeInv, TxTypeOK
<1>2. t \in tasks /\ tx[c].locked = IF Store = "postgres" THEN Children(t) ELSE {}
  BY <1>1 DEF SerialInv, Held
<1>3. \A k \in Task : parent[k] # None => k \in tasks
  BY DEF SerialInv, TypeOK
<1>4. /\ NoDependents(t) /\ DeleteAccepted(t)
      /\ parent' = [k \in Task |-> IF k = t \/ k \in tx[c].locked THEN None ELSE parent[k]]
  BY DEF EdgesAfterDelete, CommitDelete
<1>5. \A k \in Task : k \in Children(t) <=> parent[k] = t
  BY <1>1, <1>3, IdsAssumption DEF Children
<1>6. \A k \in Task : (IF k = t \/ k \in tx[c].locked THEN None ELSE parent[k])
                    = (IF k = t \/ (Store # "memory" /\ parent[k] = t) THEN None ELSE parent[k])
  <2>1. CASE Store = "postgres"
    BY <1>2, <1>5, <2>1
  <2>2. CASE Store = "sqlite"
    BY <1>2, <1>4, <1>5, <2>2 DEF DeleteAccepted
  <2>3. CASE Store = "memory"
    BY <1>2, <2>3
  <2> QED
    BY <2>1, <2>2, <2>3, StoreAssumption
<1>7. parent' = ParentsAfterDelete(t)
  BY <1>4, <1>6 DEF ParentsAfterDelete
<1>8. Delete(t)
  BY <1>2, <1>4, <1>7 DEF Delete, EdgesAfterDelete, CommitDelete, NoDependents
<1> QED
  BY <1>1, <1>8 DEF Next, TaskNext

(* Every step of serial transactions is a step of TaskGraph or none. *)
LEMMA SerialStep ==
  ASSUME Isolation = "serial", SerialInv, [TxNext]_txVars
  PROVE  [Next]_vars /\ SerialInv'
<1>1. ASSUME NEW c \in Client, (\E r \in Request : Load(c, r)) \/ Check(c) \/ Detach(c)
      PROVE  UNCHANGED vars /\ Alone' /\ Fresh' /\ Passed' /\ Held'
  BY <1>1, InsideStep
<1>2. ASSUME NEW c \in Client,
             CommitAdd(c) \/ CommitRow(c) \/ CommitDepend(c) \/ CommitDelete(c) \/ Rollback(c)
      PROVE  [Next]_vars /\ Alone' /\ Fresh' /\ Passed' /\ Held'
  <2>1. InTransaction(c) /\ tx' = [tx EXCEPT ![c] = Idle]
    BY <1>2, InTransactionStage
       DEF SerialInv, CommitAdd, CommitRow, CommitDepend, EdgesAfterDelete, CommitDelete, Rollback
  <2>2. Alone' /\ Fresh' /\ Passed' /\ Held'
    BY <2>1, NobodyLeft DEF SerialInv
  <2>3. [Next]_vars
    BY <1>2, AddCommits, RowCommits, DependCommits, DeleteCommits DEF Rollback
  <2> QED
    BY <2>2, <2>3
<1>3. ASSUME UNCHANGED txVars
      PROVE  [Next]_vars /\ Alone' /\ Fresh' /\ Passed' /\ Held'
  <2>1. UNCHANGED vars /\ UNCHANGED tx /\ UNCHANGED version
    BY <1>3 DEF txVars
  <2>2. Alone' /\ Fresh' /\ Held'
    BY <2>1 DEF SerialInv, Alone, Fresh, Held, InTransaction, Row, Children, vars
  <2>3. Passed'
    <3> SUFFICES ASSUME NEW c \in Client, tx'[c].stage = "checked",
                        NEW r \in {tx'[c].req}, NEW row \in {tx'[c].row}
                 PROVE  Passes(r, row)'
      BY DEF Passed
    <3>1. Passes(r, row)
      BY <2>1 DEF SerialInv, Passed
    <3> QED
      BY <2>1, <3>1, PassesAgain
  <2> QED
    BY <2>1, <2>2, <2>3
<1>4. [Next]_vars /\ Alone' /\ Fresh' /\ Passed' /\ Held'
  <2>1. CASE TxNext
    <3>1. PICK c \in Client :
            \/ (\E r \in Request : Load(c, r)) \/ Check(c) \/ Detach(c)
            \/ CommitAdd(c) \/ CommitRow(c) \/ CommitDepend(c) \/ CommitDelete(c) \/ Rollback(c)
      BY <2>1 DEF TxNext
    <3>2. CASE (\E r \in Request : Load(c, r)) \/ Check(c) \/ Detach(c)
      BY <1>1, <3>2
    <3>3. CASE CommitAdd(c) \/ CommitRow(c) \/ CommitDepend(c) \/ CommitDelete(c) \/ Rollback(c)
      BY <1>2, <3>3
    <3> QED
      BY <3>1, <3>2, <3>3
  <2> QED
    BY <1>3, <2>1
<1>5. TypeOK'
  BY <1>4, TypeKept DEF SerialInv
<1>6. TxTypeInv'
  BY TxTypeKept DEF SerialInv
<1> QED
  BY <1>4, <1>5, <1>6 DEF SerialInv

(* Serial transactions implement TaskGraph: a method taken apart into      *)
(* load, check and commit changes the rows exactly as the method in one    *)
(* step does, for any number of clients and any store.                     *)
THEOREM SerialImplementsTaskGraph ==
  ASSUME Isolation = "serial"
  PROVE  TxSpec => Spec
<1>1. TxInit => Init /\ SerialInv
  <2> SUFFICES ASSUME TxInit
               PROVE  Init /\ SerialInv
    OBVIOUS
  <2>1. Init /\ \A c \in Client : tx[c] = Idle
    BY DEF TxInit
  <2>2. TypeOK
    BY <2>1 DEF Init, TypeOK, Lifecycle
  <2>3. Alone /\ Fresh /\ Passed /\ Held
    BY <2>1, IdleIsTransaction DEF Alone, InTransaction, Fresh, Passed, Held
  <2> QED
    BY <2>1, <2>2, <2>3, TxTypeInitially DEF SerialInv
<1>2. SerialInv /\ [TxNext]_txVars => [Next]_vars /\ SerialInv'
  BY SerialStep
<1> QED
  BY <1>1, <1>2, PTL DEF TxSpec, Spec

(* So both graphs stay acyclic under serial transactions. *)
COROLLARY SerialKeepsGraphs ==
  ASSUME Isolation = "serial"
  PROVE  TxSpec => [](ParentForest /\ DependencyDAG)
BY SerialImplementsTaskGraph, ParentForestInvariant, DependencyDAGInvariant, PTL

-----------------------------------------------------------------------------
(* No lost updates, where rows are not deleted.                            *)

(* A row read earlier is older than the stored one, or is the stored one;  *)
(* a release has found it started.                                         *)
OlderOrStored(x) ==
  x.stage \in {"loaded", "checked"} /\ x.req.op \in RowOps =>
    /\ x.req.t \in tasks
    /\ x.row.version <= version[x.req.t]
    /\ x.row.version = version[x.req.t] =>
         /\ x.row.lifecycle = lifecycle[x.req.t]
         /\ x.row.parent = parent[x.req.t]
         /\ x.row.archived <=> x.req.t \in archived
    /\ x.stage = "checked" /\ x.req.op = "release" => ReleasePasses(x.row)

OnlyDeletesDetach(x) == x.stage = "detached" => x.req.op = "delete"

UpdateInv == TxTypeInv /\ \A c \in Client : OlderOrStored(tx[c]) /\ OnlyDeletesDetach(tx[c])

(* Setting one transaction while the rows stay. *)
LEMMA OlderWhenRowsStay ==
  ASSUME UpdateInv, UNCHANGED vars, UNCHANGED version, NEW c \in Client, NEW x,
         tx' = [tx EXCEPT ![c] = x], OlderOrStored(x), OnlyDeletesDetach(x)
  PROVE  \A o \in Client : OlderOrStored(tx[o])' /\ OnlyDeletesDetach(tx[o])'
<1> SUFFICES ASSUME NEW o \in Client
             PROVE  OlderOrStored(tx[o])' /\ OnlyDeletesDetach(tx[o])'
  OBVIOUS
<1>1. tx'[o] = x \/ tx'[o] = tx[o]
  BY DEF UpdateInv, TxTypeInv, TxTypeOK
<1> QED
  BY <1>1 DEF UpdateInv, OlderOrStored, OnlyDeletesDetach, ReleasePasses, vars

(* The same while one row changes and counts up. *)
LEMMA OlderWhenCounted ==
  ASSUME UpdateInv, NEW c \in Client, NEW t \in Task,
         tx' = [tx EXCEPT ![c] = Idle],
         tasks \subseteq tasks',
         version'[t] \in Nat, version'[t] > version[t],
         \A k \in Task \ {t} :
           /\ version'[k] = version[k] /\ lifecycle'[k] = lifecycle[k]
           /\ parent'[k] = parent[k] /\ (k \in archived' <=> k \in archived)
  PROVE  \A o \in Client : OlderOrStored(tx[o])' /\ OnlyDeletesDetach(tx[o])'
<1> SUFFICES ASSUME NEW o \in Client
             PROVE  OlderOrStored(tx[o])' /\ OnlyDeletesDetach(tx[o])'
  OBVIOUS
<1>1. tx'[o] = Idle \/ tx'[o] = tx[o]
  BY DEF UpdateInv, TxTypeInv, TxTypeOK
<1>2. CASE tx'[o] = Idle
  BY <1>2, IdleIsTransaction DEF OlderOrStored, OnlyDeletesDetach
<1>3. CASE tx'[o] = tx[o]
  <2>1. OnlyDeletesDetach(tx[o])'
    BY <1>3 DEF UpdateInv, OnlyDeletesDetach
  <2>2. ASSUME tx[o].stage \in {"loaded", "checked"}, tx[o].req.op \in RowOps
        PROVE  OlderOrStored(tx[o])'
    <3> DEFINE k == tx[o].req.t
               row == tx[o].row
    <3>1. OlderOrStored(tx[o])
      BY DEF UpdateInv
    <3>2. row.version \in Nat
      BY <2>2, MaxVersionAssumption DEF UpdateInv, TxTypeInv, RowRead, LoadedRow
    <3>3. k \in Task /\ version[k] \in Nat
      BY <2>2, <3>1, MaxVersionAssumption DEF OlderOrStored, UpdateInv, TxTypeInv, TxTypeOK
    <3>4. CASE k = t
      BY <1>3, <2>2, <3>1, <3>2, <3>3, <3>4 DEF OlderOrStored, ReleasePasses
    <3>5. CASE k # t
      BY <1>3, <2>2, <3>1, <3>3, <3>5 DEF OlderOrStored, ReleasePasses
    <3> QED
      BY <3>4, <3>5
  <2> QED
    BY <1>3, <2>1, <2>2 DEF OlderOrStored
<1> QED
  BY <1>1, <1>2, <1>3

(* A step that leaves every column of the stored rows alone. *)
LEMMA NothingChanges ==
  ASSUME tasks \subseteq Task,
         \A k \in tasks : /\ lifecycle'[k] = lifecycle[k] /\ parent'[k] = parent[k]
                          /\ (k \in archived' <=> k \in archived)
  PROVE  OnlyAsAsked
BY DEF OnlyAsAsked

LEMMA UpdateStep ==
  ASSUME "delete" \notin Ops, UpdateInv, [TxNext]_txVars
  PROVE  UpdateInv' /\ [OnlyAsAsked]_txVars
<1>0. /\ tasks \in SUBSET Task /\ archived \in SUBSET tasks
      /\ lifecycle \in [Task -> Lifecycle] /\ parent \in [Task -> Task \cup {None}]
      /\ version \in [Task -> 0..MaxVersion] /\ tx \in [Client -> Transaction]
      /\ \A t \in Task : (version[t] = 0) = (t \notin tasks)
  BY DEF UpdateInv, TxTypeInv, TxTypeOK
<1> DEFINE Older == \A o \in Client : OlderOrStored(tx[o])' /\ OnlyDeletesDetach(tx[o])'
<1>1. ASSUME NEW c \in Client, NEW r \in Request, Load(c, r)
      PROVE  Older /\ OnlyAsAsked
  <2> DEFINE x == [stage |-> "loaded", req |-> r, row |-> IF r.op \in RowOps THEN Row(r.t) ELSE None]
  <2>1. tx' = [tx EXCEPT ![c] = x] /\ UNCHANGED vars /\ UNCHANGED version
    BY <1>1 DEF Load
  <2>2. OlderOrStored(x)
    <3> SUFFICES ASSUME r.op \in RowOps
                 PROVE  OlderOrStored(x)
      BY DEF OlderOrStored
    <3>1. r.t \in Task /\ r.t \in tasks
      BY <1>1, RequestParts DEF Load, RowOps
    <3>2. /\ x.stage = "loaded" /\ x.req = r
          /\ x.row.lifecycle = lifecycle[r.t] /\ x.row.parent = parent[r.t]
          /\ x.row.version = version[r.t]
      BY DEF Row
    <3>3. x.row.archived <=> r.t \in archived
      BY DEF Row
    <3>4. version[r.t] <= version[r.t]
      BY <1>0, <3>1, MaxVersionAssumption
    <3> HIDE DEF x
    <3> QED
      BY <3>1, <3>2, <3>3, <3>4 DEF OlderOrStored
  <2>3. OnlyDeletesDetach(x)
    BY DEF OnlyDeletesDetach
  <2>4. Older
    <3> HIDE DEF x
    <3> QED
      BY <2>1, <2>2, <2>3, OlderWhenRowsStay
  <2> QED
    BY <1>0, <2>1, <2>4, NothingChanges DEF vars
<1>2. ASSUME NEW c \in Client, Check(c)
      PROVE  Older /\ OnlyAsAsked
  <2> DEFINE x == [tx[c] EXCEPT !.stage = "checked"]
  <2>1. tx' = [tx EXCEPT ![c] = x] /\ UNCHANGED vars /\ UNCHANGED version
    BY <1>2 DEF Check
  <2>2. tx[c] \in [stage : {"loaded", "checked"}, req : Request, row : LoadedRow \cup {None}]
    BY <1>0, <1>2, TransactionParts DEF Check
  <2>3. x.stage = "checked" /\ x.req = tx[c].req /\ x.row = tx[c].row
    BY <2>2
  <2>4. x.req.op = "release" => ReleasePasses(x.row)
    BY <1>2, <2>3 DEF Check, Passes
  <2>5. OlderOrStored(x) /\ OnlyDeletesDetach(x)
    <3> HIDE DEF x
    <3> QED
      BY <1>2, <2>3, <2>4 DEF Check, UpdateInv, OlderOrStored, OnlyDeletesDetach
  <2>6. Older
    <3> HIDE DEF x
    <3> QED
      BY <2>1, <2>5, OlderWhenRowsStay
  <2> QED
    BY <1>0, <2>1, <2>6, NothingChanges DEF vars
<1>3. ASSUME NEW c \in Client, CommitAdd(c)
      PROVE  Older /\ OnlyAsAsked
  <2> DEFINE t == tx[c].req.t
  <2>1. t \in Task /\ t \notin tasks /\ version[t] = 0
    BY <1>0, <1>3, TransactionParts, RequestParts DEF CommitAdd
  <2>2. /\ tx' = [tx EXCEPT ![c] = Idle] /\ tasks' = tasks \cup {t} /\ archived' = archived
        /\ lifecycle' = [lifecycle EXCEPT ![t] = tx[c].req.l]
        /\ parent' = [parent EXCEPT ![t] = tx[c].req.u]
        /\ version' = [version EXCEPT ![t] = 1]
    BY <1>3 DEF CommitAdd
  <2>3. \A k \in Task \ {t} :
          /\ version'[k] = version[k] /\ lifecycle'[k] = lifecycle[k]
          /\ parent'[k] = parent[k] /\ (k \in archived' <=> k \in archived)
    BY <1>0, <2>2
  <2>4. version'[t] \in Nat /\ version'[t] > version[t]
    BY <1>0, <2>1, <2>2
  <2>5. Older
    BY <2>1, <2>2, <2>3, <2>4, OlderWhenCounted
  <2>6. OnlyAsAsked
    BY <1>0, <2>1, <2>3, NothingChanges
  <2> QED
    BY <2>5, <2>6
<1>4. ASSUME NEW c \in Client, CommitRow(c)
      PROVE  Older /\ OnlyAsAsked
  <2> DEFINE r == tx[c].req
             row == tx[c].row
             t == r.t
  <2>1. r \in Request /\ t \in Task /\ t \in tasks /\ r.op \in RowOps /\ tx[c].stage = "checked"
    BY <1>0, <1>4, TransactionParts, RequestParts DEF CommitRow, RowAsLoaded
  <2>2. /\ row.lifecycle = lifecycle[t] /\ row.parent = parent[t]
        /\ row.archived <=> t \in archived
        /\ row.version = version[t]
        /\ r.op = "release" => row.lifecycle = "started"
    BY <1>4, <2>1 DEF CommitRow, RowAsLoaded, UpdateInv, OlderOrStored, ReleasePasses
  <2>3. /\ tx' = [tx EXCEPT ![c] = Idle] /\ tasks' = tasks
        /\ lifecycle' = [lifecycle EXCEPT ![t] =
                           IF r.op = "release" THEN "open" ELSE EditedLifecycle(r, row)]
        /\ parent' = [parent EXCEPT ![t] = EditedParent(r, row)]
        /\ archived' = IF r.op = "archive" \/ (row.archived /\ r.op # "restore")
                       THEN archived \cup {t} ELSE archived \ {t}
        /\ version' = [version EXCEPT ![t] = version[t] + 1]
    BY <1>4, <2>2 DEF CommitRow, NextVersion
  <2>4. \A k \in Task \ {t} :
          /\ version'[k] = version[k] /\ lifecycle'[k] = lifecycle[k]
          /\ parent'[k] = parent[k] /\ (k \in archived' <=> k \in archived)
    BY <1>0, <2>3
  <2>5. version'[t] \in Nat /\ version'[t] > version[t]
    BY <1>0, <2>1, <2>3, MaxVersionAssumption
  <2>6. Older
    BY <2>1, <2>3, <2>4, <2>5, OlderWhenCounted
  <2>7. Commits(c, t)
    BY <1>0, <2>1, <2>3 DEF Commits
  <2>8. lifecycle'[t] # lifecycle[t] =>
          r.l = lifecycle'[t] \/ (r.op = "release" /\ lifecycle[t] = "started")
    BY <1>0, <2>1, <2>2, <2>3 DEF EditedLifecycle
  <2>9. parent'[t] # parent[t] => r.u = parent'[t]
    BY <1>0, <2>1, <2>2, <2>3 DEF EditedParent
  <2>10. ~(t \in archived' <=> t \in archived) => r.op \in {"archive", "restore"}
    BY <2>1, <2>2, <2>3
  <2>11. OnlyAsAsked
    BY <1>0, <2>4, <2>7, <2>8, <2>9, <2>10 DEF OnlyAsAsked
  <2> QED
    BY <2>6, <2>11
<1>5. ASSUME NEW c \in Client, CommitDepend(c) \/ Rollback(c)
      PROVE  Older /\ OnlyAsAsked
  <2>1. /\ tx' = [tx EXCEPT ![c] = Idle] /\ UNCHANGED version
        /\ UNCHANGED <<tasks, lifecycle, archived, parent>>
    BY <1>5 DEF CommitDepend, Rollback, vars
  <2>2. \A o \in Client : tx'[o] = Idle \/ tx'[o] = tx[o]
    BY <1>0, <2>1
  <2>3. Older
    BY <2>1, <2>2, IdleIsTransaction
       DEF UpdateInv, OlderOrStored, OnlyDeletesDetach, ReleasePasses
  <2> QED
    BY <1>0, <2>1, <2>3, NothingChanges
<1>6. ASSUME NEW c \in Client, Detach(c) \/ CommitDelete(c)
      PROVE  FALSE
  <2>1. tx[c].req \in Request /\ tx[c].req.op = "delete"
    BY <1>0, <1>6, TransactionParts DEF Detach, EdgesAfterDelete, CommitDelete, UpdateInv, OnlyDeletesDetach
  <2> QED
    BY <2>1 DEF Request
<1>7. ASSUME UNCHANGED txVars
      PROVE  Older
  BY <1>7 DEF txVars, vars, UpdateInv, OlderOrStored, OnlyDeletesDetach, ReleasePasses
<1>8. TxTypeInv'
  BY TxTypeKept DEF UpdateInv
<1>9. CASE TxNext
  <2>1. Older /\ OnlyAsAsked
    BY <1>1, <1>2, <1>3, <1>4, <1>5, <1>6, <1>9 DEF TxNext
  <2> QED
    BY <1>8, <2>1 DEF UpdateInv
<1>10. CASE UNCHANGED txVars
  BY <1>7, <1>8, <1>10 DEF UpdateInv
<1> QED
  BY <1>9, <1>10

(* Without deletes no update is lost, for any number of clients and rows   *)
(* and under either isolation: a version names one content of a row.       *)
THEOREM NoLostUpdate ==
  ASSUME "delete" \notin Ops
  PROVE  TxSpec => ColumnsChangeOnlyAsAsked
<1>1. TxInit => UpdateInv
  <2> SUFFICES ASSUME TxInit
               PROVE  UpdateInv
    OBVIOUS
  <2>1. \A c \in Client : tx[c] = Idle
    BY DEF TxInit
  <2> QED
    BY <2>1, TxTypeInitially, IdleIsTransaction DEF UpdateInv, OlderOrStored, OnlyDeletesDetach
<1>2. UpdateInv /\ [TxNext]_txVars => UpdateInv' /\ [OnlyAsAsked]_txVars
  BY UpdateStep
<1> QED
  BY <1>1, <1>2, PTL DEF TxSpec, ColumnsChangeOnlyAsAsked

=============================================================================
