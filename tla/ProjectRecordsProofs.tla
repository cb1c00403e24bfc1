------------------------ MODULE ProjectRecordsProofs ------------------------
(* Proofs about ProjectRecords, for any number of clients, tasks, rows and *)
(* names.                                                                  *)
EXTENDS ProjectRecords, TLAPS

(* What the rows of the table are named after. *)
NameOf == IF table = "comments" THEN Task ELSE Name

(* What an open request holds: its new rows have names of their own, the   *)
(* row it will write has been there, and its links lead to rows, or to     *)
(* rows of its file.                                                       *)
RequestOK(r) ==
  /\ r.op \in {"idle", "add", "write", "link", "unlink", "import"}
  /\ r.op = "add" =>
       /\ DOMAIN r.new \subseteq Id
       /\ \A i \in DOMAIN r.new : r.new[i] \in NameOf
       /\ table # "comments" => \A i, j \in DOMAIN r.new : i # j => r.new[i] # r.new[j]
  /\ r.op = "write" =>
       /\ r.row \in Id /\ rows[r.row] # None
       /\ r.next \in Row /\ r.next.name \in NameOf
  /\ r.op = "link" =>
       /\ table \in {"tags", "tracks"}
       /\ r.links \subseteq Link
       /\ \A l \in r.links : l.row \in Stored
       /\ table = "tracks" => \A l, k \in r.links : l = k
  /\ r.op = "unlink" => table \in {"tags", "tracks"} /\ r.row \in Id
  /\ r.op = "import" =>
       /\ r.file \in Files /\ FileNamed(r.file)
       /\ r.rows \subseteq Id /\ \A i \in r.rows : rows[i] # None
       /\ r.links \subseteq r.file.links
       /\ r.links # {} => table \in {"tags", "tracks"}
       /\ \A l \in r.links : l.row \in Stored \cup DOMAIN r.file.rows

RequestsOK == tx = [c \in Client |-> tx[c]] /\ \A c \in Client : RequestOK(tx[c])

(* Only comments are deleted, and only tags and tracks have links. *)
RowsOK ==
  /\ \A i \in Stored : rows[i].name \in NameOf
  /\ table # "comments" => \A i \in Id : rows[i] # Gone
  /\ links # {} => table \in {"tags", "tracks"}

RInv == RecordsTypeOK /\ RowsOK /\ RequestsOK /\ NamesUnique /\ LinksSound

USE FilesAssumption, TablesAssumption, NamesAssumption, NoneAssumption

LEMMA InitRInv == Init => RInv
<1>1. SUFFICES ASSUME Init PROVE RInv
  OBVIOUS
<1>2. Stored = {}
  BY <1>1 DEF Init, Stored
<1>3. RecordsTypeOK
  BY <1>1 DEF Init, RecordsTypeOK, TaskState, Idle
<1>4. RequestsOK
  BY <1>1 DEF Init, RequestsOK, RequestOK, Idle
<1>5. RowsOK /\ NamesUnique /\ LinksSound
  BY <1>1, <1>2 DEF Init, RowsOK, NamesUnique, LinksSound
<1> QED
  BY <1>3, <1>4, <1>5 DEF RInv

-----------------------------------------------------------------------------
(* A request that opens leaves the tables alone. *)
LEMMA BeginsStep ==
  ASSUME RInv, NEW c \in Client, NEW r, RequestOK(r), Begins(c, r)
  PROVE  RInv'
<1>1. UNCHANGED <<table, isolation, task, rows, links>> /\ tx' = [tx EXCEPT ![c] = r]
  BY DEF Begins, db
<1>2. \A d \in Client : tx'[d] = IF d = c THEN r ELSE tx[d]
  BY <1>1 DEF RInv, RequestsOK
<1>3. RequestsOK'
  <2>1. tx' = [d \in Client |-> tx'[d]]
    BY <1>1 DEF RInv, RequestsOK
  <2>2. ASSUME NEW d \in Client PROVE RequestOK(tx[d])'
    BY <1>1, <1>2 DEF RInv, RequestsOK, RequestOK, NameOf, Stored, FileNamed
  <2> QED
    BY <2>1, <2>2 DEF RequestsOK
<1>4. RecordsTypeOK'
  BY <1>1, <1>2 DEF RInv, RecordsTypeOK, RequestOK
<1>5. (RowsOK /\ NamesUnique /\ LinksSound)'
  BY <1>1 DEF RInv, RowsOK, NamesUnique, LinksSound, Stored, Tasks, NameOf
<1> QED
  BY <1>3, <1>4, <1>5 DEF RInv

(* Every method opens such a request. *)
LEMMA NewRowsOK ==
  ASSUME NEW names, NEW new \in NewRows(names)
  PROVE  DOMAIN new \subseteq Unused /\ \A i \in DOMAIN new : new[i] \in names
BY DEF NewRows

LEMMA AddRequest ==
  ASSUME RInv, NEW c \in Client, AddTags(c) \/ AddTrack(c) \/ AddMatchers(c) \/ AddComments(c)
  PROVE  \E r : RequestOK(r) /\ Begins(c, r)
<1>1. ASSUME NEW new \in NewRows(Name), NamesFree(new), Adds(c, new), table # "comments"
      PROVE  \E r : RequestOK(r) /\ Begins(c, r)
  <2>1. DOMAIN new \subseteq Id /\ \A i \in DOMAIN new : new[i] \in Name
    BY NewRowsOK DEF Unused
  <2>2. RequestOK([op |-> "add", new |-> new])
    BY <1>1, <2>1 DEF RequestOK, NamesFree, NameOf
  <2> QED
    BY <1>1, <2>2 DEF Adds
<1>2. ASSUME NEW new \in NewRows(Tasks), Adds(c, new), table = "comments"
      PROVE  \E r : RequestOK(r) /\ Begins(c, r)
  <2>1. DOMAIN new \subseteq Id /\ \A i \in DOMAIN new : new[i] \in Task
    BY NewRowsOK DEF Unused, Tasks
  <2>2. RequestOK([op |-> "add", new |-> new])
    BY <1>2, <2>1 DEF RequestOK, NameOf
  <2> QED
    BY <1>2, <2>2 DEF Adds
<1> QED
  BY <1>1, <1>2 DEF AddTags, AddTrack, AddMatchers, AddComments

LEMMA WriteRequest ==
  ASSUME RInv, NEW c \in Client, NEW i \in Id,
         \/ EditTag(c, i) \/ EditMatcher(c, i) \/ RenameTrack(c, i) \/ EditComment(c, i)
         \/ ArchiveTag(c, i) \/ ArchiveTrack(c, i)
         \/ \E archived \in BOOLEAN : MarkMatcher(c, i, archived) \/ MarkComment(c, i, archived)
  PROVE  \E r : RequestOK(r) /\ Begins(c, r)
<1>1. i \in Stored
  BY DEF EditTag, EditMatcher, RenameTrack, EditComment, ArchiveTag, ArchiveTrack, MarkMatcher, MarkComment
<1>2. rows[i] \in Row /\ rows[i].name \in NameOf /\ rows[i] # None
  BY <1>1 DEF RInv, RecordsTypeOK, RowsOK, Stored
<1>3. ASSUME NEW next \in Row, Writes(c, i, next), next.name \in NameOf
      PROVE  \E r : RequestOK(r) /\ Begins(c, r)
  <2>1. RequestOK([op |-> "write", row |-> i, next |-> next])
    BY <1>2, <1>3 DEF RequestOK
  <2> QED
    BY <1>3, <2>1 DEF Writes
<1>4. ASSUME NEW n \in Name \cup {Keep}, table # "comments"
      PROVE  Renamed(i, n) \in Row /\ Renamed(i, n).name \in NameOf
  BY <1>2, <1>4 DEF Renamed, Row, NameOf
<1>5. ASSUME NEW archived \in BOOLEAN
      PROVE  /\ Marked(i, archived) \in Row /\ Marked(i, archived).name \in NameOf
  BY <1>2 DEF Marked, Row
<1>6. CASE EditTag(c, i) \/ EditMatcher(c, i)
  BY <1>3, <1>4, <1>6 DEF EditTag, EditMatcher
<1>7. CASE RenameTrack(c, i) \/ EditComment(c, i)
  BY <1>2, <1>3, <1>7 DEF RenameTrack, EditComment
<1>8. CASE ArchiveTag(c, i) \/ ArchiveTrack(c, i)
  BY <1>3, <1>5, <1>8 DEF ArchiveTag, ArchiveTrack
<1>9. CASE \E archived \in BOOLEAN : MarkMatcher(c, i, archived) \/ MarkComment(c, i, archived)
  BY <1>3, <1>5, <1>9 DEF MarkMatcher, MarkComment
<1> QED
  BY <1>6, <1>7, <1>8, <1>9

LEMMA LinkRequest ==
  ASSUME RInv, NEW c \in Client,
         \/ \E i \in Id, t \in Task : BeginQueue(c, i, t) \/ BeginUnlink(c, i, t)
         \/ BeginTag(c)
  PROVE  \E r : RequestOK(r) /\ Begins(c, r)
<1>1. ASSUME NEW i \in Id, NEW t \in Task, BeginQueue(c, i, t)
      PROVE  \E r : RequestOK(r) /\ Begins(c, r)
  <2>1. RequestOK([op |-> "link", links |-> {[row |-> i, task |-> t]}])
    BY <1>1 DEF RequestOK, BeginQueue, Link
  <2> QED
    BY <1>1, <2>1 DEF BeginQueue
<1>2. ASSUME NEW i \in Id, NEW t \in Task, BeginUnlink(c, i, t)
      PROVE  \E r : RequestOK(r) /\ Begins(c, r)
  <2>1. RequestOK([op |-> "unlink", row |-> i, task |-> t])
    BY <1>2 DEF RequestOK, BeginUnlink
  <2> QED
    BY <1>2, <2>1 DEF BeginUnlink
<1>3. ASSUME BeginTag(c)
      PROVE  \E r : RequestOK(r) /\ Begins(c, r)
  <2>1. PICK pairs \in SUBSET [row : {i \in Stored : ~rows[i].archived}, task : Tasks] :
          Begins(c, [op |-> "link", links |-> pairs \ links])
    BY <1>3 DEF BeginTag
  <2>2. pairs \subseteq Link /\ \A l \in pairs : l.row \in Stored
    BY <2>1 DEF Link, Stored, Tasks
  <2>3. RequestOK([op |-> "link", links |-> pairs \ links])
    BY <1>3, <2>2 DEF RequestOK, BeginTag
  <2> QED
    BY <2>1, <2>3
<1> QED
  BY <1>1, <1>2, <1>3

LEMMA ImportRequest ==
  ASSUME RInv, NEW c \in Client, NEW f \in Files, BeginImport(c, f)
  PROVE  \E r : RequestOK(r) /\ Begins(c, r)
<1> DEFINE new == IF table = "tracks" THEN f.links \ links ELSE f.links
           r == [op |-> "import", file |-> f,
                 tasks |-> DOMAIN f.tasks \cap Tasks, rows |-> DOMAIN f.rows \cap Stored, links |-> new]
<1>1. new \subseteq f.links /\ Begins(c, r)
  BY DEF BeginImport
<1>2. /\ f.links \subseteq Link /\ f.links # {} => table \in {"tags", "tracks"}
      /\ \A l \in f.links : l.row \in Stored \cup DOMAIN f.rows
      /\ FileNamed(f) /\ DOMAIN f.rows \subseteq Id
  BY DEF BeginImport
<1> HIDE DEF new
<1>3. RequestOK(r)
  BY <1>1, <1>2 DEF RequestOK, Stored
<1> QED
  BY <1>1, <1>3

LEMMA RequestStep ==
  ASSUME RInv, NEW c \in Client, Request(c)
  PROVE  RInv'
<1>1. \E r : RequestOK(r) /\ Begins(c, r)
  BY AddRequest, WriteRequest, LinkRequest, ImportRequest DEF Request
<1> QED
  BY <1>1, BeginsStep

-----------------------------------------------------------------------------
(* A step that leaves the rows that are there and at most ends requests    *)
(* leaves the open ones as they should be.                                 *)
LEMMA RequestsKept ==
  ASSUME RInv, table' = table,
         \/ UNCHANGED tx
         \/ \E c \in Client : tx' = [tx EXCEPT ![c] = Idle],
         \A i \in Id : rows[i] # None => rows'[i] # None,
         \A i \in Stored : table \in {"tags", "tracks"} => i \in Stored'
  PROVE  RequestsOK'
<1>1. tx' = [d \in Client |-> tx'[d]] /\ \A d \in Client : tx'[d] \in {tx[d], Idle}
  BY DEF RInv, RequestsOK
<1>2. ASSUME NEW d \in Client PROVE RequestOK(tx[d])'
  <2>1. CASE tx'[d] = Idle
    BY <2>1 DEF RequestOK, Idle
  <2>2. CASE tx'[d] = tx[d]
    <3>1. RequestOK(tx[d])
      BY DEF RInv, RequestsOK
    <3> QED
      BY <2>2, <3>1 DEF RequestOK, NameOf, FileNamed
  <2> QED
    BY <1>1, <2>1, <2>2
<1> QED
  BY <1>1, <1>2 DEF RequestsOK

LEMMA OpsKept ==
  ASSUME RequestsOK'
  PROVE  \A c \in Client : tx'[c].op \in {"idle", "add", "write", "link", "unlink", "import"}
BY DEF RequestsOK, RequestOK

LEMMA CommitAddStep ==
  ASSUME RInv, NEW c \in Client, CommitAdd(c)
  PROVE  RInv'
<1> DEFINE new == [i \in DOMAIN tx[c].new |-> [name |-> tx[c].new[i], archived |-> FALSE]]
           D == DOMAIN tx[c].new
<1>1. /\ tx[c].op = "add" /\ D \subseteq Unused
      /\ IndexAccepts(new) /\ CommentTasksStored(new)
      /\ rows' = [i \in Id |-> IF i \in D THEN new[i] ELSE rows[i]]
      /\ tx' = [tx EXCEPT ![c] = Idle]
      /\ UNCHANGED <<table, isolation, task, links>>
  BY DEF CommitAdd, Ends
<1>2. RequestOK(tx[c])
  BY DEF RInv, RequestsOK
<1>3. \A i \in D : new[i] \in Row /\ new[i].name = tx[c].new[i] /\ new[i].name \in NameOf /\ new[i] \notin {None, Gone}
  <2>1. SUFFICES ASSUME NEW i \in D
                 PROVE  /\ new[i] \in Row /\ new[i].name = tx[c].new[i]
                        /\ new[i].name \in NameOf /\ new[i] \notin {None, Gone}
    OBVIOUS
  <2>2. tx[c].new[i] \in NameOf
    BY <1>1, <1>2 DEF RequestOK
  <2>3. NameOf \subseteq Name \cup Task
    BY DEF NameOf
  <2>4. new[i] = [name |-> tx[c].new[i], archived |-> FALSE]
    OBVIOUS
  <2>5. new[i] \in Row
    BY <2>2, <2>3, <2>4 DEF Row
  <2> QED
    BY <2>2, <2>4, <2>5 DEF Row
<1>4. Stored' = Stored \cup D /\ D \subseteq Id /\ D \cap Stored = {}
  BY <1>1, <1>3 DEF Stored, Unused
<1>5. \A i \in Stored : rows'[i] = rows[i]
  BY <1>1, <1>4 DEF Stored
<1>6. \A i \in D : rows'[i] = new[i]
  BY <1>1, <1>4
<1>7. table # "comments" => \A i, j \in D : i # j => new[i].name # new[j].name
  BY <1>1, <1>2, <1>3 DEF RequestOK
<1>8. table # "comments" => \A i \in D : \A j \in Stored : rows[j].name # new[i].name
  BY <1>1, <1>4 DEF IndexAccepts, Taken
<1>9. table = "comments" => \A i \in D : new[i].name \in Tasks
  BY <1>1 DEF CommentTasksStored
<1> HIDE DEF new, D
<1>10. NamesUnique'
  BY <1>1, <1>4, <1>5, <1>6, <1>7, <1>8 DEF RInv, NamesUnique
<1>11. LinksSound'
  BY <1>1, <1>4, <1>5, <1>6, <1>9 DEF RInv, LinksSound, Tasks
<1>12. RowsOK'
  BY <1>1, <1>3, <1>4, <1>5, <1>6 DEF RInv, RowsOK, Stored, NameOf
<1>13. RequestsOK'
  <2>1. \A i \in Id : rows[i] # None => rows'[i] # None
    BY <1>1, <1>3
  <2> QED
    BY <1>1, <1>4, <2>1, RequestsKept
<1>14. RecordsTypeOK'
  BY <1>1, <1>3, <1>13, OpsKept DEF RInv, RecordsTypeOK
<1> QED
  BY <1>10, <1>11, <1>12, <1>13, <1>14 DEF RInv

LEMMA CommitWriteStep ==
  ASSUME RInv, NEW c \in Client, CommitWrite(c)
  PROVE  RInv'
<1> DEFINE i == tx[c].row
           next == tx[c].next
<1>1. /\ tx[c].op = "write"
      /\ tx' = [tx EXCEPT ![c] = Idle]
      /\ UNCHANGED <<table, isolation, task, links>>
      /\ i \in Stored => /\ IndexAccepts([j \in {i} |-> next])
                         /\ CommentTasksStored([j \in {i} |-> next])
                         /\ rows' = [rows EXCEPT ![i] = next]
      /\ i \notin Stored => UNCHANGED rows
  BY DEF CommitWrite, Ends
<1>2. i \in Id /\ next \in Row /\ next.name \in NameOf
  BY <1>1 DEF RInv, RequestsOK, RequestOK
<1>3. next \notin {None, Gone} /\ rows \in [Id -> Row \cup {None, Gone}]
  BY <1>2 DEF RInv, RecordsTypeOK, Row
<1>4. i \in Stored /\ table # "comments" => \A j \in Stored \ {i} : rows[j].name # next.name
  BY <1>1 DEF IndexAccepts, Taken
<1>12. i \in Stored /\ table = "comments" => next.name \in Tasks
  BY <1>1 DEF CommentTasksStored
<1> HIDE DEF i, next
<1>5. rows' \in [Id -> Row \cup {None, Gone}] /\ Stored' = Stored
  BY <1>1, <1>2, <1>3 DEF Stored
<1>6. \A j \in Id : rows'[j] = IF j = i /\ i \in Stored THEN next ELSE rows[j]
  BY <1>1, <1>3
<1>7. NamesUnique'
  BY <1>1, <1>4, <1>5, <1>6 DEF RInv, NamesUnique, Stored
<1>8. LinksSound'
  BY <1>1, <1>2, <1>5, <1>6, <1>12 DEF RInv, LinksSound, Tasks, Stored
<1>9. RowsOK'
  BY <1>1, <1>2, <1>3, <1>5, <1>6 DEF RInv, RowsOK, Stored, NameOf
<1>10. RequestsOK'
  <2>1. \A j \in Id : rows[j] # None => rows'[j] # None
    BY <1>3, <1>6
  <2> QED
    BY <1>1, <1>5, <2>1, RequestsKept
<1>11. RecordsTypeOK'
  BY <1>1, <1>5, <1>10, OpsKept DEF RInv, RecordsTypeOK
<1> QED
  BY <1>7, <1>8, <1>9, <1>10, <1>11 DEF RInv

LEMMA CommitLinkStep ==
  ASSUME RInv, NEW c \in Client, CommitLink(c)
  PROVE  RInv'
<1> DEFINE new == tx[c].links
<1>1. /\ tx[c].op = "link"
      /\ \A l \in new : l.task \in Tasks
      /\ table = "tracks" => QueueIndexAccepts(new)
      /\ links' = links \cup new
      /\ tx' = [tx EXCEPT ![c] = Idle]
      /\ UNCHANGED <<table, isolation, task, rows>>
  BY DEF CommitLink, Ends
<1>2. /\ table \in {"tags", "tracks"}
      /\ new \subseteq Link /\ \A l \in new : l.row \in Stored
      /\ table = "tracks" => \A l, k \in new : l = k
  BY <1>1 DEF RInv, RequestsOK, RequestOK
<1> HIDE DEF new
<1>3. Stored' = Stored /\ Tasks' = Tasks
  BY <1>1 DEF Stored, Tasks
<1>4. LinksSound'
  BY <1>1, <1>2, <1>3 DEF RInv, LinksSound, QueueIndexAccepts
<1>6. RowsOK'
  BY <1>1, <1>2, <1>3 DEF RInv, RowsOK, NameOf
<1>7. NamesUnique'
  BY <1>1, <1>3 DEF RInv, NamesUnique
<1>8. RequestsOK'
  BY <1>1, <1>3, RequestsKept
<1>9. RecordsTypeOK'
  BY <1>1, <1>2, <1>8, OpsKept DEF RInv, RecordsTypeOK
<1> QED
  BY <1>4, <1>6, <1>7, <1>8, <1>9 DEF RInv

LEMMA CommitUnlinkStep ==
  ASSUME RInv, NEW c \in Client, CommitUnlink(c)
  PROVE  RInv'
<1>1. /\ links' \subseteq links
      /\ tx' = [tx EXCEPT ![c] = Idle]
      /\ UNCHANGED <<table, isolation, task, rows>>
  BY DEF CommitUnlink, Ends
<1>2. Stored' = Stored /\ Tasks' = Tasks
  BY <1>1 DEF Stored, Tasks
<1>3. LinksSound' /\ NamesUnique'
  BY <1>1, <1>2 DEF RInv, LinksSound, NamesUnique
<1>4. RowsOK'
  BY <1>1, <1>2 DEF RInv, RowsOK, NameOf
<1>5. RequestsOK'
  BY <1>1, <1>2, RequestsKept
<1>7. RecordsTypeOK'
  BY <1>1, <1>5, OpsKept DEF RInv, RecordsTypeOK
<1> QED
  BY <1>3, <1>4, <1>5, <1>7 DEF RInv

LEMMA CommitImportStep ==
  ASSUME RInv, NEW c \in Client, CommitImport(c)
  PROVE  RInv'
<1> DEFINE r == tx[c]
           f == r.file
           tasks == Imported(r.tasks, f.tasks, Tasks)
           written == Imported(r.rows, f.rows, Stored)
<1>1. /\ r.op = "import" /\ ImportAccepted(r)
      /\ table = "comments" => \A i \in written : f.rows[i].name \in Tasks \cup tasks
      /\ \A l \in r.links : l.task \in Tasks \cup tasks
      /\ table = "tracks" => /\ QueueIndexAccepts(r.links)
                             /\ \A l, k \in r.links : l.task = k.task => l = k
      /\ task' = [t \in Task |-> IF t \in tasks THEN f.tasks[t] ELSE task[t]]
      /\ rows' = [i \in Id |-> IF i \in written THEN f.rows[i] ELSE rows[i]]
      /\ links' = links \cup r.links
      /\ tx' = [tx EXCEPT ![c] = Idle]
      /\ UNCHANGED <<table, isolation>>
  BY DEF CommitImport, Ends
<1>2. /\ f \in Files /\ FileNamed(f) /\ r.links \subseteq Link
      /\ r.links # {} => table \in {"tags", "tracks"}
      /\ \A i \in r.rows : rows[i] # None
      /\ \A l \in r.links : l.row \in Stored \cup DOMAIN f.rows
  <2>1. RequestOK(r)
    BY DEF RInv, RequestsOK
  <2> QED
    BY <1>1, <2>1 DEF RequestOK
<1>3. /\ tasks \subseteq Task /\ \A t \in tasks : f.tasks[t] \in TaskState \ {"none"}
      /\ written \subseteq Id /\ written \subseteq DOMAIN f.rows /\ \A i \in written : f.rows[i] \in Row
  BY <1>2 DEF Imported
<1>4. \A i \in DOMAIN f.rows : i \in written \/ (i \in r.rows /\ i \notin Stored)
  BY DEF Imported
<1>5. \A i \in DOMAIN f.rows : f.rows[i].name \in NameOf /\ f.rows[i] \notin {None, Gone}
  BY <1>2 DEF FileNamed, NameOf, Row
<1>6. table # "comments" =>
        /\ \A i, j \in DOMAIN f.rows : i # j => f.rows[i].name # f.rows[j].name
        /\ \A i \in DOMAIN f.rows : \A j \in Stored \ {i} :
             rows[j].name = f.rows[i].name => j \in DOMAIN f.rows
  BY <1>1, <1>2 DEF FileNamed, ImportAccepted
<1>7. table # "comments" => DOMAIN f.rows = written
  BY <1>2, <1>3, <1>4 DEF RInv, RowsOK, Stored
<1> HIDE DEF tasks, written, f, r
<1>8. Tasks' = Tasks \cup tasks
  BY <1>1, <1>3 DEF Tasks, TaskState
<1>9. Stored' = Stored \cup written /\ \A i \in Id : rows'[i] = IF i \in written THEN f.rows[i] ELSE rows[i]
  BY <1>1, <1>3, <1>5 DEF Stored
<1>10. NamesUnique'
  <2>1. SUFFICES ASSUME table # "comments", NEW i \in Stored', NEW j \in Stored', i # j
                 PROVE  rows'[i].name # rows'[j].name
    BY <1>1 DEF NamesUnique
  <2>2. CASE i \in written /\ j \in written
    BY <1>6, <1>7, <1>9, <2>1, <2>2 DEF Stored
  <2>3. CASE i \notin written /\ j \notin written
    BY <1>9, <2>1, <2>3 DEF RInv, NamesUnique, Stored
  <2>4. ASSUME NEW k \in written, NEW l \in Stored \ written PROVE rows'[k].name # rows'[l].name
    BY <1>3, <1>6, <1>7, <1>9, <2>1, <2>4 DEF Stored
  <2> QED
    BY <1>9, <2>2, <2>3, <2>4
<1>11. LinksSound'
  <2>1. \A l \in links' : l.task \in Tasks'
    BY <1>1, <1>8 DEF RInv, LinksSound
  <2>2. \A l \in links' : l.row \in Stored'
    BY <1>1, <1>2, <1>7, <1>9 DEF RInv, LinksSound
  <2>3. table = "comments" => \A i \in Stored' : rows'[i].name \in Tasks'
    BY <1>1, <1>8, <1>9 DEF RInv, LinksSound, Stored
  <2>4. table = "tracks" => \A l, k \in links' : l.task = k.task => l = k
    BY <1>1 DEF RInv, LinksSound, QueueIndexAccepts
  <2> QED
    BY <1>1, <2>1, <2>2, <2>3, <2>4 DEF LinksSound
<1>12. RowsOK'
  <2>1. \A i \in Stored' : rows'[i].name \in NameOf'
    BY <1>1, <1>3, <1>5, <1>9 DEF RInv, RowsOK, Stored, NameOf
  <2>2. table # "comments" => \A i \in Id : rows'[i] # Gone
    BY <1>3, <1>5, <1>9 DEF RInv, RowsOK
  <2>3. links' # {} => table \in {"tags", "tracks"}
    BY <1>1, <1>2 DEF RInv, RowsOK
  <2> QED
    BY <1>1, <2>1, <2>2, <2>3 DEF RowsOK
<1>13. RequestsOK'
  <2>1. \A i \in Id : rows[i] # None => rows'[i] # None
    BY <1>3, <1>5, <1>9
  <2> QED
    BY <1>1, <1>9, <2>1, RequestsKept
<1>14. RecordsTypeOK'
  <2>1. task' \in [Task -> TaskState]
    BY <1>1, <1>3 DEF RInv, RecordsTypeOK
  <2>2. rows' \in [Id -> Row \cup {None, Gone}]
    BY <1>1, <1>3 DEF RInv, RecordsTypeOK
  <2>3. links' \subseteq Link
    BY <1>1, <1>2 DEF RInv, RecordsTypeOK
  <2> QED
    BY <1>1, <1>13, <2>1, <2>2, <2>3, OpsKept DEF RInv, RecordsTypeOK
<1> QED
  BY <1>10, <1>11, <1>12, <1>13, <1>14 DEF RInv

LEMMA RollbackStep ==
  ASSUME RInv, NEW c \in Client, Rollback(c)
  PROVE  RInv'
<1>1. tx' = [tx EXCEPT ![c] = Idle] /\ UNCHANGED <<table, isolation, task, rows, links>>
  BY DEF Rollback, Ends, db
<1>2. Stored' = Stored /\ Tasks' = Tasks
  BY <1>1 DEF Stored, Tasks
<1>3. RequestsOK'
  BY <1>1, <1>2, RequestsKept
<1>4. (RowsOK /\ NamesUnique /\ LinksSound)'
  BY <1>1, <1>2 DEF RInv, RowsOK, NamesUnique, LinksSound, NameOf
<1>5. RecordsTypeOK'
  BY <1>1, <1>3, OpsKept DEF RInv, RecordsTypeOK
<1> QED
  BY <1>3, <1>4, <1>5 DEF RInv

LEMMA TaskChangesStep ==
  ASSUME RInv, NEW t \in Task, NEW state \in TaskState, TaskChanges(t, state)
  PROVE  RInv'
<1>1. /\ task' = [task EXCEPT ![t] = state] /\ state # "none"
      /\ UNCHANGED <<table, isolation, rows, links, tx>>
  BY DEF TaskChanges
<1>2. Stored' = Stored /\ Tasks \subseteq Tasks'
  BY <1>1 DEF RInv, RecordsTypeOK, Stored, Tasks
<1>3. RequestsOK'
  BY <1>1, <1>2, RequestsKept
<1>4. (RowsOK /\ NamesUnique /\ LinksSound)'
  BY <1>1, <1>2 DEF RInv, RowsOK, NamesUnique, LinksSound, NameOf
<1>5. RecordsTypeOK'
  BY <1>1 DEF RInv, RecordsTypeOK
<1> QED
  BY <1>3, <1>4, <1>5 DEF RInv

LEMMA TaskDeletedStep ==
  ASSUME RInv, NEW t \in Task, TaskDeleted(t)
  PROVE  RInv'
<1>1. /\ task' = [task EXCEPT ![t] = "none"]
      /\ rows' = [i \in Id |-> IF i \in Stored /\ rows[i].name = t THEN Gone ELSE rows[i]]
      /\ links' = {l \in links : l.task # t}
      /\ UNCHANGED <<table, isolation, tx>>
  BY DEF TaskDeleted, LinksAfterDelete
<1>2. Tasks' = Tasks \ {t}
  BY <1>1 DEF RInv, RecordsTypeOK, Tasks
<1>3. Stored' = {i \in Stored : rows[i].name # t} /\ \A i \in Stored' : rows'[i] = rows[i]
  BY <1>1 DEF Stored
<1>4. table # "comments" => UNCHANGED rows /\ Stored' = Stored
  <2>1. SUFFICES ASSUME table # "comments" PROVE UNCHANGED rows /\ Stored' = Stored
    OBVIOUS
  <2>2. \A i \in Stored : rows[i].name # t
    BY <2>1 DEF RInv, RowsOK, NameOf
  <2>3. rows \in [Id -> Row \cup {None, Gone}]
    BY DEF RInv, RecordsTypeOK
  <2>4. UNCHANGED rows
    BY <1>1, <2>2, <2>3
  <2> QED
    BY <2>2, <2>4, <1>3
<1>5. LinksSound'
  <2>1. \A l \in links' : l.row \in Stored' /\ l.task \in Tasks'
    BY <1>1, <1>2, <1>4 DEF RInv, LinksSound, RowsOK
  <2>2. table = "comments" => \A i \in Stored' : rows'[i].name \in Tasks'
    BY <1>2, <1>3 DEF RInv, LinksSound
  <2> QED
    BY <1>1, <2>1, <2>2 DEF RInv, LinksSound
<1>6. NamesUnique'
  BY <1>1, <1>3 DEF RInv, NamesUnique
<1>7. RowsOK'
  BY <1>1, <1>3, <1>4 DEF RInv, RowsOK, NameOf
<1>8. RequestsOK'
  <2>1. \A i \in Id : rows[i] # None => rows'[i] # None
    BY <1>1
  <2> QED
    BY <1>1, <1>3, <1>4, <2>1, RequestsKept
<1>9. rows' \in [Id -> Row \cup {None, Gone}]
  BY <1>1 DEF RInv, RecordsTypeOK
<1>10. RecordsTypeOK'
  BY <1>1, <1>8, <1>9, OpsKept DEF RInv, RecordsTypeOK, TaskState
<1> QED
  BY <1>5, <1>6, <1>7, <1>8, <1>10 DEF RInv

-----------------------------------------------------------------------------
LEMMA NextRInv == RInv /\ [Next]_vars => RInv'
<1>1. SUFFICES ASSUME RInv, [Next]_vars PROVE RInv'
  OBVIOUS
<1>2. ASSUME NEW c \in Client, Commit(c) PROVE RInv'
  BY <1>1, <1>2, CommitAddStep, CommitWriteStep, CommitLinkStep, CommitUnlinkStep, CommitImportStep DEF Commit
<1>3. CASE UNCHANGED vars
  <2>1. UNCHANGED <<table, isolation, task, rows, links, tx>>
    BY <1>3 DEF vars, db
  <2>2. Stored' = Stored /\ Tasks' = Tasks
    BY <2>1 DEF Stored, Tasks
  <2>3. RequestsOK'
    BY <1>1, <2>1, <2>2, RequestsKept
  <2>4. (RecordsTypeOK /\ RowsOK /\ NamesUnique /\ LinksSound)'
    BY <1>1, <2>1, <2>2 DEF RInv, RecordsTypeOK, RowsOK, NamesUnique, LinksSound, NameOf
  <2> QED
    BY <2>3, <2>4 DEF RInv
<1> QED
  BY <1>1, <1>2, <1>3, RequestStep, RollbackStep, TaskChangesStep, TaskDeletedStep DEF Next

LEMMA AlwaysRInv == Spec => []RInv
BY InitRInv, NextRInv, PTL DEF Spec

(* Every reachable state of the tables, links and requests is well formed, *)
(* under either isolation.                                                 *)
THEOREM RecordsTypeCorrect == Spec => []RecordsTypeOK
<1>1. RInv => RecordsTypeOK
  BY DEF RInv
<1> QED
  BY AlwaysRInv, <1>1, PTL

(* Names and actors stay unique through every race of requests that        *)
(* checked them earlier, or never did.                                     *)
THEOREM NamesUniqueInvariant == Spec => []NamesUnique
<1>1. RInv => NamesUnique
  BY DEF RInv
<1> QED
  BY AlwaysRInv, <1>1, PTL

(* Links and comments lead to rows, and a task is in one queue at most,    *)
(* through every race with deletes.                                        *)
THEOREM LinksSoundInvariant == Spec => []LinksSound
<1>1. RInv => LinksSound
  BY DEF RInv
<1> QED
  BY AlwaysRInv, <1>1, PTL

-----------------------------------------------------------------------------
(* With SQLite's transactions one request is open at a time, so what it    *)
(* read still holds when it commits.                                       *)
SerialRequest(r) ==
  /\ r.op = "link" => \A l \in r.links :
       /\ ~rows[l.row].archived
       /\ table = "tracks" => task[l.task] = "open"
  /\ r.op = "write" /\ table \in {"tags", "tracks"} /\ rows[r.row].archived => r.next.archived

OneOpen == \A c, d \in Client : tx[c] # Idle /\ tx[d] # Idle => c = d

SInv == isolation = "serial" => OneOpen /\ \A c \in Client : SerialRequest(tx[c])

(* Without open requests nothing is promised. *)
LEMMA AllIdle ==
  ASSUME \A c \in Client : tx[c] = Idle
  PROVE  OneOpen /\ \A c \in Client : SerialRequest(tx[c])
BY DEF OneOpen, SerialRequest, Idle

LEMMA InitSInv == Init => SInv
<1>1. SUFFICES ASSUME Init PROVE SInv
  OBVIOUS
<1>2. OneOpen /\ \A c \in Client : SerialRequest(tx[c])
  BY <1>1, AllIdle DEF Init
<1> QED
  BY <1>2 DEF SInv

(* What a request finds as it opens. *)
LEMMA SerialBegins ==
  ASSUME RInv, NEW c \in Client, Request(c)
  PROVE  \E r : Begins(c, r) /\ SerialRequest(r)
<1>1. ASSUME NEW i \in Id, NEW next, Writes(c, i, next),
             table \in {"tags", "tracks"} /\ rows[i].archived => next.archived
      PROVE  \E r : Begins(c, r) /\ SerialRequest(r)
  BY <1>1 DEF Writes, SerialRequest
<1>2. ASSUME NEW new, Adds(c, new) PROVE \E r : Begins(c, r) /\ SerialRequest(r)
  BY <1>2 DEF Adds, SerialRequest
<1>3. CASE AddTags(c) \/ AddTrack(c) \/ AddMatchers(c) \/ AddComments(c)
  BY <1>2, <1>3 DEF AddTags, AddTrack, AddMatchers, AddComments
<1>4. ASSUME NEW i \in Id, EditTag(c, i) \/ EditMatcher(c, i) PROVE \E r : Begins(c, r) /\ SerialRequest(r)
  <2>1. i \in Stored
    BY <1>4 DEF EditTag, EditMatcher
  <2>2. \A n \in Name \cup {Keep} : rows[i].archived => Renamed(i, n).archived
    BY <2>1 DEF RInv, RecordsTypeOK, Row, Renamed, Stored
  <2> QED
    BY <1>1, <1>4, <2>2 DEF EditTag, EditMatcher
<1>5. ASSUME NEW i \in Id, RenameTrack(c, i) \/ EditComment(c, i) PROVE \E r : Begins(c, r) /\ SerialRequest(r)
  BY <1>1, <1>5 DEF RenameTrack, EditComment
<1>6. ASSUME NEW i \in Id, ArchiveTag(c, i) \/ ArchiveTrack(c, i) PROVE \E r : Begins(c, r) /\ SerialRequest(r)
  <2>1. i \in Stored
    BY <1>6 DEF ArchiveTag, ArchiveTrack
  <2>2. Marked(i, TRUE).archived
    BY <2>1 DEF RInv, RecordsTypeOK, Row, Marked, Stored
  <2> QED
    BY <1>1, <1>6, <2>2 DEF ArchiveTag, ArchiveTrack
<1>7. ASSUME NEW i \in Id, NEW archived \in BOOLEAN, MarkMatcher(c, i, archived) \/ MarkComment(c, i, archived)
      PROVE  \E r : Begins(c, r) /\ SerialRequest(r)
  BY <1>1, <1>7 DEF MarkMatcher, MarkComment
<1>8. ASSUME NEW i \in Id, NEW t \in Task, BeginQueue(c, i, t) PROVE \E r : Begins(c, r) /\ SerialRequest(r)
  BY <1>8 DEF BeginQueue, SerialRequest
<1>9. ASSUME NEW i \in Id, NEW t \in Task, BeginUnlink(c, i, t) PROVE \E r : Begins(c, r) /\ SerialRequest(r)
  BY <1>9 DEF BeginUnlink, SerialRequest
<1>10. CASE BeginTag(c)
  <2>1. PICK pairs \in SUBSET [row : {i \in Stored : ~rows[i].archived}, task : Tasks] :
          Begins(c, [op |-> "link", links |-> pairs \ links])
    BY <1>10 DEF BeginTag
  <2>2. SerialRequest([op |-> "link", links |-> pairs \ links])
    BY <1>10, <2>1 DEF BeginTag, SerialRequest
  <2> QED
    BY <2>1, <2>2
<1>11. ASSUME NEW f \in Files, BeginImport(c, f) PROVE \E r : Begins(c, r) /\ SerialRequest(r)
  BY <1>11 DEF BeginImport, SerialRequest
<1> QED
  BY <1>3, <1>4, <1>5, <1>6, <1>7, <1>8, <1>9, <1>10, <1>11 DEF Request

LEMMA RequestSStep ==
  ASSUME RInv, SInv, NEW c \in Client, Request(c)
  PROVE  SInv'
<1>0. MayBegin(c)
  BY DEF Request
<1>1. PICK r : Begins(c, r) /\ SerialRequest(r)
  BY SerialBegins
<1>2. UNCHANGED <<table, isolation, task, rows, links>> /\ tx' = [tx EXCEPT ![c] = r]
  BY <1>1 DEF Begins, db
<1>3. ASSUME isolation = "serial" PROVE (OneOpen /\ \A d \in Client : SerialRequest(tx[d]))'
  <2>1. \A d \in Client : tx'[d] = IF d = c THEN r ELSE Idle
    BY <1>0, <1>2, <1>3 DEF MayBegin, RInv, RequestsOK
  <2>2. OneOpen'
    BY <2>1 DEF OneOpen
  <2>3. ASSUME NEW d \in Client PROVE SerialRequest(tx[d])'
    <3>1. SerialRequest(Idle)
      BY DEF SerialRequest, Idle
    <3>2. tx'[d] = r \/ tx'[d] = Idle
      BY <2>1
    <3> QED
      BY <1>1, <1>2, <3>1, <3>2 DEF SerialRequest
  <2> QED
    BY <2>2, <2>3
<1> QED
  BY <1>2, <1>3 DEF SInv

(* A request that ends was the only one. *)
LEMMA EndsAlone ==
  ASSUME RInv, SInv, NEW c \in Client, isolation = "serial", tx[c].op # "idle", Ends(c)
  PROVE  (OneOpen /\ \A d \in Client : SerialRequest(tx[d]))'
<1>1. \A d \in Client : d # c => tx[d] = Idle
  BY DEF SInv, OneOpen, Idle
<1>2. \A d \in Client : tx'[d] = Idle
  BY <1>1 DEF Ends, RInv, RequestsOK
<1> QED
  BY <1>2 DEF OneOpen, SerialRequest, Idle

LEMMA CommitSStep ==
  ASSUME RInv, SInv, NEW c \in Client, Commit(c)
  PROVE  SInv'
<1>1. tx[c].op # "idle" /\ Ends(c) /\ UNCHANGED <<table, isolation>>
  BY DEF Commit, CommitAdd, CommitWrite, CommitLink, CommitUnlink, CommitImport, Ends
<1> QED
  BY <1>1, EndsAlone DEF SInv

LEMMA OtherSStep ==
  ASSUME RInv, SInv,
         \/ \E c \in Client : Rollback(c)
         \/ \E t \in Task, s \in TaskState : TaskChanges(t, s)
         \/ \E t \in Task : TaskDeleted(t)
         \/ UNCHANGED vars
  PROVE  SInv'
<1>1. ASSUME NEW c \in Client, Rollback(c) PROVE SInv'
  <2>1. UNCHANGED <<table, isolation>> /\ Ends(c) /\ tx[c] # Idle
    BY <1>1 DEF Rollback, Ends
  <2>2. ASSUME isolation = "serial" PROVE \A d \in Client : tx'[d] = Idle
    <3>1. \A d \in Client : d # c => tx[d] = Idle
      BY <2>1, <2>2 DEF SInv, OneOpen
    <3> QED
      BY <2>1, <3>1 DEF Ends, RInv, RequestsOK
  <2> QED
    BY <2>1, <2>2 DEF SInv, OneOpen, SerialRequest, Idle
<1>2. ASSUME NEW t \in Task, TaskDeleted(t) \/ \E s \in TaskState : TaskChanges(t, s) PROVE SInv'
  <2>1. UNCHANGED <<table, isolation, tx>> /\ (isolation = "serial" => \A c \in Client : tx[c] = Idle)
    BY <1>2 DEF TaskChanges, TaskDeleted
  <2> QED
    BY <2>1 DEF SInv, OneOpen, SerialRequest, Idle
<1>3. CASE UNCHANGED vars
  BY <1>3 DEF vars, db, SInv, OneOpen, SerialRequest
<1> QED
  BY <1>1, <1>2, <1>3

LEMMA NextSInv == RInv /\ SInv /\ [Next]_vars => SInv'
BY RequestSStep, CommitSStep, OtherSStep DEF Next

(* Under SQLite no assignment or tag is stored that its method would have  *)
(* refused in the state it is stored in, except those of an imported file. *)
THEOREM AssignmentsAllowedTheorem == Spec => AssignmentsAllowed
<1> DEFINE Allowed == \A l \in links' \ links :
             isolation = "serial" =>
               \/ \E f \in Files : ImportsNow(f) /\ l \in f.links
               \/ ~rows[l.row].archived /\ (table = "tracks" => task[l.task] = "open")
<1>1. RInv /\ SInv /\ [Next]_vars => [Allowed]_vars
  <2>1. SUFFICES ASSUME RInv, SInv, Next PROVE Allowed
    OBVIOUS
  <2>2. ASSUME NEW c \in Client, CommitLink(c) PROVE Allowed
    <3>1. links' \ links \subseteq tx[c].links /\ tx[c].op = "link"
      BY <2>2 DEF CommitLink
    <3> QED
      BY <2>1, <3>1 DEF SInv, SerialRequest
  <2>6. ASSUME NEW c \in Client, CommitImport(c) PROVE Allowed
    <3>1. links' \ links \subseteq tx[c].links /\ tx[c].op = "import" /\ tx'[c] = Idle
      BY <2>1, <2>6 DEF CommitImport, Ends, RInv, RequestsOK
    <3>2. tx[c].file \in Files /\ tx[c].links \subseteq tx[c].file.links
      BY <2>1, <3>1 DEF RInv, RequestsOK, RequestOK
    <3> QED
      BY <3>1, <3>2 DEF ImportsNow
  <2>3. ASSUME NEW c \in Client, Request(c) PROVE Allowed
    <3>1. UNCHANGED links
      BY <2>1, <2>3, SerialBegins DEF Begins, db
    <3> QED
      BY <3>1
  <2>4. ASSUME NEW c \in Client, CommitAdd(c) \/ CommitWrite(c) \/ CommitUnlink(c) \/ Rollback(c) PROVE Allowed
    <3>1. links' \subseteq links
      BY <2>4 DEF CommitAdd, CommitWrite, CommitUnlink, Rollback, db
    <3> QED
      BY <3>1
  <2>5. ASSUME NEW t \in Task, \/ \E s \in TaskState : TaskChanges(t, s)
                               \/ TaskDeleted(t)
        PROVE  Allowed
    <3>1. links' \subseteq links
      BY <2>5 DEF TaskChanges, TaskDeleted, LinksAfterDelete
    <3> QED
      BY <3>1
  <2> QED
    BY <2>1, <2>2, <2>3, <2>4, <2>5, <2>6 DEF Next, Commit
<1> QED
  BY AlwaysRInv, InitSInv, NextSInv, <1>1, PTL DEF Spec, AssignmentsAllowed

(* Under SQLite an archived tag or queue is archived for good, whatever    *)
(* edits overlap, unless a file that has it as not archived is imported.   *)
THEOREM ArchivedForGoodTheorem == Spec => ArchivedForGood
<1> DEFINE Kept == \A i \in Stored :
             isolation = "serial" /\ table \in {"tags", "tracks"} /\ rows[i].archived
               => \/ i \in Stored' /\ rows'[i].archived
                  \/ \E f \in Files : ImportsNow(f) /\ i \in DOMAIN f.rows /\ ~f.rows[i].archived
<1>1. RInv /\ SInv /\ [Next]_vars => [Kept]_vars
  <2>1. SUFFICES ASSUME RInv, SInv, Next PROVE Kept
    OBVIOUS
  <2>2. ASSUME UNCHANGED rows PROVE Kept
    BY <2>2 DEF Stored
  <2>3. ASSUME NEW c \in Client, CommitWrite(c), rows' # rows PROVE Kept
    <3>1. /\ tx[c].op = "write" /\ tx[c].row \in Stored
          /\ rows' = [rows EXCEPT ![tx[c].row] = tx[c].next]
      BY <2>3 DEF CommitWrite
    <3>2. tx[c].next \in Row /\ rows \in [Id -> Row \cup {None, Gone}]
      BY <2>1, <3>1 DEF RInv, RequestsOK, RequestOK, RecordsTypeOK
    <3>3. isolation = "serial" => SerialRequest(tx[c])
      BY <2>1 DEF SInv
    <3>4. Stored' = Stored
      BY <3>1, <3>2 DEF Stored, Row
    <3>5. \A i \in Id : rows'[i] = IF i = tx[c].row THEN tx[c].next ELSE rows[i]
      BY <3>1, <3>2
    <3> QED
      BY <3>1, <3>3, <3>4, <3>5 DEF SerialRequest, Stored
  <2>4. ASSUME NEW c \in Client, CommitAdd(c) PROVE Kept
    <3>1. \A i \in Stored : rows'[i] = rows[i]
      BY <2>4 DEF CommitAdd, Stored, Unused
    <3> QED
      BY <3>1 DEF Stored
  <2>5. ASSUME NEW t \in Task, TaskDeleted(t) PROVE Kept
    <3>1. table # "comments" => \A i \in Stored : rows'[i] = rows[i]
      BY <2>1, <2>5 DEF TaskDeleted, RInv, RowsOK, NameOf, Stored
    <3> QED
      BY <3>1 DEF Stored
  <2>9. ASSUME NEW c \in Client, CommitImport(c) PROVE Kept
    <3> DEFINE f == tx[c].file
               written == Imported(tx[c].rows, f.rows, Stored)
    <3>1. /\ tx[c].op = "import" /\ tx'[c] = Idle
          /\ rows' = [i \in Id |-> IF i \in written THEN f.rows[i] ELSE rows[i]]
      BY <2>1, <2>9 DEF CommitImport, Ends, RInv, RequestsOK
    <3>2. f \in Files
      BY <2>1, <3>1 DEF RInv, RequestsOK, RequestOK
    <3>3. written \subseteq DOMAIN f.rows /\ \A i \in written : f.rows[i] \in Row
      BY <3>2 DEF Imported
    <3> HIDE DEF written
    <3>4. ASSUME NEW i \in Stored, i \in written PROVE i \in Stored' /\ rows'[i] = f.rows[i]
      BY <3>1, <3>3, <3>4 DEF Stored, Row
    <3>5. ASSUME NEW i \in Stored, i \notin written PROVE i \in Stored' /\ rows'[i] = rows[i]
      BY <3>1, <3>5 DEF Stored
    <3>6. ImportsNow(f)
      BY <3>1 DEF ImportsNow
    <3> QED
      BY <3>2, <3>3, <3>4, <3>5, <3>6
  <2>6. ASSUME NEW c \in Client, Request(c) PROVE UNCHANGED rows
    BY <2>1, <2>6, SerialBegins DEF Begins, db
  <2>7. ASSUME NEW c \in Client, CommitLink(c) \/ CommitUnlink(c) \/ Rollback(c) PROVE UNCHANGED rows
    BY <2>7 DEF CommitLink, CommitUnlink, Rollback, db
  <2>8. ASSUME NEW t \in Task, NEW s \in TaskState, TaskChanges(t, s) PROVE UNCHANGED rows
    BY <2>8 DEF TaskChanges
  <2> HIDE DEF Kept
  <2> QED
    BY <2>1, <2>2, <2>3, <2>4, <2>5, <2>6, <2>7, <2>8, <2>9 DEF Next, Commit
<1> QED
  BY AlwaysRInv, InitSInv, NextSInv, <1>1, PTL DEF Spec, ArchivedForGood

=============================================================================
