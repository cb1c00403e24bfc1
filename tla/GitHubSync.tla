------------------------------ MODULE GitHubSync ------------------------------
(***************************************************************************)
(* GitHub issues coming into a hosted project: GitHub (as the repository's *)
(* simulator has it), the webhook flow, the reconciliation flow, the inbox *)
(* endpoints and the Postgres transactions that apply an event.            *)
(*                                                                         *)
(* An issue is its revision, open or closed, and updated_at; a task is the *)
(* revision it shows, whether it is archived and whether users keep it     *)
(* under a finished parent.  Connection records, sync runs, activity,      *)
(* mappings (nothing here reads the versions in them) and the other        *)
(* columns of a task are left out.  Issue i is task "GH-i".                *)
(* The flow engine is external: it may repeat a post for as long as it has *)
(* no answer or an answer 500, and gives up on an answer 400 or 404.       *)
(***************************************************************************)
EXTENDS FiniteSets, Naturals, Sequences, FiniteSetsExt

CONSTANTS
  Issue,     \* the repository's issues
  None,      \* no issue, no event, an idle handler
  Handler,   \* inbox requests the server works on at a time
  PageSize,  \* per_page of the listing; the flow asks for one page
  Window,    \* replayWindowSeconds
  MaxRev,    \* bound: changes of one issue
  MaxChanges,\* bound: changes of all issues
  MaxTime,   \* bound: the clock
  MaxFaults  \* bound: lost answers, deaths and user edits

ASSUME NoneAssumption  == None \notin Issue
ASSUME IssueAssumption == IsFiniteSet(Issue)
ASSUME BoundAssumption == PageSize \in Nat \ {0} /\ Window \in Nat
                          /\ MaxRev \in Nat /\ MaxChanges \in Nat
                          /\ MaxTime \in Nat \ {0} /\ MaxFaults \in Nat

Time == 1..MaxTime

(* inbox_events' unique (source, external_event_id): the idempotency key   *)
(* of the normalized event.                                                *)
Key == [src : {"delivery"}, issue : Issue, at : 1..MaxRev]
         \cup [src : {"backfill"}, issue : Issue, at : Time]
         \cup [src : {"cursor"}, issue : {None}, at : Time]

DeliveryKey(d)    == [src |-> "delivery", issue |-> d.issue, at |-> d.rev]
BackfillKey(i, t) == [src |-> "backfill", issue |-> i, at |-> t]
CursorKey(t)      == [src |-> "cursor", issue |-> None, at |-> t]

VARIABLES
  now,      \* the clock updated_at and requestStartedAt are read from
  issue,    \* GitHub: revision (0: not there yet), state, updated_at
  hooks,    \* webhook deliveries the inbound flow has not finished with
  task,     \* the revision each task shows (0: no row) and archived_at
  barred,   \* tasks under a finished parent: they cannot be reopened
  inbox,    \* keys with a committed inbox row; its status is applied
  handler,  \* the transaction of each handler
  run,      \* the reconciliation flow
  cursor,   \* the stored cursor "issues.updated_at", 0 for none
  faults,   \* faults so far
  effects,  \* history: how often an event was applied
  acked,    \* history: keys answered with applied or duplicate
  leftOut   \* history: <<issue, updated_at>> a full page had no room for

github == <<now, issue>>
stored == <<task, inbox, effects>>
history == <<acked, leftOut>>
vars == <<github, hooks, stored, barred, handler, run, cursor, history, faults>>

Idle == [pc |-> "idle", list |-> <<>>, at |-> 1, since |-> 0, started |-> 0]

Init ==
  /\ now = 1
  /\ issue = [i \in Issue |-> [rev |-> 0, open |-> TRUE, updated |-> 0]]
  /\ hooks = {}
  /\ task = [i \in Issue |-> [shows |-> 0, archived |-> FALSE]]
  /\ barred = {}
  /\ inbox = {}
  /\ handler = [h \in Handler |-> None]
  /\ run = Idle
  /\ cursor = 0
  /\ faults = 0
  /\ effects = [k \in Key |-> 0]
  /\ acked = {} /\ leftOut = {}

-----------------------------------------------------------------------------
(* GitHub *)

Tick ==
  /\ now < MaxTime
  /\ now' = now + 1
  /\ UNCHANGED <<issue, hooks, stored, barred, handler, run, cursor, history, faults>>

Changes == MapThenSumSet(LAMBDA i : issue[i].rev, Issue)

(* createIssue, updateIssue and queueIssueWebhook.  Nothing makes the      *)
(* webhook arrive.                                                         *)
Change(i, open) ==
  LET changed == [rev |-> issue[i].rev + 1, open |-> open, updated |-> now]
  IN /\ issue[i].rev < MaxRev
     /\ Changes < MaxChanges
     /\ issue[i].rev = 0 => open
     /\ issue' = [issue EXCEPT ![i] = changed]
     /\ hooks' = hooks \cup {[issue |-> i, rev |-> changed.rev,
                              action |-> IF issue[i].open /\ ~open THEN "closed" ELSE "edited"]}
     /\ UNCHANGED <<now, stored, barred, handler, run, cursor, history, faults>>

(* listIssues: state all, updated since, newest first, one page.           *)
Newer(i, j) == issue[i].updated >= issue[j].updated

ChangedSince(since) == {i \in Issue : issue[i].rev > 0 /\ issue[i].updated >= since}

Pages(since) ==
  LET listed == ChangedSince(since)
      size   == Min({PageSize, Cardinality(listed)})
  IN {p \in [1..size -> listed] :
        /\ \A m, n \in 1..size : m < n => p[m] # p[n] /\ Newer(p[m], p[n])
        /\ \A i \in listed, n \in 1..size : (\A m \in 1..size : p[m] # i) => Newer(p[n], i)}

-----------------------------------------------------------------------------
(* The events the flows post. *)

(* normalizeGitHubIssueWebhook *)
WebhookEvent(d) ==
  [key |-> DeliveryKey(d), issue |-> d.issue, rev |-> d.rev,
   kind |-> IF d.action = "closed" THEN "archived" ELSE "upserted"]

(* normalizeGitHubIssueBackfill: its events carry no mapping. *)
BackfillEvent(s) ==
  [key |-> BackfillKey(s.issue, s.updated), issue |-> s.issue, rev |-> s.rev,
   kind |-> IF s.open THEN "upserted" ELSE "archived"]

(* The event the reconciliation flow waits for an answer to. *)
CurrentEvents ==
  IF run.pc = "events" /\ run.at <= Len(run.list) THEN {BackfillEvent(run.list[run.at])} ELSE {}

(* The inbound flow takes the deliveries of an issue one at a time, in any *)
(* order.                                                                  *)
MyTurn(d) ==
  \A h \in Handler :
    handler[h] # None /\ handler[h].event.key.src = "delivery" /\ handler[h].event.issue = d.issue
      => handler[h].event.key = DeliveryKey(d)

Outstanding == {WebhookEvent(d) : d \in {d \in hooks : MyTurn(d)}} \cup CurrentEvents

(* canUseConnectorTaskUpsertFastPath *)
FastPath(e) == e.kind = "upserted" /\ e.key.src = "delivery"

(* A transaction that has inserted the key's row and not ended yet: any    *)
(* other insert of the key waits for it.                                   *)
Holds(h)   == handler[h] # None /\ handler[h].open
KeyHeld(k) == \E h \in Handler : Holds(h) /\ handler[h].event.key = k

-----------------------------------------------------------------------------
(* What an answer does to the flow that waits for it. *)

(* Something goes wrong that does not go wrong for ever. *)
Fault == faults < MaxFaults /\ faults' = faults + 1

(* 2xx.  When the answer is lost the flow posts again, the reconciliation  *)
(* flow its whole batch.                                                   *)
Answered(e) ==
  \E lost \in BOOLEAN :
    /\ IF lost THEN Fault ELSE UNCHANGED faults
    /\ acked' = IF lost THEN acked ELSE acked \cup {e.key}
    /\ hooks' = IF lost THEN hooks ELSE {d \in hooks : DeliveryKey(d) # e.key}
    /\ run' = IF e \notin CurrentEvents THEN run
              ELSE [run EXCEPT !.at = IF lost THEN 1 ELSE run.at + 1]

(* 400, 404: not in retryOn, the flow run fails. *)
Refused(e) ==
  /\ hooks' = {d \in hooks : DeliveryKey(d) # e.key}
  /\ run' = IF e \in CurrentEvents THEN Idle ELSE run
  /\ acked' = acked

(* The rows a commit writes.  Only the fast path restores an archived task.*)
Apply(e) ==
  /\ inbox' = inbox \cup {e.key}
  /\ effects' = [effects EXCEPT ![e.key] = @ + 1]
  /\ task' = [task EXCEPT ![e.issue] =
       IF e.kind = "archived" THEN [@ EXCEPT !.archived = TRUE]
       ELSE [shows |-> e.rev, archived |-> @.archived /\ ~FastPath(e)]]

(* Others that have loaded the task will find its version changed. *)
Outdate(i, hs) ==
  [h \in Handler |-> IF h \in hs THEN None
                     ELSE IF Holds(h) /\ handler[h].event.issue = i
                          THEN [handler[h] EXCEPT !.fresh = FALSE] ELSE handler[h]]

(* applyConnectorTaskUpsert: one statement.  It asks nothing of the        *)
(* hierarchy.  A second one of the key at the same time fails and changes  *)
(* nothing.                                                                *)
FastApply(e) ==
  /\ e \in Outstanding /\ FastPath(e)
  /\ e.key \notin inbox /\ ~KeyHeld(e.key)
  /\ Apply(e)
  /\ handler' = Outdate(e.issue, {})
  /\ Answered(e)
  /\ UNCHANGED <<github, barred, cursor, leftOut>>

(* Faulty: the insert does not wait for the other transaction. *)
ClaimedAnyway(e) == e.key \notin inbox

(* receiveForApply: a row this statement has inserted is claimed. *)
Claimed(e) == e.key \notin inbox /\ ~KeyHeld(e.key)

(* The task as add or archive finds it, and its parent as edit does. *)
Opened(e) == [event |-> e, open |-> TRUE, fresh |-> TRUE,
              found |-> task[e.issue].shows > 0, reopens |-> e.issue \notin barred]

Waiting(e) == [Opened(e) EXCEPT !.open = FALSE, !.found = FALSE, !.reopens = FALSE]

(* The transaction's first statements: receiveForApply, and the reads.     *)
Begin(h, e) ==
  /\ handler[h] = None
  /\ e \in Outstanding /\ ~FastPath(e)
  /\ Claimed(e)
  /\ handler' = [handler EXCEPT ![h] = Opened(e)]
  /\ UNCHANGED <<github, hooks, stored, barred, run, cursor, history, faults>>

(* receiveForApply of a key another transaction holds: the insert waits.   *)
Wait(h, e) ==
  /\ handler[h] = None
  /\ e \in Outstanding /\ ~FastPath(e)
  /\ KeyHeld(e.key)
  /\ handler' = [handler EXCEPT ![h] = Waiting(e)]
  /\ UNCHANGED <<github, hooks, stored, barred, run, cursor, history, faults>>

Waits(h) == handler[h] # None /\ ~handler[h].open

(* The other transaction has been rolled back: the insert claims the key.  *)
Proceed(h) ==
  /\ Waits(h)
  /\ Claimed(handler[h].event)
  /\ handler' = [handler EXCEPT ![h] = Opened(handler[h].event)]
  /\ UNCHANGED <<github, hooks, stored, barred, run, cursor, history, faults>>

(* The other transaction has committed: the statement inserts nothing and, *)
(* with the snapshot it began with, finds no row.  The handler fails on    *)
(* the missing row with a 500, and the flow, if it still waits for this    *)
(* answer, posts again.                                                    *)
LosesRace(h) ==
  /\ Waits(h)
  /\ handler[h].event.key \in inbox
  /\ handler' = [handler EXCEPT ![h] = None]
  /\ run' \in {run, IF handler[h].event \in CurrentEvents THEN [run EXCEPT !.at = 1] ELSE run}
  /\ UNCHANGED <<github, hooks, stored, barred, cursor, history, faults>>

(* add finds that another request has created the task: conflict, and edit *)
(* loads the row and its parent.                                           *)
LoadAgain(h) ==
  /\ Holds(h)
  /\ handler[h].event.kind = "upserted"
  /\ ~handler[h].found /\ ~handler[h].fresh
  /\ handler' = [handler EXCEPT ![h].fresh = TRUE, ![h].found = TRUE,
                                ![h].reopens = handler[h].event.issue \notin barred]
  /\ UNCHANGED <<github, hooks, stored, barred, run, cursor, history, faults>>

(* What edit and archive refuse: a missing task, and (every upsert of the  *)
(* slow path is of an open issue) an unfinished child of a finished parent.*)
Refusable(w) == IF w.event.kind = "archived" THEN ~w.found ELSE w.found /\ ~w.reopens

(* The write with its version check, markApplied, commit. *)
Commit(h) ==
  LET e == handler[h].event
  IN /\ Holds(h)
     /\ handler[h].fresh /\ ~Refusable(handler[h])
     /\ Apply(e)
     /\ handler' = Outdate(e.issue, {h})
     /\ Answered(e)
     /\ UNCHANGED <<github, barred, cursor, leftOut>>

(* A check refuses, or the task's version has changed: the transaction is  *)
(* rolled back, the inbox row with it, and the error is the answer.        *)
Refuse(h) ==
  LET e == handler[h].event
  IN /\ Holds(h)
     /\ Refusable(handler[h]) \/ (handler[h].found /\ ~handler[h].fresh)
     /\ handler' = [handler EXCEPT ![h] = None]
     /\ Refused(e)
     /\ UNCHANGED <<github, stored, barred, cursor, leftOut, faults>>

(* The server or its connection dies; the flow posts again. *)
HandlerDies(h) ==
  /\ handler[h] # None
  /\ Fault
  /\ handler' = [handler EXCEPT ![h] = None]
  /\ run' = IF handler[h].event \in CurrentEvents THEN [run EXCEPT !.at = 1] ELSE run
  /\ UNCHANGED <<github, hooks, stored, barred, cursor, history>>

(* A row that was committed before the request: a duplicate, nothing done. *)
Seen(e) == e.key \in inbox

Duplicate(e) ==
  /\ e \in Outstanding
  /\ Seen(e)
  /\ Answered(e)
  /\ UNCHANGED <<github, stored, barred, handler, cursor, leftOut>>

(* A user edits the task, which moves its version. *)
UserEdits(i) ==
  /\ task[i].shows > 0
  /\ \E h \in Handler : Holds(h) /\ handler[h].event.issue = i /\ handler[h].fresh
  /\ Fault
  /\ handler' = Outdate(i, {})
  /\ UNCHANGED <<github, hooks, stored, barred, run, cursor, history>>

(* Users bring the task under a finished parent, or out of it: by an edit  *)
(* of the task, or of its parent, which leaves the task's version alone.   *)
UserMoves(i) ==
  /\ task[i].shows > 0
  /\ Fault
  /\ barred' = IF i \in barred THEN barred \ {i} ELSE barred \cup {i}
  /\ handler' \in {handler, Outdate(i, {})}
  /\ UNCHANGED <<github, hooks, stored, run, cursor, history>>

-----------------------------------------------------------------------------
(* github-issues-reconcile, one run at a time. *)

(* Faulty: the window is added. *)
SinceAfter(c) == c + Window

(* replayCursor *)
Since(c) == IF c > Window THEN c - Window ELSE 0

(* The connection and its cursor are read: prepareGitHubIssueBackfill. *)
ReconcileStart ==
  /\ run.pc = "idle"
  /\ run' = [pc |-> "asked", list |-> <<>>, at |-> 1, since |-> cursor, started |-> now]
  /\ UNCHANGED <<github, hooks, stored, barred, handler, cursor, history, faults>>

(* GitHub answers with the issues as they are now; the flow asks for no    *)
(* second page.                                                            *)
Listed ==
  /\ run.pc = "asked"
  /\ \E p \in Pages(Since(run.since)) :
       /\ run' = [run EXCEPT !.pc = "events",
                    !.list = [n \in DOMAIN p |-> [issue |-> p[n], rev |-> issue[p[n]].rev,
                                open |-> issue[p[n]].open, updated |-> issue[p[n]].updated]]]
       /\ leftOut' = leftOut \cup {<<i, issue[i].updated>> : i \in
                       ChangedSince(Since(run.since)) \ {p[n] : n \in DOMAIN p}}
  /\ UNCHANGED <<github, hooks, stored, barred, handler, cursor, acked, faults>>

(* Faulty: the second after the last change seen. *)
CursorPast == 1 + Max({run.since, run.started} \cup {run.list[n].updated : n \in DOMAIN run.list})

(* nextCursorValue *)
NextCursor ==
  Max({run.since, run.started} \cup {run.list[n].updated : n \in DOMAIN run.list})

(* Faulty: the cursor event does not wait for the batch. *)
BatchStarted == run.pc = "events"

BatchDone == run.pc = "events" /\ run.at > Len(run.list)

(* The cursor event is applied, which changes no task ... *)
PostCursor ==
  /\ BatchDone
  /\ LET k == CursorKey(NextCursor)
     IN IF k \in inbox
        THEN run' = Idle /\ UNCHANGED <<stored, acked>>
        ELSE /\ inbox' = inbox \cup {k}
             /\ effects' = [effects EXCEPT ![k] = @ + 1]
             /\ acked' = acked \cup {k}
             /\ run' = [run EXCEPT !.pc = "cursor"]
             /\ UNCHANGED task
  /\ UNCHANGED <<github, hooks, barred, handler, cursor, leftOut, faults>>

(* ... and then observeConnectorInboxEvent stores the cursor, unless the   *)
(* server dies first: a repeated post is then a duplicate, not observed.   *)
ObserveCursor ==
  /\ run.pc = "cursor"
  /\ \/ cursor' = NextCursor /\ UNCHANGED faults
     \/ Fault /\ UNCHANGED cursor
  /\ run' = Idle
  /\ UNCHANGED <<github, hooks, stored, barred, handler, history>>

-----------------------------------------------------------------------------
Reconcile == ReconcileStart \/ Listed \/ PostCursor \/ ObserveCursor

Answer(h) == Proceed(h) \/ LosesRace(h) \/ LoadAgain(h) \/ Commit(h) \/ Refuse(h)

Work(h) == (\E e \in Outstanding : Begin(h, e) \/ Wait(h, e)) \/ Answer(h)

Next ==
  \/ Tick
  \/ \E i \in Issue, open \in BOOLEAN : Change(i, open)
  \/ \E e \in Outstanding : FastApply(e) \/ Duplicate(e)
  \/ \E h \in Handler : Work(h) \/ HandlerDies(h)
  \/ \E i \in Issue : UserEdits(i) \/ UserMoves(i)
  \/ Reconcile

Spec == Init /\ [][Next]_vars

(* The scheduled flow runs again and again, its posts are repeated until  *)
(* they are answered, and the server works on them.  Webhooks are owed     *)
(* nothing.                                                                *)
Fairness ==
  /\ WF_vars(Reconcile)
  /\ WF_vars(\E e \in CurrentEvents : Duplicate(e))
  /\ \A h \in Handler :
       /\ WF_vars(\E e \in CurrentEvents : Begin(h, e))
       /\ WF_vars(Answer(h))

FairSpec == Spec /\ Fairness

-----------------------------------------------------------------------------
TypeOK ==
  /\ now \in Time
  /\ issue \in [Issue -> [rev : 0..MaxRev, open : BOOLEAN, updated : 0..MaxTime]]
  /\ task \in [Issue -> [shows : 0..MaxRev, archived : BOOLEAN]]
  /\ barred \subseteq Issue
  /\ inbox \subseteq Key /\ acked \subseteq Key
  /\ leftOut \subseteq Issue \X (0..MaxTime)
  /\ effects \in [Key -> Nat]
  /\ cursor \in 0..MaxTime
  /\ faults \in 0..MaxFaults
  /\ run.pc \in {"idle", "asked", "events", "cursor"}
  /\ run.at \in 1..(Len(run.list) + 1)

Promise == INSTANCE InboxPromise

(* However requests for one event overlap, repeat, fail or lose their      *)
(* answers, it takes effect once, and a caller told "applied" or           *)
(* "duplicate" can rely on the effect (applyConnectorInboxEvent).          *)
KeepsInboxPromise == Promise!Spec

(* A full page had no room for the issue's last change. *)
LeftOut(i) == <<i, issue[i].updated>> \in leftOut

(* The stored cursor has passed no change but those a full page left out:  *)
(* whatever GitHub shows as changed before it has an applied backfill      *)
(* event, or was not among the per_page newest changes when the flow       *)
(* listed them (nextCursorValue, "cursor advancement happens only after    *)
(* event evidence is durably recorded").                                   *)
CursorSound ==
  \A i \in Issue : issue[i].rev > 0 /\ issue[i].updated < cursor
                     => BackfillKey(i, issue[i].updated) \in inbox \/ LeftOut(i)

(* Closed issues all have a task to archive. *)
ClosedKnown == \A i \in Issue : issue[i].open \/ task[i].shows > 0

(* No task of an open issue is under a finished parent. *)
NoneBarred == \A i \in barred : ~issue[i].open

(* An issue that is there and stays open gets its task, webhook or not. *)
OpenIssueGetsTask ==
  \A i \in Issue : issue[i].rev > 0 ~> (task[i].shows > 0 \/ ~issue[i].open)

(* Once every closed issue has a task and users keep no open issue's task  *)
(* under a finished parent (each of the two fails the batch of every run), *)
(* an open issue gets its task, also when its webhook is lost, unless a    *)
(* full page left it out (github-issues-reconcile).                        *)
MissedWebhookRepaired ==
  <>[](ClosedKnown /\ NoneBarred) =>
    \A i \in Issue : issue[i].rev > 0 ~> (task[i].shows > 0 \/ ~issue[i].open \/ LeftOut(i))

=============================================================================
