--------------------------- MODULE GitHubSyncProofs ---------------------------
(***************************************************************************)
(* Proofs about GitHubSync for any issues, handlers, page size and bounds: *)
(* the inbox keeps its promise, and the cursor passes no change but those  *)
(* a full page left out.                                                   *)
(***************************************************************************)
EXTENDS GitHubSync, TLAPS, WellFoundedInduction, FiniteSetTheorems

Delivery == [issue : Issue, rev : 1..MaxRev, action : {"closed", "edited"}]
Listing  == [issue : Issue, rev : 1..MaxRev, open : BOOLEAN, updated : Time]
EventKey == {k \in Key : k.src # "cursor"}
Event    == [key : EventKey, issue : Issue, rev : 1..MaxRev, kind : {"archived", "upserted"}]
Work_    == [event : Event, open : BOOLEAN, fresh : BOOLEAN, found : BOOLEAN, reopens : BOOLEAN]

-----------------------------------------------------------------------------
(* What the steps preserve. *)

IssuesOK ==
  /\ now \in Time
  /\ issue \in [Issue -> [rev : 0..MaxRev, open : BOOLEAN, updated : 0..MaxTime]]
  /\ \A i \in Issue : issue[i].updated <= now
  /\ \A i \in Issue : issue[i].rev > 0 => issue[i].updated \in Time
  /\ hooks \subseteq Delivery

StoredOK ==
  /\ task \in [Issue -> [shows : 0..MaxRev, archived : BOOLEAN]]
  /\ inbox \subseteq Key
  /\ effects \in [Key -> Nat]
  /\ acked \subseteq inbox
  /\ barred \subseteq Issue /\ leftOut \subseteq Issue \X (0..MaxTime)
  /\ handler \in [Handler -> {None} \cup Work_]
  /\ faults \in 0..MaxFaults

RunOK ==
  /\ run \in [pc : {"idle", "asked", "events", "cursor"}, list : Seq(Listing),
              at : Nat \ {0}, since : 0..MaxTime, started : 0..MaxTime]
  /\ run.at <= Len(run.list) + 1
  /\ run.pc # "idle" => run.started \in 1..now /\ run.since = cursor
  /\ run.pc = "asked" => run.at = 1
  /\ run.pc = "cursor" => run.at > Len(run.list)
  /\ \A n \in DOMAIN run.list : run.list[n].updated <= now
  /\ cursor \in 0..now

(* An open transaction holds a key no other has, in the table or open. *)
HandlersApart ==
  \A h \in Handler : Holds(h) =>
    /\ handler[h].event.key \notin inbox
    /\ \A g \in Handler : Holds(g) /\ handler[g].event.key = handler[h].event.key => g = h

(* A key has taken effect as often as it is in the table. *)
Counted == \A k \in Key : effects[k] = IF k \in inbox THEN 1 ELSE 0

(* The events of the batch before the current one are in. *)
BatchProgress ==
  \A n \in DOMAIN run.list :
    n < run.at => BackfillKey(run.list[n].issue, run.list[n].updated) \in inbox

Inv == IssuesOK /\ StoredOK /\ RunOK /\ HandlersApart /\ Counted /\ BatchProgress

-----------------------------------------------------------------------------
(* A set of numbers up to N has a maximum (the least number principle, for *)
(* the distances from N).                                                  *)
LEMMA MaxIn ==
  ASSUME NEW N \in Nat, NEW S \in SUBSET (0..N), S # {}
  PROVE  Max(S) \in S /\ \A y \in S : y <= Max(S)
<1> DEFINE T == {n \in Nat : \E x \in S : n = N - x}
<1>1. T \subseteq Nat /\ T # {}
  <2>1. PICK x \in S : x \in 0..N
    OBVIOUS
  <2>2. N - x \in Nat
    BY <2>1
  <2> QED
    BY <2>1, <2>2
<1>2. \E n \in T : \A m \in T : n <= m
  <2>1. \E n \in T : \A m \in T : ~(<<m, n>> \in OpToRel(<, Nat))
    BY <1>1, NatLessThanWellFounded, WFMin
  <2>2. OpToRel(<, Nat) = {ss \in Nat \X Nat : ss[1] < ss[2]}
    BY Zenon DEF OpToRel
  <2> DEFINE R == OpToRel(<, Nat)
  <2>3. \E n \in T : \A m \in T : ~(<<m, n>> \in R)
    BY <2>1
  <2>4. R = {ss \in Nat \X Nat : ss[1] < ss[2]}
    BY <2>2
  <2> HIDE DEF R
  <2>5. PICK n \in T : \A m \in T : <<m, n>> \notin R
    BY <2>3
  <2> HIDE DEF T
  <2>6. n \in Nat /\ \A m \in T : m \in Nat /\ n <= m
    <3> SUFFICES ASSUME NEW m \in T  PROVE m \in Nat /\ n <= m
      BY <1>1
    <3>1. m \in Nat /\ n \in Nat
      BY <1>1
    <3>2. <<m, n>> \in R <=> <<m, n>> \in Nat \X Nat /\ <<m, n>>[1] < <<m, n>>[2]
      BY <2>4, Zenon
    <3>3. ~ (<<m, n>> \in Nat \X Nat /\ <<m, n>>[1] < <<m, n>>[2])
      BY <2>5, <3>2, Zenon
    <3>4. ~ (m < n)
      BY <3>1, <3>3, SMT
    <3> QED
      BY <3>1, <3>4
  <2> QED
    BY <2>5, <2>6
<1>3. PICK n \in T : \A m \in T : n <= m
  BY <1>2
<1>4. PICK x \in S : n = N - x
  BY <1>3
<1>5. \A y \in S : y <= x
  <2> SUFFICES ASSUME NEW y \in S PROVE y <= x
    OBVIOUS
  <2>1. N - y \in T
    OBVIOUS
  <2> QED
    BY <2>1, <1>3, <1>4
<1> QED
  BY <1>5 DEF Max

-----------------------------------------------------------------------------
(* The events posted are well formed. *)
LEMMA OutstandingTyped ==
  ASSUME Inv
  PROVE  \A e \in Outstanding : e \in Event
<1>1. \A d \in Delivery : WebhookEvent(d) \in Event
  BY DEF Delivery, WebhookEvent, Event, EventKey, DeliveryKey, Key
<1>2. \A l \in Listing : BackfillEvent(l) \in Event
  BY DEF Listing, BackfillEvent, Event, EventKey, BackfillKey, Key
<1>3. \A e \in CurrentEvents : e \in Event
  <2>1. CASE run.pc = "events" /\ run.at <= Len(run.list)
    <3>1. run.list[run.at] \in Listing
      BY <2>1 DEF Inv, RunOK
    <3> QED
      BY <1>2, <2>1, <3>1 DEF CurrentEvents
  <2>2. CASE ~(run.pc = "events" /\ run.at <= Len(run.list))
    BY <2>2 DEF CurrentEvents
  <2> QED
    BY <2>1, <2>2
<1> QED
  BY <1>1, <1>3 DEF Inv, IssuesOK, Outstanding

LEMMA IdleTyped ==
  Idle \in [pc : {"idle"}, list : Seq(Listing), at : Nat \ {0}, since : 0..MaxTime, started : 0..MaxTime]
    /\ Idle.list = <<>> /\ Idle.at = 1 /\ Idle.pc = "idle"
  BY BoundAssumption DEF Idle

(* What an answer to an event that is in does to the flows. *)
LEMMA AnsweredKeeps ==
  ASSUME Inv, NEW e \in Event, Answered(e), e.key \in inbox', inbox \subseteq inbox',
         now' = now, cursor' = cursor
  PROVE  RunOK' /\ BatchProgress' /\ hooks' \subseteq hooks /\ faults' \in 0..MaxFaults
           /\ acked' \in {acked, acked \cup {e.key}}
<1>1. PICK lost \in BOOLEAN :
        /\ IF lost THEN Fault ELSE UNCHANGED faults
        /\ acked' = IF lost THEN acked ELSE acked \cup {e.key}
        /\ hooks' = IF lost THEN hooks ELSE {d \in hooks : DeliveryKey(d) # e.key}
        /\ run' = IF e \notin CurrentEvents THEN run
                  ELSE [run EXCEPT !.at = IF lost THEN 1 ELSE run.at + 1]
  BY DEF Answered
<1>2. faults' \in 0..MaxFaults
  BY <1>1, BoundAssumption DEF Inv, StoredOK, Fault
<1>3. CASE e \notin CurrentEvents
  BY <1>1, <1>2, <1>3 DEF Inv, RunOK, BatchProgress
<1>4. CASE e \in CurrentEvents
  <2>1. /\ run.pc = "events" /\ run.at <= Len(run.list)
        /\ e.key = BackfillKey(run.list[run.at].issue, run.list[run.at].updated)
    BY <1>4 DEF CurrentEvents, BackfillEvent
  <2>2. /\ run'.pc = run.pc /\ run'.list = run.list /\ run'.since = run.since
        /\ run'.started = run.started /\ run'.at \in {1, run.at + 1}
        /\ run' \in [pc : {"idle", "asked", "events", "cursor"}, list : Seq(Listing),
                    at : Nat \ {0}, since : 0..MaxTime, started : 0..MaxTime]
    BY <1>1, <1>4 DEF Inv, RunOK
  <2>3. RunOK'
    BY <2>1, <2>2 DEF Inv, RunOK
  <2>4. BatchProgress'
    BY <2>1, <2>2 DEF Inv, RunOK, BatchProgress
  <2> QED
    BY <1>1, <1>2, <2>3, <2>4
<1> QED
  BY <1>3, <1>4

(* The rows an event writes. *)
LEMMA ApplyKeeps ==
  ASSUME Inv, NEW e \in Event, Apply(e), e.key \notin inbox
  PROVE  /\ task' \in [Issue -> [shows : 0..MaxRev, archived : BOOLEAN]]
         /\ inbox' \subseteq Key
         /\ effects' \in [Key -> Nat]
         /\ Counted'
         /\ effects[e.key] = 0 /\ effects' = [effects EXCEPT ![e.key] = 1]
<1>1. e.key \in Key /\ e.issue \in Issue /\ e.rev \in 0..MaxRev
  BY BoundAssumption DEF Event, EventKey
<1>2. effects[e.key] = 0 /\ effects' = [effects EXCEPT ![e.key] = 1]
  <2>1. effects[e.key] = 0
    BY <1>1 DEF Inv, Counted
  <2>2. effects' = [effects EXCEPT ![e.key] = effects[e.key] + 1]
    BY DEF Apply
  <2> QED
    BY <2>1, <2>2
<1>3. Counted'
  BY <1>1, <1>2 DEF Inv, Counted, StoredOK, Apply
<1>4. task' \in [Issue -> [shows : 0..MaxRev, archived : BOOLEAN]]
  <2>1. task[e.issue] \in [shows : 0..MaxRev, archived : BOOLEAN]
    BY <1>1 DEF Inv, StoredOK
  <2>2. (task[e.issue].archived /\ ~FastPath(e)) \in BOOLEAN
    OBVIOUS
  <2> QED
    BY <1>1, <2>1, <2>2 DEF Inv, StoredOK, Apply
<1> QED
  BY <1>1, <1>2, <1>3, <1>4 DEF Inv, StoredOK, Apply

(* The open transactions after others have been outdated. *)
LEMMA OutdateKeeps ==
  ASSUME Inv, NEW i, NEW hs, handler' = Outdate(i, hs)
  PROVE  /\ handler' \in [Handler -> {None} \cup Work_]
         /\ \A h \in Handler : handler'[h] # None =>
              /\ handler[h] # None /\ h \notin hs
              /\ handler'[h].event = handler[h].event /\ handler'[h].open = handler[h].open
<1>1. \A h \in Handler : handler[h] # None => handler[h] \in Work_
  BY DEF Inv, StoredOK
<1>2. ASSUME NEW h \in Handler, h \notin hs, Holds(h) /\ handler[h].event.issue = i
      PROVE  /\ handler'[h] \in Work_ /\ handler[h] # None
             /\ handler'[h].event = handler[h].event /\ handler'[h].open = handler[h].open
  BY <1>1, <1>2 DEF Outdate, Work_, Holds
<1>3. ASSUME NEW h \in Handler, h \in hs \/ ~(Holds(h) /\ handler[h].event.issue = i)
      PROVE  handler'[h] = IF h \in hs THEN None ELSE handler[h]
  BY <1>3 DEF Outdate, Holds
<1>4. DOMAIN handler' = Handler /\ handler' = [h \in Handler |-> handler'[h]]
  BY DEF Outdate, Holds
<1>5. \A h \in Handler : handler'[h] \in {None} \cup Work_
  BY <1>1, <1>2, <1>3
<1>6. handler' \in [Handler -> {None} \cup Work_]
  BY <1>4, <1>5
<1>7. ASSUME NEW h \in Handler, handler'[h] # None
      PROVE  /\ handler[h] # None /\ h \notin hs
             /\ handler'[h].event = handler[h].event /\ handler'[h].open = handler[h].open
  <2>1. CASE h \in hs
    BY <1>3, <1>7, <2>1
  <2>2. CASE h \notin hs /\ Holds(h) /\ handler[h].event.issue = i
    BY <1>2, <2>2
  <2>3. CASE h \notin hs /\ ~(Holds(h) /\ handler[h].event.issue = i)
    BY <1>3, <1>7, <2>3
  <2> QED
    BY <2>1, <2>2, <2>3
<1> QED
  BY <1>6, <1>7

-----------------------------------------------------------------------------
(* One lemma per step: it keeps the invariant, and is a step of the        *)
(* promise or none.                                                        *)

Kept == Inv' /\ [Promise!Next]_<<effects, acked>>

LEMMA TickKeeps == ASSUME Inv, Tick PROVE Kept
<1>1. IssuesOK'
  BY BoundAssumption DEF Inv, IssuesOK, Tick, Time, Listing, vars, stored, history
<1>2. RunOK'
  <2>1. now \in Nat /\ now' = now + 1 /\ UNCHANGED <<run, cursor>>
    BY DEF Inv, IssuesOK, Tick, Time, history
  <2>2. \A n \in DOMAIN run.list : run.list[n].updated <= now'
    <3> SUFFICES ASSUME NEW n \in DOMAIN run.list  PROVE run.list[n].updated <= now'
      OBVIOUS
    <3>1. run.list[n] \in Listing
      BY DEF Inv, RunOK
    <3>2. run.list[n].updated \in Nat
      BY <3>1 DEF Listing, Time
    <3> QED
      BY <2>1, <3>2 DEF Inv, RunOK
  <2>3. run.pc # "idle" => run.started \in 1..now' /\ run.since = cursor
    BY <2>1 DEF Inv, RunOK
  <2>4. cursor \in 0..now'
    BY <2>1 DEF Inv, RunOK
  <2> QED
    BY <2>1, <2>2, <2>3, <2>4 DEF Inv, RunOK
<1> QED
  BY <1>1, <1>2 DEF Kept, Inv, StoredOK, HandlersApart, Counted, BatchProgress, Tick, stored, history, Holds

LEMMA ChangeKeeps ==
  ASSUME Inv, NEW i \in Issue, NEW open \in BOOLEAN, Change(i, open)
  PROVE  Kept
<1> DEFINE changed == [rev |-> issue[i].rev + 1, open |-> open, updated |-> now]
           d == [issue |-> i, rev |-> changed.rev,
                 action |-> IF issue[i].open /\ ~open THEN "closed" ELSE "edited"]
<1>1. /\ issue[i].rev < MaxRev /\ issue' = [issue EXCEPT ![i] = changed]
      /\ hooks' = hooks \cup {d}
      /\ UNCHANGED <<now, stored, barred, handler, run, cursor, acked, leftOut, faults>>
  BY DEF Change, history
<1>2. issue[i].rev \in 0..MaxRev /\ now \in Time /\ now \in 0..MaxTime
  BY BoundAssumption DEF Inv, IssuesOK, Time
<1>3. changed \in [rev : 1..MaxRev, open : BOOLEAN, updated : Time]
  BY <1>1, <1>2, BoundAssumption
<1>4. changed \in [rev : 0..MaxRev, open : BOOLEAN, updated : 0..MaxTime]
  BY <1>1, <1>2, BoundAssumption
<1>5. d \in Delivery
  BY <1>3 DEF Delivery
<1>6. changed.updated = now /\ changed.updated \in Time
  BY <1>2
<1> HIDE DEF changed, d
<1>7. IssuesOK'
  BY <1>1, <1>2, <1>4, <1>5, <1>6 DEF Inv, IssuesOK, Time
<1> QED
  BY <1>1, <1>7 DEF Kept, Inv, StoredOK, RunOK, HandlersApart, Counted, BatchProgress, stored, history, Holds

LEMMA FastApplyKeeps ==
  ASSUME Inv, NEW e \in Outstanding, FastApply(e)
  PROVE  Kept
<1>1. e \in Event
  BY OutstandingTyped
<1>2. /\ e.key \notin inbox /\ ~KeyHeld(e.key) /\ Apply(e) /\ Answered(e)
      /\ handler' = Outdate(e.issue, {})
      /\ UNCHANGED <<now, issue, barred, cursor, leftOut>>
  BY DEF FastApply, github, history
<1>3. inbox' = inbox \cup {e.key}
  BY <1>2 DEF Apply
<1>4. RunOK' /\ BatchProgress' /\ hooks' \subseteq hooks /\ faults' \in 0..MaxFaults
        /\ acked' \in {acked, acked \cup {e.key}}
  BY <1>1, <1>2, <1>3, AnsweredKeeps
<1>5. IssuesOK'
  BY <1>2, <1>4 DEF Inv, IssuesOK
<1>6. /\ task' \in [Issue -> [shows : 0..MaxRev, archived : BOOLEAN]]
      /\ inbox' \subseteq Key /\ effects' \in [Key -> Nat] /\ Counted'
      /\ effects[e.key] = 0 /\ effects' = [effects EXCEPT ![e.key] = 1]
  BY <1>1, <1>2, ApplyKeeps
<1>7. /\ handler' \in [Handler -> {None} \cup Work_]
      /\ \A h \in Handler : handler'[h] # None =>
           /\ handler[h] # None /\ handler'[h].event = handler[h].event
           /\ handler'[h].open = handler[h].open
  BY <1>2, OutdateKeeps
<1>8. StoredOK'
  BY <1>2, <1>3, <1>4, <1>6, <1>7 DEF Inv, StoredOK
<1>9. HandlersApart'
  BY <1>2, <1>3, <1>7 DEF Inv, HandlersApart, KeyHeld, Holds
<1>10. e.key \in Key
  BY <1>1 DEF Event, EventKey
<1>11. Promise!Next
  BY <1>4, <1>6, <1>10 DEF Promise!Next, Promise!TakeEffect
<1> QED
  BY <1>4, <1>5, <1>6, <1>8, <1>9, <1>11 DEF Kept, Inv

(* A transaction that opens: it claims a key nobody holds. *)
LEMMA OpenedKeeps ==
  ASSUME Inv, NEW h \in Handler, NEW e \in Event, Claimed(e),
         handler' = [handler EXCEPT ![h] = Opened(e)],
         UNCHANGED <<github, hooks, stored, barred, run, cursor, acked, leftOut, faults>>
  PROVE  Kept
<1> DEFINE w == Opened(e)
<1>1. (task[e.issue].shows > 0) \in BOOLEAN /\ (e.issue \notin barred) \in BOOLEAN
  OBVIOUS
<1>2. w \in Work_ /\ w.event = e
  BY <1>1 DEF Work_, Opened
<1> HIDE DEF w
<1>3. handler' = [handler EXCEPT ![h] = w]
  BY DEF w
<1>4. handler' \in [Handler -> {None} \cup Work_]
  BY <1>2, <1>3 DEF Inv, StoredOK
<1>5. e.key \notin inbox /\ ~KeyHeld(e.key)
  BY DEF Claimed
<1>6. HandlersApart'
  BY <1>2, <1>3, <1>5 DEF Inv, HandlersApart, StoredOK, KeyHeld, stored, Holds
<1> QED
  BY <1>4, <1>6 DEF Kept, Inv, IssuesOK, StoredOK, RunOK, Counted, BatchProgress, stored, github

LEMMA BeginKeeps ==
  ASSUME Inv, NEW h \in Handler, NEW e \in Outstanding, Begin(h, e)
  PROVE  Kept
<1>1. e \in Event
  BY OutstandingTyped
<1> QED
  BY <1>1, OpenedKeeps DEF Begin, history

LEMMA WaitKeeps ==
  ASSUME Inv, NEW h \in Handler, NEW e \in Outstanding, Wait(h, e)
  PROVE  Kept
<1> DEFINE w == Waiting(e)
<1>1. /\ handler[h] = None
      /\ handler' = [handler EXCEPT ![h] = w]
      /\ UNCHANGED <<github, hooks, stored, barred, run, cursor, acked, leftOut, faults>>
  BY DEF Wait, history
<1>2. e \in Event
  BY OutstandingTyped
<1>3. w \in Work_ /\ w.open = FALSE
  BY <1>2 DEF Work_, Waiting, Opened
<1> HIDE DEF w
<1>4. handler' \in [Handler -> {None} \cup Work_]
  BY <1>1, <1>3 DEF Inv, StoredOK
<1>5. HandlersApart'
  BY <1>1, <1>3 DEF Inv, HandlersApart, StoredOK, stored, Holds
<1> QED
  BY <1>1, <1>4, <1>5 DEF Kept, Inv, IssuesOK, StoredOK, RunOK, Counted, BatchProgress, stored, github

LEMMA ProceedKeeps ==
  ASSUME Inv, NEW h \in Handler, Proceed(h)
  PROVE  Kept
<1>1. handler[h].event \in Event
  BY DEF Proceed, Waits, Inv, StoredOK, Work_
<1> QED
  BY <1>1, OpenedKeeps DEF Proceed, history

LEMMA LoadAgainKeeps ==
  ASSUME Inv, NEW h \in Handler, LoadAgain(h)
  PROVE  Kept
<1>1. handler[h] \in Work_
  BY DEF Inv, StoredOK, LoadAgain, history, Holds
<1>2. /\ handler' = [handler EXCEPT ![h] = [handler[h] EXCEPT !.fresh = TRUE, !.found = TRUE,
                                    !.reopens = handler[h].event.issue \notin barred]]
      /\ UNCHANGED <<github, hooks, stored, barred, run, cursor, acked, leftOut, faults>>
  BY DEF LoadAgain, Inv, StoredOK, history, Holds
<1>3. /\ handler'[h] \in Work_ /\ handler'[h].event = handler[h].event
      /\ handler'[h].open = handler[h].open
  <2>1. (handler[h].event.issue \notin barred) \in BOOLEAN
    OBVIOUS
  <2> QED
    BY <1>1, <1>2, <2>1 DEF Work_, Inv, StoredOK
<1>4. \A g \in Handler \ {h} : handler'[g] = handler[g]
  BY <1>2 DEF Inv, StoredOK
<1>5. handler' \in [Handler -> {None} \cup Work_]
  BY <1>2, <1>3, <1>4 DEF Inv, StoredOK
<1>6. Holds(h)
  BY DEF LoadAgain, history, Holds
<1>7. HandlersApart'
  BY <1>2, <1>3, <1>4, <1>6 DEF Inv, HandlersApart, stored, history, Holds
<1> QED
  BY <1>2, <1>5, <1>7 DEF Kept, Inv, IssuesOK, StoredOK, RunOK, Counted, BatchProgress, stored, github, history

LEMMA CommitKeeps ==
  ASSUME Inv, NEW h \in Handler, Commit(h)
  PROVE  Kept
<1> DEFINE e == handler[h].event
<1>1. /\ Holds(h) /\ handler[h] # None /\ Apply(e) /\ Answered(e)
      /\ handler' = Outdate(e.issue, {h})
      /\ UNCHANGED <<now, issue, barred, cursor, leftOut>>
  BY DEF Commit, github, history, Holds
<1>2. e \in Event
  BY <1>1 DEF Inv, StoredOK, Work_
<1>3. /\ e.key \notin inbox
      /\ \A g \in Handler \ {h} : Holds(g) => handler[g].event.key # e.key
  BY <1>1 DEF Inv, HandlersApart
<1> HIDE DEF e
<1>4. inbox' = inbox \cup {e.key}
  BY <1>1 DEF Apply
<1>5. RunOK' /\ BatchProgress' /\ hooks' \subseteq hooks /\ faults' \in 0..MaxFaults
        /\ acked' \in {acked, acked \cup {e.key}}
  BY <1>1, <1>2, <1>4, AnsweredKeeps
<1>6. IssuesOK'
  BY <1>1, <1>5 DEF Inv, IssuesOK
<1>7. /\ task' \in [Issue -> [shows : 0..MaxRev, archived : BOOLEAN]]
      /\ inbox' \subseteq Key /\ effects' \in [Key -> Nat] /\ Counted'
      /\ effects[e.key] = 0 /\ effects' = [effects EXCEPT ![e.key] = 1]
  BY <1>1, <1>2, <1>3, ApplyKeeps
<1>8. /\ handler' \in [Handler -> {None} \cup Work_]
      /\ \A g \in Handler : handler'[g] # None =>
           /\ handler[g] # None /\ g \notin {h}
           /\ handler'[g].event = handler[g].event /\ handler'[g].open = handler[g].open
  BY <1>1, OutdateKeeps
<1>9. StoredOK'
  BY <1>1, <1>4, <1>5, <1>7, <1>8 DEF Inv, StoredOK
<1>10. HandlersApart'
  BY <1>3, <1>4, <1>8 DEF Inv, HandlersApart, Holds
<1>11. e.key \in Key
  BY <1>2 DEF Event, EventKey
<1>12. Promise!Next
  BY <1>5, <1>7, <1>11 DEF Promise!Next, Promise!TakeEffect
<1> QED
  BY <1>5, <1>6, <1>7, <1>9, <1>10, <1>12 DEF Kept, Inv

(* A transaction that ends without a commit. *)
LEMMA RolledBackKeeps ==
  ASSUME Inv, NEW h \in Handler, handler' = [handler EXCEPT ![h] = None],
         UNCHANGED <<github, stored, barred, cursor, acked, leftOut>>, hooks' \subseteq hooks,
         faults' \in 0..MaxFaults, RunOK', BatchProgress'
  PROVE  Kept
<1>1. \A g \in Handler : handler'[g] # None => handler'[g] = handler[g]
  BY DEF Inv, StoredOK
<1>2. handler' \in [Handler -> {None} \cup Work_]
  BY DEF Inv, StoredOK
<1>3. HandlersApart'
  BY <1>1 DEF Inv, HandlersApart, stored, history, Holds
<1> QED
  BY <1>2, <1>3 DEF Kept, Inv, IssuesOK, StoredOK, Counted, stored, github, history

LEMMA RefuseKeeps ==
  ASSUME Inv, NEW h \in Handler, Refuse(h)
  PROVE  Kept
<1>1. /\ handler' = [handler EXCEPT ![h] = None]
      /\ UNCHANGED <<github, stored, barred, cursor, acked, leftOut, faults>> /\ hooks' \subseteq hooks
      /\ run' \in {Idle, run}
  BY DEF Refuse, Refused, history, Holds
<1>2. RunOK' /\ BatchProgress'
  BY <1>1, IdleTyped DEF Inv, RunOK, BatchProgress, github, stored, history
<1> QED
  BY <1>1, <1>2, RolledBackKeeps DEF Inv, StoredOK

LEMMA HandlerDiesKeeps ==
  ASSUME Inv, NEW h \in Handler, HandlerDies(h)
  PROVE  Kept
<1>1. /\ handler' = [handler EXCEPT ![h] = None]
      /\ UNCHANGED <<github, hooks, stored, barred, cursor, acked, leftOut>> /\ Fault
      /\ run' \in {run, [run EXCEPT !.at = 1]}
  BY DEF HandlerDies, history
<1>2. faults' \in 0..MaxFaults
  BY <1>1, BoundAssumption DEF Inv, StoredOK, Fault
<1>3. CASE run' = run
  BY <1>1, <1>2, <1>3, RolledBackKeeps DEF Inv, RunOK, BatchProgress, github, stored, history
<1>4. CASE run' = [run EXCEPT !.at = 1] /\ run.pc # "cursor"
  <2>1. RunOK' /\ BatchProgress'
    BY <1>1, <1>4 DEF Inv, RunOK, BatchProgress, github, stored, history
  <2> QED
    BY <1>1, <1>2, <2>1, RolledBackKeeps
<1>5. run.pc = "cursor" => run' = run
  BY DEF HandlerDies, CurrentEvents, history
<1> QED
  BY <1>1, <1>3, <1>4, <1>5

LEMMA LosesRaceKeeps ==
  ASSUME Inv, NEW h \in Handler, LosesRace(h)
  PROVE  Kept
<1>1. /\ handler' = [handler EXCEPT ![h] = None]
      /\ UNCHANGED <<github, hooks, stored, barred, cursor, acked, leftOut, faults>>
      /\ run' \in {run, [run EXCEPT !.at = 1]}
      /\ run.pc = "cursor" => run' = run
  BY DEF LosesRace, CurrentEvents, history
<1>2. RunOK' /\ BatchProgress'
  BY <1>1 DEF Inv, RunOK, BatchProgress, github, stored
<1> QED
  BY <1>1, <1>2, RolledBackKeeps DEF Inv, StoredOK

LEMMA DuplicateKeeps ==
  ASSUME Inv, NEW e \in Outstanding, Duplicate(e)
  PROVE  Kept
<1>1. e \in Event
  BY OutstandingTyped
<1>2. /\ e.key \in inbox /\ Answered(e)
      /\ UNCHANGED <<now, issue, task, inbox, effects, barred, handler, cursor, leftOut>>
  BY DEF Duplicate, Seen, github, stored, history
<1>3. RunOK' /\ BatchProgress' /\ hooks' \subseteq hooks /\ faults' \in 0..MaxFaults
        /\ acked' \in {acked, acked \cup {e.key}}
  BY <1>1, <1>2, AnsweredKeeps
<1>4. e.key \in Key /\ effects[e.key] = 1
  BY <1>1, <1>2 DEF Event, EventKey, Inv, Counted
<1>5. [Promise!Next]_<<effects, acked>>
  BY <1>2, <1>3, <1>4 DEF Promise!Next, Promise!Acknowledge
<1> QED
  BY <1>2, <1>3, <1>5 DEF Kept, Inv, IssuesOK, StoredOK, HandlersApart, Counted, Holds

(* A user's edit or move of a task. *)
LEMMA UserKeeps ==
  ASSUME Inv, NEW i \in Issue, handler' \in {handler, Outdate(i, {})}, Fault,
         barred' \subseteq Issue,
         UNCHANGED <<github, hooks, stored, run, cursor, acked, leftOut>>
  PROVE  Kept
<1>1. faults' \in 0..MaxFaults
  BY BoundAssumption DEF Inv, StoredOK, Fault
<1>2. /\ handler' \in [Handler -> {None} \cup Work_]
      /\ \A h \in Handler : handler'[h] # None =>
           /\ handler[h] # None /\ handler'[h].event = handler[h].event
           /\ handler'[h].open = handler[h].open
  BY OutdateKeeps DEF Inv, StoredOK
<1>3. HandlersApart'
  BY <1>2 DEF Inv, HandlersApart, stored, Holds
<1> QED
  BY <1>1, <1>2, <1>3 DEF Kept, Inv, IssuesOK, StoredOK, RunOK, Counted, BatchProgress, stored, github

LEMMA UserEditsKeeps ==
  ASSUME Inv, NEW i \in Issue, UserEdits(i)
  PROVE  Kept
<1>1. /\ handler' = Outdate(i, {}) /\ Fault
      /\ UNCHANGED <<github, hooks, stored, barred, run, cursor, acked, leftOut>>
  BY DEF UserEdits, history
<1>2. barred' \subseteq Issue
  BY <1>1 DEF Inv, StoredOK
<1> QED
  BY <1>1, <1>2, UserKeeps

LEMMA UserMovesKeeps ==
  ASSUME Inv, NEW i \in Issue, UserMoves(i)
  PROVE  Kept
<1>1. /\ handler' \in {handler, Outdate(i, {})} /\ Fault
      /\ barred' \subseteq Issue
      /\ UNCHANGED <<github, hooks, stored, run, cursor, acked, leftOut>>
  BY DEF UserMoves, history, Inv, StoredOK
<1> QED
  BY <1>1, UserKeeps

(* The reconciliation flow. *)

LEMMA ReconcileStartKeeps == ASSUME Inv, ReconcileStart PROVE Kept
<1>1. /\ run' = [pc |-> "asked", list |-> <<>>, at |-> 1, since |-> cursor, started |-> now]
      /\ UNCHANGED <<github, hooks, stored, barred, handler, cursor, acked, leftOut, faults>>
  BY DEF ReconcileStart, history
<1>2. now \in 1..MaxTime /\ cursor \in 0..now
  BY DEF Inv, RunOK, IssuesOK, Time
<1>3. now \in 0..MaxTime /\ cursor \in 0..MaxTime /\ 1 \in Nat \ {0}
  BY <1>2, BoundAssumption
<1>4. RunOK' /\ BatchProgress'
  BY <1>1, <1>2, <1>3 DEF RunOK, BatchProgress, github
<1> QED
  BY <1>1, <1>4 DEF Kept, Inv, IssuesOK, StoredOK, HandlersApart, Counted, stored, github, history, Holds

(* A page lists issues that are there, each once. *)
LEMMA PageTyped ==
  ASSUME Inv, NEW since, NEW p \in Pages(since)
  PROVE  LET listed == ChangedSince(since)
         IN /\ p \in Seq(listed)
            /\ Len(p) \in {PageSize, Cardinality(listed)}
            /\ Len(p) <= Cardinality(listed) /\ Len(p) <= PageSize
            /\ \A m, n \in DOMAIN p : m < n => p[m] # p[n]
<1> DEFINE listed == ChangedSince(since)
           size == Min({PageSize, Cardinality(listed)})
<1>1. Cardinality(listed) \in Nat
  BY IssueAssumption, FS_Subset, FS_CardinalityType DEF ChangedSince
<1>2. /\ p \in [1..size -> listed]
      /\ \A m, n \in 1..size : m < n => p[m] # p[n] /\ Newer(p[m], p[n])
  BY DEF Pages
<1> HIDE DEF listed
<1>3. size \in {PageSize, Cardinality(listed)} /\ size <= PageSize /\ size <= Cardinality(listed)
  <2>1. \E x \in {PageSize, Cardinality(listed)} :
          \A y \in {PageSize, Cardinality(listed)} : x =< y
    BY <1>1, BoundAssumption
  <2> QED
    BY <2>1 DEF Min
<1>4. size \in Nat
  BY <1>1, <1>3, BoundAssumption
<1> HIDE DEF size
<1>5. p \in Seq(listed) /\ Len(p) = size /\ DOMAIN p = 1..size
  BY <1>2, <1>4
<1>6. \A m, n \in DOMAIN p : m < n => p[m] # p[n]
  BY <1>2, <1>5
<1> QED
  BY <1>3, <1>5, <1>6 DEF listed

(* The listing the flow gets, and what it says of the issues. *)
LEMMA ListedFacts ==
  ASSUME Inv, Listed
  PROVE  \E p \in Pages(Since(run.since)) :
           /\ run' = [run EXCEPT !.pc = "events", !.list = run'.list]
           /\ run'.list \in Seq(Listing)
           /\ DOMAIN run'.list = DOMAIN p
           /\ \A n \in DOMAIN p : p[n] \in Issue /\ run'.list[n].issue = p[n]
                                   /\ run'.list[n].updated = issue[p[n]].updated
           /\ leftOut' = leftOut \cup {<<i, issue[i].updated>> : i \in
                           ChangedSince(Since(run.since)) \ {p[n] : n \in DOMAIN p}}
<1>1. PICK p \in Pages(Since(run.since)) :
        /\ leftOut' = leftOut \cup {<<i, issue[i].updated>> : i \in
                        ChangedSince(Since(run.since)) \ {p[n] : n \in DOMAIN p}}
        /\ run' = [run EXCEPT !.pc = "events",
                  !.list = [n \in DOMAIN p |-> [issue |-> p[n], rev |-> issue[p[n]].rev,
                              open |-> issue[p[n]].open, updated |-> issue[p[n]].updated]]]
  BY DEF Listed, history
<1> DEFINE l == [n \in DOMAIN p |-> [issue |-> p[n], rev |-> issue[p[n]].rev,
                    open |-> issue[p[n]].open, updated |-> issue[p[n]].updated]]
           listed == ChangedSince(Since(run.since))
<1>2. p \in Seq(listed)
  BY PageTyped
<1>3. ASSUME NEW n \in DOMAIN p
      PROVE  p[n] \in Issue /\ l[n] \in Listing
  <2>1. p[n] \in listed
    BY <1>2
  <2>2. p[n] \in Issue /\ issue[p[n]].rev > 0
    BY <2>1 DEF ChangedSince
  <2>3. issue[p[n]] \in [rev : 0..MaxRev, open : BOOLEAN, updated : 0..MaxTime]
          /\ issue[p[n]].updated \in Time
    BY <2>2 DEF Inv, IssuesOK
  <2> QED
    BY <2>2, <2>3, BoundAssumption DEF Listing
<1>4. DOMAIN p = 1..Len(p) /\ Len(p) \in Nat
  BY <1>2
<1>5. l \in Seq(Listing) /\ DOMAIN l = DOMAIN p
  <2>1. l \in [1..Len(p) -> Listing]
    BY <1>3, <1>4
  <2> QED
    BY <1>4, <2>1
<1>6. \A n \in DOMAIN p : l[n].issue = p[n] /\ l[n].updated = issue[p[n]].updated
  OBVIOUS
<1> HIDE DEF l
<1>7. run' = [run EXCEPT !.pc = "events", !.list = l]
  BY <1>1 DEF l
<1>8. run'.list = l
  BY <1>7 DEF Inv, RunOK
<1> QED
  BY <1>1, <1>3, <1>5, <1>6, <1>7, <1>8

LEMMA ListedKeeps == ASSUME Inv, Listed PROVE Kept
<1>1. PICK p \in Pages(Since(run.since)) :
           /\ run' = [run EXCEPT !.pc = "events", !.list = run'.list]
           /\ run'.list \in Seq(Listing)
           /\ DOMAIN run'.list = DOMAIN p
           /\ \A n \in DOMAIN p : p[n] \in Issue /\ run'.list[n].issue = p[n]
                                   /\ run'.list[n].updated = issue[p[n]].updated
           /\ leftOut' = leftOut \cup {<<i, issue[i].updated>> : i \in
                           ChangedSince(Since(run.since)) \ {p[n] : n \in DOMAIN p}}
  BY ListedFacts
<1>2. run.pc = "asked" /\ UNCHANGED <<github, hooks, stored, barred, handler, cursor, acked, faults>>
  BY DEF Listed, history
<1>3. /\ run'.pc = "events" /\ run'.at = run.at /\ run'.since = run.since
      /\ run'.started = run.started
      /\ run' \in [pc : {"idle", "asked", "events", "cursor"}, list : Seq(Listing),
                  at : Nat \ {0}, since : 0..MaxTime, started : 0..MaxTime]
  BY <1>1 DEF Inv, RunOK
<1>4. \A n \in DOMAIN run'.list : run'.list[n].updated <= now
  BY <1>1 DEF Inv, IssuesOK
<1>5. run.at = 1 /\ Len(run'.list) \in Nat
  BY <1>1, <1>2 DEF Inv, RunOK
<1>6. RunOK'
  BY <1>2, <1>3, <1>4, <1>5 DEF Inv, RunOK, github
<1>7. BatchProgress'
  BY <1>3, <1>5 DEF BatchProgress
<1>8. leftOut' \subseteq Issue \X (0..MaxTime)
  BY <1>1 DEF Inv, IssuesOK, StoredOK, ChangedSince
<1> QED
  BY <1>2, <1>6, <1>7, <1>8 DEF Kept, Inv, IssuesOK, StoredOK, HandlersApart, Counted, stored, github, history, Holds

(* The cursor to come: reached by the clock, not before the run's own. *)
LEMMA NextCursorTyped ==
  ASSUME Inv, run.pc \in {"events", "cursor"}
  PROVE  /\ NextCursor \in 1..MaxTime /\ NextCursor <= now
         /\ NextCursor >= run.since
<1> DEFINE S == {run.since, run.started} \cup {run.list[n].updated : n \in DOMAIN run.list}
<1>1. now \in 1..MaxTime /\ run.since \in 0..now /\ run.started \in 1..now
  BY DEF Inv, IssuesOK, RunOK, Time
<1>2. \A n \in DOMAIN run.list : run.list[n] \in Listing
  BY DEF Inv, RunOK
<1>3. \A n \in DOMAIN run.list : run.list[n].updated \in 1..now
  BY <1>1, <1>2 DEF Listing, Time, Inv, RunOK
<1>4. S \in SUBSET (0..now) /\ S # {}
  BY <1>1, <1>3
<1> HIDE DEF S
<1>5. now \in Nat
  BY <1>1
<1>6. Max(S) \in S /\ \A y \in S : y <= Max(S)
  BY <1>4, <1>5, MaxIn
<1>7. run.since \in S /\ run.started \in S
  BY DEF S
<1>8. NextCursor = Max(S)
  BY DEF NextCursor, S
<1>9. Max(S) \in 0..now /\ run.since <= Max(S) /\ run.started <= Max(S)
  BY <1>4, <1>6, <1>7
<1> QED
  BY <1>1, <1>8, <1>9, BoundAssumption

LEMMA PostCursorKeeps == ASSUME Inv, PostCursor PROVE Kept
<1> DEFINE k == CursorKey(NextCursor)
<1>1. /\ run.pc = "events" /\ run.at > Len(run.list)
      /\ UNCHANGED <<github, hooks, barred, handler, cursor, leftOut, faults>>
      /\ IF k \in inbox THEN run' = Idle /\ UNCHANGED <<stored, acked>>
         ELSE /\ inbox' = inbox \cup {k} /\ effects' = [effects EXCEPT ![k] = @ + 1]
              /\ acked' = acked \cup {k} /\ run' = [run EXCEPT !.pc = "cursor"]
              /\ UNCHANGED task
  BY DEF PostCursor, BatchDone, history
<1>2. k \in Key /\ k.src = "cursor"
  BY <1>1, NextCursorTyped DEF CursorKey, Key, Time
<1> HIDE DEF k
<1>3. CASE k \in inbox
  <2>1. RunOK' /\ BatchProgress'
    BY <1>1, <1>3, IdleTyped DEF Inv, RunOK, BatchProgress, github
  <2> QED
    BY <1>1, <1>3, <2>1 DEF Kept, Inv, IssuesOK, StoredOK, HandlersApart, Counted, stored, github, history, Holds
<1>4. CASE k \notin inbox
  <2>1. /\ run' = [run EXCEPT !.pc = "cursor"] /\ inbox' = inbox \cup {k}
        /\ acked' = acked \cup {k} /\ task' = task
    BY <1>1, <1>4
  <2>2. effects[k] = 0 /\ effects' = [effects EXCEPT ![k] = 1]
    <3>1. effects[k] = 0
      BY <1>2, <1>4 DEF Inv, Counted
    <3>2. effects' = [effects EXCEPT ![k] = effects[k] + 1]
      BY <1>1, <1>4
    <3> QED
      BY <3>1, <3>2
  <2>3. RunOK' /\ BatchProgress'
    BY <1>1, <2>1 DEF Inv, RunOK, BatchProgress, github
  <2>4. StoredOK' /\ Counted'
    BY <1>1, <1>2, <2>1, <2>2 DEF Inv, StoredOK, Counted
  <2>5. HandlersApart'
    <3>1. \A h \in Handler : handler[h] # None => handler[h].event.key # k
      BY <1>2 DEF Inv, StoredOK, Work_, Event, EventKey
    <3> QED
      BY <1>1, <2>1, <3>1 DEF Inv, HandlersApart, Holds
  <2>6. Promise!Next
    BY <1>2, <2>1, <2>2 DEF Promise!Next, Promise!TakeEffect
  <2> QED
    BY <1>1, <2>3, <2>4, <2>5, <2>6 DEF Kept, Inv, IssuesOK, github
<1> QED
  BY <1>3, <1>4

LEMMA ObserveCursorKeeps == ASSUME Inv, ObserveCursor PROVE Kept
<1>1. /\ run.pc = "cursor" /\ run' = Idle
      /\ UNCHANGED <<github, hooks, stored, barred, handler, acked, leftOut>>
      /\ \/ cursor' = NextCursor /\ UNCHANGED faults
         \/ Fault /\ UNCHANGED cursor
  BY DEF ObserveCursor, history
<1>2. cursor' \in 0..now
  BY <1>1, NextCursorTyped DEF Inv, IssuesOK, RunOK, Time
<1>3. faults' \in 0..MaxFaults
  BY <1>1, BoundAssumption DEF Inv, StoredOK, Fault
<1>4. RunOK' /\ BatchProgress'
  BY <1>1, <1>2, IdleTyped DEF RunOK, BatchProgress, github
<1> QED
  BY <1>1, <1>3, <1>4 DEF Kept, Inv, IssuesOK, StoredOK, HandlersApart, Counted, stored, github, history, Holds

-----------------------------------------------------------------------------
LEMMA InitInv == Init => Inv
<1> SUFFICES ASSUME Init  PROVE Inv
  OBVIOUS
<1>1. IssuesOK /\ StoredOK
  BY BoundAssumption DEF Init, IssuesOK, StoredOK, Time
<1>2. RunOK /\ BatchProgress
  <2>1. run = Idle /\ now \in 0..MaxTime /\ cursor = 0 /\ now = 1
    BY BoundAssumption DEF Init
  <2> QED
    BY <2>1, IdleTyped DEF RunOK, BatchProgress
<1> QED
  BY <1>1, <1>2 DEF Init, Inv, HandlersApart, Counted, Holds

LEMMA StepKeeps == ASSUME Inv, [Next]_vars PROVE Kept
<1>1. CASE UNCHANGED vars
  BY <1>1 DEF Kept, Inv, IssuesOK, StoredOK, RunOK, HandlersApart, Counted, BatchProgress, vars, stored, github, history, Holds
<1>2. CASE Next
  BY <1>2, TickKeeps, ChangeKeeps, FastApplyKeeps, DuplicateKeeps, BeginKeeps, LoadAgainKeeps, CommitKeeps,
     RefuseKeeps, WaitKeeps, ProceedKeeps, LosesRaceKeeps, HandlerDiesKeeps, UserEditsKeeps, UserMovesKeeps, ReconcileStartKeeps, ListedKeeps, PostCursorKeeps,
     ObserveCursorKeeps DEF Next, Work, Answer, Reconcile
<1> QED
  BY <1>1, <1>2

(* Types, of every variable. *)
THEOREM SyncTypeCorrect == Spec => []TypeOK
<1>1. Init => Inv
  BY InitInv
<1>2. Inv /\ [Next]_vars => Inv'
  BY StepKeeps DEF Kept
<1>3. Inv => TypeOK
  <2> SUFFICES ASSUME Inv  PROVE TypeOK
    OBVIOUS
  <2>1. /\ now \in Time /\ issue \in [Issue -> [rev : 0..MaxRev, open : BOOLEAN, updated : 0..MaxTime]]
        /\ task \in [Issue -> [shows : 0..MaxRev, archived : BOOLEAN]]
        /\ inbox \subseteq Key /\ acked \subseteq Key /\ effects \in [Key -> Nat]
        /\ faults \in 0..MaxFaults
        /\ barred \subseteq Issue /\ leftOut \subseteq Issue \X (0..MaxTime)
    BY DEF Inv, IssuesOK, StoredOK
  <2>2. run.pc \in {"idle", "asked", "events", "cursor"} /\ run.at \in 1..(Len(run.list) + 1)
    BY DEF Inv, RunOK
  <2>3. cursor \in 0..MaxTime
    <3>1. cursor \in 0..now /\ now \in 1..MaxTime
      BY DEF Inv, IssuesOK, RunOK, Time
    <3> QED
      BY <3>1, BoundAssumption
  <2> QED
    BY <2>1, <2>2, <2>3 DEF TypeOK
<1> QED
  BY <1>1, <1>2, <1>3, PTL DEF Spec

(* However requests for one event overlap, repeat, fail or lose their      *)
(* answers, it takes effect once, and a caller told so can rely on it      *)
(* (applyConnectorInboxEvent).                                             *)
THEOREM InboxKeepsPromise == Spec => KeepsInboxPromise
<1>1. Init => Inv
  BY InitInv
<1>2. Inv /\ [Next]_vars => Inv'
  BY StepKeeps DEF Kept
<1>3. Inv /\ [Next]_vars => [Promise!Next]_<<effects, acked>>
  BY StepKeeps DEF Kept
<1>4. Init => Promise!Init
  BY DEF Init, Promise!Init
<1> QED
  BY <1>1, <1>2, <1>3, <1>4, PTL DEF Spec, KeepsInboxPromise, Promise!Spec, Promise!promiseVars

-----------------------------------------------------------------------------
(* The cursor. *)

(* While a run works on its listing: what GitHub shows as changed before   *)
(* the cursor to come is in the inbox, left out, or in the listing as it   *)
(* is now.                                                                 *)
ListingComplete ==
  run.pc \in {"events", "cursor"} =>
    \A i \in Issue : issue[i].rev > 0 /\ issue[i].updated < NextCursor =>
      \/ BackfillKey(i, issue[i].updated) \in inbox \/ LeftOut(i)
      \/ \E n \in DOMAIN run.list : run.list[n].issue = i /\ run.list[n].updated = issue[i].updated

CursorInv == Inv /\ CursorSound /\ ListingComplete

(* Steps that leave issues, cursor and listing alone. *)
LEMMA SameListing ==
  ASSUME CursorInv, UNCHANGED <<issue, cursor>>, inbox \subseteq inbox', leftOut \subseteq leftOut',
         run'.pc \in {"events", "cursor"} =>
           /\ run.pc \in {"events", "cursor"} /\ run'.list = run.list
           /\ run'.since = run.since /\ run'.started = run.started
  PROVE  CursorSound' /\ ListingComplete'
<1>1. CursorSound'
  BY DEF CursorInv, CursorSound, LeftOut
<1>2. ASSUME run'.pc \in {"events", "cursor"}
      PROVE  NextCursor' = NextCursor /\ run'.list = run.list /\ run.pc \in {"events", "cursor"}
  BY <1>2 DEF NextCursor
<1>3. ListingComplete'
  BY <1>2 DEF CursorInv, ListingComplete, LeftOut
<1> QED
  BY <1>1, <1>3

(* ... and the run too, or leave it without a listing. *)
LEMMA SameRun ==
  ASSUME CursorInv, issue' = issue, cursor' = cursor, inbox' = inbox, leftOut' = leftOut,
         run' = run \/ run'.pc \notin {"events", "cursor"}
  PROVE  CursorSound' /\ ListingComplete'
<1>1. inbox \subseteq inbox' /\ leftOut \subseteq leftOut'
  OBVIOUS
<1>2. run'.pc \in {"events", "cursor"} =>
        /\ run.pc \in {"events", "cursor"} /\ run'.list = run.list
        /\ run'.since = run.since /\ run'.started = run.started
  OBVIOUS
<1> QED
  BY <1>1, <1>2, SameListing

(* An answer moves at most the run's place in its listing. *)
LEMMA AnsweredListing ==
  ASSUME Inv, NEW e, Answered(e)
  PROVE  /\ run'.pc = run.pc /\ run'.list = run.list
         /\ run'.since = run.since /\ run'.started = run.started
<1>1. PICK lost \in BOOLEAN :
        run' = IF e \notin CurrentEvents THEN run
               ELSE [run EXCEPT !.at = IF lost THEN 1 ELSE run.at + 1]
  BY DEF Answered
<1> QED
  BY <1>1 DEF Inv, RunOK

(* A change is not before the cursor, the stored one or the one to come. *)
LEMMA ChangeCursor ==
  ASSUME CursorInv, NEW i \in Issue, NEW open \in BOOLEAN, Change(i, open)
  PROVE  CursorSound' /\ ListingComplete'
<1>1. /\ issue'[i].updated = now
      /\ \A j \in Issue \ {i} : issue'[j] = issue[j]
      /\ UNCHANGED <<now, inbox, run, cursor, leftOut>>
  BY DEF Change, CursorInv, Inv, IssuesOK, stored, history
<1>2. now \in Nat /\ cursor \in 0..now
  BY DEF CursorInv, Inv, IssuesOK, RunOK, Time
<1>3. CursorSound'
  BY <1>1, <1>2 DEF CursorInv, CursorSound, LeftOut
<1>4. run.pc \in {"events", "cursor"} => NextCursor \in Nat /\ NextCursor <= now
  BY NextCursorTyped DEF CursorInv
<1>5. NextCursor' = NextCursor
  BY <1>1 DEF NextCursor
<1>6. ListingComplete'
  BY <1>1, <1>2, <1>4, <1>5 DEF CursorInv, ListingComplete, LeftOut
<1> QED
  BY <1>3, <1>6

LEMMA ListedCursor ==
  ASSUME CursorInv, Listed
  PROVE  CursorSound' /\ ListingComplete'
<1>1. PICK p \in Pages(Since(run.since)) :
           /\ DOMAIN run'.list = DOMAIN p
           /\ \A n \in DOMAIN p : p[n] \in Issue /\ run'.list[n].issue = p[n]
                                   /\ run'.list[n].updated = issue[p[n]].updated
           /\ leftOut' = leftOut \cup {<<i, issue[i].updated>> : i \in
                           ChangedSince(Since(run.since)) \ {p[n] : n \in DOMAIN p}}
  BY ListedFacts DEF CursorInv
<1>2. run.pc = "asked" /\ UNCHANGED <<issue, inbox, cursor>> /\ leftOut \subseteq leftOut'
  BY DEF Listed, github, stored, history
<1>3. run.since = cursor /\ cursor \in Nat
  BY <1>2 DEF CursorInv, Inv, RunOK
<1>4. Since(run.since) \in Nat /\ Since(run.since) <= cursor
  BY <1>3, BoundAssumption DEF Since
<1>5. ASSUME NEW i \in Issue, issue[i].rev > 0
      PROVE  \/ BackfillKey(i, issue[i].updated) \in inbox \/ <<i, issue[i].updated>> \in leftOut'
             \/ \E n \in DOMAIN run'.list : run'.list[n].issue = i /\ run'.list[n].updated = issue[i].updated
  <2>1. issue[i].updated \in Nat
    BY DEF CursorInv, Inv, IssuesOK
  <2>2. CASE issue[i].updated < Since(run.since)
    <3>1. issue[i].updated < cursor
      BY <1>3, <1>4, <2>1, <2>2
    <3> QED
      BY <1>2, <1>5, <3>1 DEF CursorInv, CursorSound, LeftOut
  <2>3. CASE issue[i].updated >= Since(run.since)
    <3>1. i \in ChangedSince(Since(run.since))
      BY <1>5, <2>3 DEF ChangedSince
    <3>2. CASE \E n \in DOMAIN p : p[n] = i
      BY <1>1, <3>2
    <3>3. CASE ~ \E n \in DOMAIN p : p[n] = i
      BY <1>1, <3>1, <3>3
    <3> QED
      BY <3>2, <3>3
  <2> QED
    BY <1>4, <2>1, <2>2, <2>3
<1>6. ListingComplete'
  BY <1>2, <1>5 DEF ListingComplete, LeftOut
<1> QED
  BY <1>2, <1>6 DEF CursorInv, CursorSound, LeftOut

LEMMA ObserveCursorSound ==
  ASSUME CursorInv, ObserveCursor
  PROVE  CursorSound' /\ ListingComplete'
<1>1. /\ run.pc = "cursor" /\ run' = Idle /\ UNCHANGED <<issue, inbox, leftOut>>
      /\ cursor' \in {NextCursor, cursor}
  BY DEF ObserveCursor, github, stored, history
<1>2. \A n \in DOMAIN run.list : BackfillKey(run.list[n].issue, run.list[n].updated) \in inbox
  <2>1. run.list \in Seq(Listing) /\ run.at \in Nat /\ run.at > Len(run.list)
    BY <1>1 DEF CursorInv, Inv, RunOK
  <2>2. \A n \in DOMAIN run.list : n < run.at
    BY <2>1
  <2> QED
    BY <2>2 DEF CursorInv, Inv, BatchProgress
<1>3. \A i \in Issue : issue[i].rev > 0 /\ issue[i].updated < NextCursor
                          => BackfillKey(i, issue[i].updated) \in inbox \/ LeftOut(i)
  BY <1>1, <1>2 DEF CursorInv, ListingComplete
<1>4. CursorSound'
  BY <1>1, <1>3 DEF CursorInv, CursorSound, LeftOut
<1>5. ListingComplete'
  BY <1>1, IdleTyped DEF ListingComplete
<1> QED
  BY <1>4, <1>5

LEMMA CursorKept ==
  ASSUME CursorInv, [Next]_vars
  PROVE  CursorSound' /\ ListingComplete'
<1>1. CASE UNCHANGED vars
  <2>1. issue' = issue /\ cursor' = cursor /\ inbox' = inbox /\ leftOut' = leftOut /\ run' = run
    BY <1>1 DEF vars, github, stored, history
  <2> QED
    BY <2>1, SameRun
<1>2. CASE Tick
  <2>1. issue' = issue /\ cursor' = cursor /\ inbox' = inbox /\ leftOut' = leftOut /\ run' = run
    BY <1>2 DEF Tick, stored, history
  <2> QED
    BY <2>1, SameRun
<1>3. ASSUME NEW i \in Issue, NEW open \in BOOLEAN, Change(i, open)
      PROVE  CursorSound' /\ ListingComplete'
  BY <1>3, ChangeCursor
<1>4. ASSUME NEW e \in Outstanding, FastApply(e) \/ Duplicate(e)
      PROVE  CursorSound' /\ ListingComplete'
  <2>1. UNCHANGED <<issue, cursor>> /\ inbox \subseteq inbox' /\ leftOut' = leftOut /\ Answered(e)
    BY <1>4 DEF FastApply, Duplicate, Apply, github, stored, history
  <2> QED
    BY <2>1, AnsweredListing, SameListing DEF CursorInv
<1>5. ASSUME NEW h \in Handler, Work(h) \/ HandlerDies(h)
      PROVE  CursorSound' /\ ListingComplete'
  <2>1. CASE Commit(h)
    <3>1. UNCHANGED <<issue, cursor>> /\ inbox \subseteq inbox' /\ leftOut' = leftOut /\ Answered(handler[h].event)
      BY <2>1 DEF Commit, Apply, github, history, Holds
    <3> QED
      BY <3>1, AnsweredListing, SameListing DEF CursorInv
  <2>5. CASE LosesRace(h)
    <3>1. /\ UNCHANGED <<issue, cursor, leftOut>> /\ inbox \subseteq inbox'
          /\ run' \in {run, [run EXCEPT !.at = 1]}
      BY <2>5 DEF LosesRace, github, stored, history
    <3>2. /\ run'.pc = run.pc /\ run'.list = run.list
          /\ run'.since = run.since /\ run'.started = run.started
      BY <3>1 DEF CursorInv, Inv, RunOK
    <3> QED
      BY <3>1, <3>2, SameListing
  <2>2. CASE Refuse(h)
    <3>1. issue' = issue /\ cursor' = cursor /\ inbox' = inbox /\ leftOut' = leftOut /\ run' \in {Idle, run}
      BY <2>2 DEF Refuse, Refused, github, stored, history, Holds
    <3> QED
      BY <3>1, SameRun DEF Idle
  <2>3. CASE HandlerDies(h)
    <3>1. /\ UNCHANGED <<issue, cursor, leftOut>> /\ inbox \subseteq inbox'
          /\ run' \in {run, [run EXCEPT !.at = 1]}
      BY <2>3 DEF HandlerDies, github, stored, history
    <3>2. /\ run'.pc = run.pc /\ run'.list = run.list
          /\ run'.since = run.since /\ run'.started = run.started
      BY <3>1 DEF CursorInv, Inv, RunOK
    <3> QED
      BY <3>1, <3>2, SameListing
  <2>4. CASE LoadAgain(h) \/ Proceed(h) \/ \E e \in Outstanding : Begin(h, e) \/ Wait(h, e)
    <3>1. issue' = issue /\ cursor' = cursor /\ inbox' = inbox /\ leftOut' = leftOut /\ run' = run
      BY <2>4 DEF LoadAgain, Begin, Wait, Proceed, github, stored, history, Holds
    <3> QED
      BY <3>1, SameRun
  <2> QED
    BY <1>5, <2>1, <2>2, <2>3, <2>4, <2>5 DEF Work, Answer
<1>6. ASSUME NEW i \in Issue, UserEdits(i) \/ UserMoves(i)
      PROVE  CursorSound' /\ ListingComplete'
  <2>1. issue' = issue /\ cursor' = cursor /\ inbox' = inbox /\ leftOut' = leftOut /\ run' = run
    BY <1>6 DEF UserEdits, UserMoves, github, stored, history
  <2> QED
    BY <2>1, SameRun
<1>7. CASE ReconcileStart
  <2>1. issue' = issue /\ cursor' = cursor /\ inbox' = inbox /\ leftOut' = leftOut /\ run'.pc = "asked"
    BY <1>7 DEF ReconcileStart, github, stored, history
  <2> QED
    BY <2>1, SameRun
<1>8. CASE Listed
  BY <1>8, ListedCursor
<1>9. CASE PostCursor
  <2>1. run.pc = "events" /\ UNCHANGED <<issue, cursor, leftOut>> /\ inbox \subseteq inbox'
          /\ run' \in {Idle, [run EXCEPT !.pc = "cursor"]}
    BY <1>9 DEF PostCursor, BatchDone, github, stored, history
  <2>2. CASE run' = Idle
    <3>1. run'.pc = "idle"
      BY <2>2 DEF Idle
    <3> QED
      BY <2>1, <3>1, SameListing
  <2>3. CASE run' = [run EXCEPT !.pc = "cursor"]
    <3>1. /\ run.pc \in {"events", "cursor"} /\ run'.list = run.list
          /\ run'.since = run.since /\ run'.started = run.started
      BY <2>1, <2>3 DEF CursorInv, Inv, RunOK
    <3> QED
      BY <2>1, <3>1, SameListing
  <2> QED
    BY <2>1, <2>2, <2>3
<1>10. CASE ObserveCursor
  BY <1>10, ObserveCursorSound
<1> QED
  BY <1>1, <1>2, <1>3, <1>4, <1>5, <1>6, <1>7, <1>8, <1>9, <1>10 DEF Next, Reconcile

LEMMA CursorStep ==
  ASSUME CursorInv, [Next]_vars
  PROVE  CursorInv'
<1>1. Inv'
  BY StepKeeps DEF CursorInv, Kept
<1> QED
  BY <1>1, CursorKept DEF CursorInv

(* The stored cursor passes no change but those a full page left out,      *)
(* however changes, deaths, lost answers, races and repeated batches fall  *)
(* between the steps of a run, and for any page size                       *)
(* (github-issues-reconcile).                                              *)
THEOREM CursorSoundTheorem == Spec => []CursorSound
<1>1. Init => CursorInv
  BY InitInv, IdleTyped DEF Init, CursorInv, CursorSound, ListingComplete
<1>2. CursorInv /\ [Next]_vars => CursorInv'
  BY CursorStep
<1>3. CursorInv => CursorSound
  BY DEF CursorInv
<1> QED
  BY <1>1, <1>2, <1>3, PTL DEF Spec

=============================================================================
