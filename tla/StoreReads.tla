------------------------------ MODULE StoreReads ------------------------------
(***************************************************************************)
(* How reads meet concurrent writes.  With Prism, one store object serves  *)
(* all requests of a server and keeps what it has read (PrismStore's       *)
(* caches).  With Postgres reads go to the tables, and QueryService keeps  *)
(* the snapshot of a project under the version of the activity log.        *)
(*                                                                         *)
(* A behaviour watches one read, `entry': what it derives from decides     *)
(* which commits matter to it, and reads of other entries do not change    *)
(* it.  A value is the number of commits it was computed from.             *)
(***************************************************************************)
EXTENDS Naturals, Sequences

CONSTANTS
  Fact,           \* kinds of objects, relations and tags
  Entry,          \* what is read and kept
  Fresh,          \* the entries that promise to show what was answered
  DependsOn,      \* DependsOn[e]: the facts e is derived from
  InvalidatedBy,  \* InvalidatedBy[f]: what a write of f makes the store forget
  Writes,         \* the sets of facts the services commit together
  Expiring,       \* the entries with a time to live
  Retried,        \* the entries whose promise is dropped when it fails
  Writer,         \* requests that write
  Reader,         \* requests that read
  MaxCommits      \* bound: commits

ASSUME BoundAssumption == MaxCommits \in Nat
ASSUME FreshAssumption == Fresh \subseteq Entry

VARIABLES
  backend,  \* "prism" or "postgres"
  entry,    \* the entry watched
  log,      \* for each commit, in the order they landed, if it touches the entry
  acked,    \* positions in log of the commits this server has answered for
  cache,    \* PrismStore: the promise or the value kept for the entry
  writer,   \* what each writing request has submitted, and where it landed
  reader,   \* reads under way
  snapshot  \* QueryService: the snapshot kept by each reading request

vars == <<backend, entry, log, acked, cache, writer, reader, snapshot>>

Idle == [pc |-> "idle"]
Empty == [kind |-> "empty"]
Rejected == [kind |-> "rejected"]
NoSnapshot == [kept |-> FALSE, version |-> 0, list |-> 0]

Init ==
  /\ backend \in {"prism", "postgres"}
  /\ entry \in Entry
  /\ log = <<>>
  /\ acked = {}
  /\ cache = Empty
  /\ writer = [w \in Writer |-> Idle]
  /\ reader = [r \in Reader |-> Idle]
  /\ snapshot = [r \in Reader |-> NoSnapshot]

-----------------------------------------------------------------------------
(* Writing. *)

(* The commit changes what the entry is derived from ... *)
Touches(ops) == ops \cap DependsOn[entry] # {}

(* ... or makes the store forget it: invalidateReadCaches. *)
Forgets(ops) == \E f \in ops : entry \in InvalidatedBy[f]

(* flush: the buffered operations of a transaction are submitted.  What    *)
(* they are to the entry is all that is kept of them.                      *)
Submit(w) ==
  /\ writer[w].pc = "idle"
  /\ writer' \in {[writer EXCEPT ![w] =
                    [pc |-> "submitted", touches |-> Touches(ops), forgets |-> Forgets(ops)]] : ops \in Writes}
  /\ UNCHANGED <<backend, entry, log, acked, cache, reader, snapshot>>

(* The database commits them. *)
Land(w) ==
  /\ writer[w].pc = "submitted"
  /\ Len(log) < MaxCommits
  /\ log' = Append(log, writer[w].touches)
  /\ writer' = [writer EXCEPT ![w] =
                  [pc |-> "landed", forgets |-> writer[w].forgets, at |-> Len(log) + 1]]
  /\ UNCHANGED <<backend, entry, acked, cache, reader, snapshot>>

(* A promise forgotten is not put back when it is answered. *)
CacheAfter(w) == IF backend = "prism" /\ writer[w].forgets THEN Empty ELSE cache

(* The answer arrives, and the request is told so. *)
Acknowledge(w) ==
  /\ writer[w].pc = "landed"
  /\ acked' = acked \cup {writer[w].at}
  /\ cache' = CacheAfter(w)
  /\ writer' = [writer EXCEPT ![w] = Idle]
  /\ UNCHANGED <<backend, entry, log, reader, snapshot>>

(* The commit fails, or its answer is lost: nothing is forgotten. *)
WriteFails(w) ==
  /\ writer[w].pc # "idle"
  /\ writer' = [writer EXCEPT ![w] = Idle]
  /\ UNCHANGED <<backend, entry, log, acked, cache, reader, snapshot>>

(* Another process commits. *)
LandElsewhere ==
  /\ Len(log) < MaxCommits
  /\ log' \in {Append(log, Touches(ops)) : ops \in Writes}
  /\ UNCHANGED <<backend, entry, acked, cache, writer, reader, snapshot>>

-----------------------------------------------------------------------------
(* Reading from Prism: cachedRows, readTags, matchTaskIds.  The entry is   *)
(* kept as a promise from the moment it is asked for.                      *)

Promised(r) == [kind |-> "promise", by |-> r]

Ask(r) ==
  /\ backend = "prism"
  /\ reader[r].pc = "idle"
  /\ IF cache = Empty
     THEN /\ cache' = Promised(r)
          /\ reader' = [reader EXCEPT ![r] = [pc |-> "asked"]]
     ELSE UNCHANGED <<cache, reader>>
  /\ UNCHANGED <<backend, entry, log, acked, writer, snapshot>>

(* The runtime computes the answer ... *)
Compute(r) ==
  /\ backend = "prism"
  /\ reader[r].pc = "asked"
  /\ reader' = [reader EXCEPT ![r] = [pc |-> "computed", at |-> Len(log)]]
  /\ UNCHANGED <<backend, entry, log, acked, cache, writer, snapshot>>

(* Faulty: the answer is put into the cache when it arrives. *)
PutBack(r) == [kind |-> "value", at |-> reader[r].at]

CacheAnswered(r) ==
  IF cache = Promised(r) THEN [kind |-> "value", at |-> reader[r].at] ELSE cache

(* ... which arrives ... *)
Answer(r) ==
  /\ backend = "prism"
  /\ reader[r].pc = "computed"
  /\ cache' = CacheAnswered(r)
  /\ reader' = [reader EXCEPT ![r] = Idle]
  /\ UNCHANGED <<backend, entry, log, acked, writer, snapshot>>

(* ... or fails.  matcherResultCache and tagReadCache keep the rejected    *)
(* promise, and later reads fail with it.                                  *)
Fail(r) ==
  /\ backend = "prism"
  /\ reader[r].pc \in {"asked", "computed"}
  /\ cache' = IF cache # Promised(r) THEN cache
              ELSE IF entry \in Retried THEN Empty ELSE Rejected
  /\ reader' = [reader EXCEPT ![r] = Idle]
  /\ UNCHANGED <<backend, entry, log, acked, writer, snapshot>>

(* The time to live is over. *)
Expire ==
  /\ backend = "prism"
  /\ entry \in Expiring /\ cache # Empty
  /\ cache' = Empty
  /\ UNCHANGED <<backend, entry, log, acked, writer, reader, snapshot>>

-----------------------------------------------------------------------------
(* Reading a snapshot from Postgres: projectSnapshot.  Every commit adds   *)
(* to the activity log, and the log's count is in its version.             *)

ReadVersion(r) ==
  /\ backend = "postgres"
  /\ reader[r].pc = "idle"
  /\ reader' = [reader EXCEPT ![r] = [pc |-> "version", version |-> Len(log)]]
  /\ UNCHANGED <<backend, entry, log, acked, cache, writer, snapshot>>

Hit(r) == snapshot[r].kept /\ reader[r].version = snapshot[r].version

(* The version is that of the snapshot kept: it is used again. *)
ReuseSnapshot(r) ==
  /\ backend = "postgres"
  /\ reader[r].pc = "version" /\ Hit(r)
  /\ reader' = [reader EXCEPT ![r] = Idle]
  /\ UNCHANGED <<backend, entry, log, acked, cache, writer, snapshot>>

(* Faulty: the version is read again when the lists are there. *)
VersionAfterwards(r) == Len(log)

VersionKept(r) == reader[r].version

(* The lists are read one by one; the one watched at any time after the    *)
(* version.                                                                *)
ListEntry(r) ==
  /\ backend = "postgres"
  /\ reader[r].pc = "version" /\ ~Hit(r)
  /\ reader' = [reader EXCEPT ![r] =
                  [pc |-> "listed", version |-> reader[r].version, list |-> Len(log)]]
  /\ UNCHANGED <<backend, entry, log, acked, cache, writer, snapshot>>

KeepSnapshot(r) ==
  /\ backend = "postgres"
  /\ reader[r].pc = "listed"
  /\ snapshot' = [snapshot EXCEPT ![r] = [kept |-> TRUE, version |-> VersionKept(r), list |-> reader[r].list]]
  /\ reader' = [reader EXCEPT ![r] = Idle]
  /\ UNCHANGED <<backend, entry, log, acked, cache, writer>>

-----------------------------------------------------------------------------
Next ==
  \/ \E w \in Writer : Submit(w) \/ Land(w) \/ Acknowledge(w) \/ WriteFails(w)
  \/ LandElsewhere
  \/ \E r \in Reader : Ask(r) \/ Compute(r) \/ Answer(r) \/ Fail(r)
  \/ Expire
  \/ \E r \in Reader : ReadVersion(r) \/ ReuseSnapshot(r) \/ ListEntry(r) \/ KeepSnapshot(r)

Spec == Init /\ [][Next]_vars

-----------------------------------------------------------------------------
ReadsTypeOK ==
  /\ backend \in {"prism", "postgres"} /\ entry \in Entry
  /\ log \in Seq(BOOLEAN) /\ Len(log) <= MaxCommits
  /\ acked \subseteq 1..Len(log)
  /\ \/ cache \in {Empty, Rejected}
     \/ \E r \in Reader : cache = Promised(r)
     \/ cache.kind = "value" /\ cache.at \in 0..Len(log)
  /\ \A w \in Writer : writer[w].pc = "landed" => writer[w].at \in 1..Len(log)
  /\ \A r \in Reader : snapshot[r].version <= snapshot[r].list /\ snapshot[r].list <= Len(log)

(* What a request was told is written shows in every later read of a fresh *)
(* entry from this server: no kept value is older than an answered commit  *)
(* that matters, however fetches, commits, failures and other processes    *)
(* interleave (PrismStore.flush, cachedRows).                              *)
AnsweredCommitsShow ==
  entry \in Fresh /\ cache.kind = "value" => \A m \in acked : log[m] => m <= cache.at

(* A snapshot that is used again is the project as it is when the version  *)
(* is read, although its lists were read one by one (projectSnapshot).     *)
SnapshotCurrent ==
  \A r \in Reader :
    reader[r].pc = "version" /\ Hit(r)
      => \A m \in 1..reader[r].version : log[m] => m <= snapshot[r].list

=============================================================================
