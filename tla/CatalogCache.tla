---------------------------- MODULE CatalogCache ----------------------------
(***************************************************************************)
(* Hot changes of the catalogue of the llm-router: the write routes of the *)
(* console (apps/web/app/api/v1/llm) that change the tables, bump the      *)
(* version and notify (bump-version.ts), and one replica with its snapshot *)
(* (catalog-cache.ts, drizzle-catalog-store.ts): boot, notifications that  *)
(* may be lost, the polling behind them, coalesced refreshes that may      *)
(* fail, and stop().                                                       *)
(*                                                                         *)
(* Of the tables only what a snapshot can get wrong is kept: which         *)
(* credentials there are and which of them the one provider refers to,     *)
(* and, as history, which writes the tables contain.                       *)
(***************************************************************************)
EXTENDS Naturals, FiniteSets

CONSTANTS
  Editors,   \* one write of the console each
  Creds,
  NoCred

ASSUME CatalogAssumption == NoCred \notin Creds
ASSUME EditorsAssumption == IsFiniteSet(Editors)

\* Runs of refresh() at the same time; the code means to have one.
Slots == 1 .. 2

Tables == [done: SUBSET Editors, creds: SUBSET Creds, ref: Creds \cup {NoCred}]

Empty == [done |-> {}, creds |-> {}, ref |-> NoCred]

VARIABLES
  tables,    \* llm_providers and llm_credentials
  version,   \* llm_catalog_state.version
  writer,    \* writer[w]: its step, and the version its bump returned
  wire,      \* notifications under way
  snapshot,  \* of the replica; version 0: none yet
  run,       \* run[s]: a refresh, the version it read, the tables it reads
  pending, state, listening,
  owed       \* history: the newest version it was notified of and does not have

catalogVars ==
  <<tables, version, writer, wire, snapshot, run, pending, state, listening, owed>>

dbVars == <<tables, version, writer, wire>>
replicaVars == <<snapshot, run, pending, state, listening, owed>>

Idle == [pc |-> "none", version |-> 0, read |-> Empty]

CatalogTypeOK ==
  /\ tables \in Tables /\ version \in 1 .. Cardinality(Editors) + 1
  /\ writer \in [Editors -> [ pc: {"idle", "written", "bumped", "over"}, bump: 0 .. version ]]
  /\ wire \subseteq 2 .. version
  /\ snapshot \in [version: 0 .. version, of: Tables]
  /\ run \in [Slots -> [ pc: {"none", "read", "compare", "publish"},
                         version: 0 .. version, read: Tables ]]
  /\ state \in {"boot", "on", "stopped"}
  /\ pending \in BOOLEAN /\ listening \in BOOLEAN /\ owed \in 0 .. version

(* The replica boots, or is stopped (for models of several parts). *)
CatalogStart(st) ==
  /\ tables \in { t \in Tables : t.done = {} /\ t.ref \in t.creds \cup {NoCred} } /\ version = 1
  /\ writer = [w \in Editors |-> [pc |-> "idle", bump |-> 0]]
  /\ wire = {}
  /\ snapshot = [version |-> 0, of |-> Empty]
  /\ run = [s \in Slots |-> IF s = 1 /\ st = "boot" THEN [Idle EXCEPT !.pc = "read"] ELSE Idle]
  /\ pending = FALSE /\ state = st /\ listening = FALSE /\ owed = 0

CatalogInit == CatalogStart("boot")

-----------------------------------------------------------------------------
(* The write routes. *)

(* What one write may make of the tables; a credential that is referred to *)
(* is not deleted (ON DELETE RESTRICT).                                    *)
Written(t) ==
  { [t EXCEPT !.ref = c] : c \in t.creds \cup {NoCred} }
    \cup { [t EXCEPT !.creds = @ \cup {c}] : c \in Creds \ t.creds }
    \cup { [t EXCEPT !.creds = @ \ {c}] : c \in t.creds \ {t.ref} }

Goes(w, pc) == writer' = [writer EXCEPT ![w].pc = pc]

(* The statement of the store, committed. *)
Write(w) ==
  /\ writer[w].pc = "idle" /\ Goes(w, "written")
  /\ \E t \in Written(tables) : tables' = [t EXCEPT !.done = @ \cup {w}]
  /\ UNCHANGED <<version, wire, replicaVars>>

(* UPDATE ... SET version = version + 1. *)
Bump(w) ==
  /\ writer[w].pc = "written"
  /\ version' = version + 1
  /\ writer' = [writer EXCEPT ![w] = [pc |-> "bumped", bump |-> version + 1]]
  /\ UNCHANGED <<tables, wire, replicaVars>>

(* pg_notify, after the UPDATE was committed. *)
Notify(w) ==
  /\ writer[w].pc = "bumped" /\ Goes(w, "over")
  /\ wire' = wire \cup {writer[w].bump}
  /\ UNCHANGED <<tables, version, replicaVars>>

(* The bump or the notification fails, which the route swallows, or the *)
(* process of the console dies.                                         *)
WriterGivesUp(w) ==
  /\ writer[w].pc \in {"written", "bumped"} /\ Goes(w, "over")
  /\ UNCHANGED <<tables, version, wire, replicaVars>>

-----------------------------------------------------------------------------
(* The replica. *)

Refreshing == \E s \in Slots : run[s].pc # "none"

(* Mutant: every trigger starts a refresh of its own. *)
RefreshAlways ==
  /\ \E s \in Slots : run[s].pc = "none" /\ run' = [run EXCEPT ![s] = [Idle EXCEPT !.pc = "read"]]
  /\ UNCHANGED pending

(* refresh(): one at a time; a trigger that comes during it is remembered. *)
Refresh ==
  IF Refreshing
  THEN pending' = TRUE /\ UNCHANGED run
  ELSE run' = [run EXCEPT ![1] = [Idle EXCEPT !.pc = "read"]] /\ UNCHANGED pending

(* Mutant: a replica that could not LISTEN does not poll either. *)
PollIfListening ==
  /\ state = "on" /\ listening /\ Refresh
  /\ UNCHANGED <<dbVars, snapshot, state, listening, owed>>

(* The timer, which start() sets when the first refresh is over. *)
Poll ==
  /\ state = "on" /\ Refresh
  /\ UNCHANGED <<dbVars, snapshot, state, listening, owed>>

(* A notification arrives, or is lost where nobody listens (any more). *)
Deliver(n) ==
  /\ n \in wire /\ wire' = wire \ {n}
  /\ \/ /\ listening /\ Refresh
        /\ owed' = IF n > owed /\ n > snapshot.version THEN n ELSE owed
     \/ UNCHANGED <<run, pending, owed>>
  /\ UNCHANGED <<tables, version, writer, snapshot, state, listening>>

(* start() goes on after the first refresh; LISTEN may fail. *)
Started ==
  /\ state = "boot" /\ ~ Refreshing
  /\ state' = "on" /\ listening' \in BOOLEAN
  /\ UNCHANGED <<dbVars, snapshot, run, pending, owed>>

StopListening ==
  /\ state # "stopped" /\ state' = "stopped"
  /\ pending' = FALSE /\ listening' = FALSE
  /\ UNCHANGED <<dbVars, snapshot, run, owed>>

(* readVersion() is executed. *)
ReadVersion(s) ==
  /\ run[s].pc = "read"
  /\ run' = [run EXCEPT ![s].pc = "compare", ![s].version = version]
  /\ UNCHANGED <<dbVars, snapshot, pending, state, listening, owed>>

(* The end of a refresh: what came meanwhile is made up for by one more. *)
Ends(s) ==
  IF pending /\ state # "stopped"
  THEN run' = [run EXCEPT ![s] = [Idle EXCEPT !.pc = "read"]] /\ pending' = FALSE
  ELSE run' = [run EXCEPT ![s] = Idle] /\ UNCHANGED pending

(* The version has not changed: the function returns, and with it the     *)
(* refresh that is pending.                                               *)
Unchanged(s) ==
  /\ run[s].pc = "compare" /\ snapshot.version = run[s].version
  /\ run' = [run EXCEPT ![s] = Idle]
  /\ UNCHANGED <<dbVars, snapshot, pending, state, listening, owed>>

(* The first SELECT of the repeatable-read transaction. *)
Load(s) ==
  /\ run[s].pc = "compare" /\ snapshot.version # run[s].version
  /\ run' = [run EXCEPT ![s].pc = "publish", ![s].read = tables]
  /\ UNCHANGED <<dbVars, snapshot, pending, state, listening, owed>>

(* Mutant: under read committed the credentials are those of now. *)
PublishReadCommitted(s) ==
  /\ run[s].pc = "publish"
  /\ snapshot' = [version |-> run[s].version, of |-> [run[s].read EXCEPT !.creds = tables.creds]]
  /\ Ends(s)
  /\ owed' = IF owed > run[s].version THEN owed ELSE 0
  /\ UNCHANGED <<dbVars, state, listening>>

(* Its last SELECT; the snapshot is published. *)
Publish(s) ==
  /\ run[s].pc = "publish"
  /\ snapshot' = [version |-> run[s].version, of |-> run[s].read]
  /\ Ends(s)
  /\ owed' = IF owed > run[s].version THEN owed ELSE 0
  /\ UNCHANGED <<dbVars, state, listening>>

(* A statement fails: the old snapshot is kept, and nothing is owed until *)
(* the next trigger.                                                      *)
RefreshFails(s) ==
  /\ run[s].pc # "none"
  /\ owed' = 0 /\ Ends(s)
  /\ UNCHANGED <<dbVars, snapshot, state, listening>>

Proceed(s) == ReadVersion(s) \/ Unchanged(s) \/ Load(s) \/ Publish(s)

CatalogNext ==
  \/ \E w \in Editors : Write(w) \/ Bump(w) \/ Notify(w) \/ WriterGivesUp(w)
  \/ \E n \in wire : Deliver(n)
  \/ Poll \/ Started \/ StopListening
  \/ \E s \in Slots : Proceed(s) \/ RefreshFails(s)

CatalogSpec == CatalogInit /\ [][CatalogNext]_catalogVars

(* The timer fires, and the database does not fail for ever. *)
CatalogFairness ==
  /\ WF_catalogVars(Poll) /\ WF_catalogVars(Started)
  /\ WF_catalogVars(\E s \in Slots : Unchanged(s))
  /\ SF_catalogVars(\E s \in Slots : ReadVersion(s))
  /\ SF_catalogVars(\E s \in Slots : Load(s))
  /\ SF_catalogVars(\E s \in Slots : Publish(s))

-----------------------------------------------------------------------------
(* Properties. *)

(* A snapshot with a version contains every write whose bump made that     *)
(* version or an earlier one, because the write is committed before its    *)
(* bump and the version is read before the tables.  Otherwise the write    *)
(* would be missed for good: the polls would find the version unchanged.   *)
SnapshotCurrent ==
  \A w \in Editors :
    writer[w].bump # 0 /\ writer[w].bump <= snapshot.version => w \in snapshot.of.done

(* A provider of the snapshot never refers to a credential that is not in  *)
(* it, whatever was deleted while it was loaded: its calls would go out    *)
(* without a key.                                                          *)
NoHole == snapshot.of.ref # NoCred => snapshot.of.ref \in snapshot.of.creds

(* A snapshot is one of the states the tables went through, and a late one *)
(* as far as its version can tell.                                         *)
SnapshotSound == SnapshotCurrent /\ NoHole

(* No refresh publishes an older version over a newer one. *)
NeverBack == [][snapshot'.version >= snapshot.version]_catalogVars

(* Whatever notifications are lost and however often refreshes fail, the   *)
(* bumped writes are in the snapshot of a running replica in the end.      *)
AllSeen == { w \in Editors : writer[w].bump # 0 } \subseteq snapshot.of.done
BumpedIsSeen == []<>(AllSeen \/ state = "stopped")

(* catalog-cache.ts: a notification that comes during a refresh is made up *)
(* for when it ends.  So a replica that is not refreshing, and whose       *)
(* refreshes did not fail, owes no version it was notified of.             *)
NotifiedIsSeen == ~ Refreshing /\ state = "on" => owed = 0

\* What NeverBack and SnapshotCurrent need of the refresh under way.
ReadInTime ==
  \A s \in Slots :
    /\ run[s].version <= version
    /\ run[s].pc = "publish" =>
         \A w \in Editors : writer[w].bump # 0 /\ writer[w].bump <= run[s].version
                              => w \in run[s].read.done
=============================================================================
