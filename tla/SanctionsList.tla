---------------------------- MODULE SanctionsList ----------------------------
(***************************************************************************)
(* The sanctions list on its way from the publisher into the memory every  *)
(* transfer is screened against: the refresh task of the worker            *)
(* (compliance/worker.go, sdn.go), the table sanctions_entities            *)
(* (postgres/compliance_repo.go), the reload ticker of each process and    *)
(* SanctionsScreener (compliance/sanctions.go).  An entity is one listed   *)
(* party; whether its address or its name gives it away is the request's.  *)
(***************************************************************************)
EXTENDS Naturals, FiniteSets

CONSTANTS
  Party,                        \* counterparties that may be listed
  Refresher,                    \* refresh tasks that may run at once, all in the worker
  MaxEditions, MaxListFaults    \* bounds on new editions; on failed calls and restarts

ASSUME ListBounds == {MaxEditions, MaxListFaults} \subseteq Nat

Process == {"api", "worker"}
Edition == (SUBSET Party) \ {{}}
Unread == {}

VARIABLES
  published, editions,          \* the publisher's current edition; how many followed the first
  constant,                     \* history: parties on every edition so far
  entities, replica,            \* table sanctions_entities; the read replica's copy of it
  fpc, parsed,                  \* a refresh task: position; what it downloaded
  older,                        \* older[r]: rows and tasks stamped before r took its refreshedAt
  audit,                        \* status of the last sanctions_list_updates row
  loaded, memory,               \* SanctionsSet of a process
  snapshot,                     \* {rows}: what LoadFromRepository has read and not yet applied
  listFaults

listVars == <<published, editions, constant, entities, replica, fpc, parsed, older, audit, loaded, memory, snapshot, listFaults>>
theList == <<published, editions, constant>>
tables == <<entities, replica>>
tasks == <<fpc, parsed, older>>
sets == <<loaded, memory, snapshot>>

ListTypeOK ==
  /\ published \in Edition /\ constant \subseteq published /\ editions \in 0..MaxEditions
  /\ entities \subseteq Party /\ replica \subseteq Party
  /\ fpc \in [Refresher -> {"idle", "parsed", "stamped", "apply", "record"}]
  /\ parsed \in [Refresher -> SUBSET Party]
  /\ older \in [Refresher -> [rows : SUBSET Party, tasks : SUBSET Refresher]]
  /\ audit \in {"none", "success", "failed"}
  /\ loaded \in [Process -> BOOLEAN] /\ memory \in [Process -> SUBSET Party]
  /\ snapshot \in [Process -> SUBSET SUBSET Party] /\ \A p \in Process : Cardinality(snapshot[p]) <= 1
  /\ listFaults \in 0..MaxListFaults

NoneOlder == [rows |-> {}, tasks |-> {}]

ListInit ==
  /\ published \in Edition /\ editions = 0 /\ constant = published
  /\ entities = {} /\ replica = {}
  /\ fpc = [r \in Refresher |-> "idle"] /\ parsed = [r \in Refresher |-> {}]
  /\ older = [r \in Refresher |-> NoneOlder] /\ audit = "none"
  /\ loaded = [p \in Process |-> FALSE] /\ memory = [p \in Process |-> {}]
  /\ snapshot = [p \in Process |-> Unread] /\ listFaults = 0

ListFault == listFaults < MaxListFaults /\ listFaults' = listFaults + 1
-----------------------------------------------------------------------------
(* The publisher (external). *)
Publish ==
  /\ editions < MaxEditions /\ editions' = editions + 1
  /\ published' \in Edition \ {published} /\ constant' = constant \cap published'
  /\ UNCHANGED <<tables, tasks, audit, sets, listFaults>>

(* The replica applies what the primary committed (external). *)
Replicate ==
  /\ replica # entities /\ replica' = entities
  /\ UNCHANGED <<theList, entities, tasks, audit, sets, listFaults>>
-----------------------------------------------------------------------------
(* Seeded fault: an empty list is applied like any other. *)
ReplaceAny(p, list) == memory' = [memory EXCEPT ![p] = list] /\ loaded' = [loaded EXCEPT ![p] = TRUE]

(* SanctionsSet.Replace: wholesale, and an empty list is ignored. *)
Replace(p, list) ==
  IF list = {} THEN UNCHANGED <<memory, loaded>>
  ELSE memory' = [memory EXCEPT ![p] = list] /\ loaded' = [loaded EXCEPT ![p] = TRUE]

(* HandleRefreshSanctions of a failed refresh: the audit row, which may     *)
(* itself fail, and the error that asynq retries.                           *)
EndRefresh(r, status) ==
  /\ fpc' = [fpc EXCEPT ![r] = "idle"]
  /\ parsed' = [parsed EXCEPT ![r] = {}]
  /\ older' = [q \in Refresher |-> IF q = r THEN NoneOlder ELSE [older[q] EXCEPT !.tasks = @ \ {r}]]
  /\ audit' \in {status, audit}

(* Fetch and ParseSDN.  A download that fails, does not parse or parses to  *)
(* no entity ends the refresh.                                              *)
Download(r) ==
  /\ fpc[r] = "idle"
  /\ \/ fpc' = [fpc EXCEPT ![r] = "parsed"] /\ parsed' = [parsed EXCEPT ![r] = published]
        /\ UNCHANGED <<older, audit, listFaults>>
     \/ ListFault /\ EndRefresh(r, "failed")
  /\ UNCHANGED <<theList, tables, sets>>

(* refreshedAt: later than every stamp of the table and of the tasks under  *)
(* way.                                                                     *)
Stamp(r) ==
  /\ fpc[r] = "parsed" /\ fpc' = [fpc EXCEPT ![r] = "stamped"]
  /\ older' = [older EXCEPT ![r] = [rows |-> entities, tasks |-> {q \in Refresher : fpc[q] = "stamped"}]]
  /\ UNCHANGED <<theList, tables, parsed, audit, sets, listFaults>>

(* Seeded fault: the rows the new list no longer has are kept. *)
UpsertOnly(r) == parsed[r] \cup entities

(* Seeded fault: rows the table did not have are not inserted. *)
UpdateOnly(r) == parsed[r] \cap entities

(* The upserts give the list's rows the stamp of r; the DELETE of the same  *)
(* transaction takes the rows stamped earlier.                              *)
ReplacedRows(r) == parsed[r] \cup (entities \ older[r].rows)

(* ReplaceSanctionsEntities.  Seen by a task that stamped earlier the       *)
(* list's rows are now newer, by one that stamped later they are older.     *)
ReplaceSanctionsEntities(r) ==
  /\ fpc[r] = "stamped"
  /\ \/ /\ fpc' = [fpc EXCEPT ![r] = "apply"] /\ entities' = ReplacedRows(r)
        /\ older' = [q \in Refresher |-> [older[q] EXCEPT
                       !.rows = IF r \in older[q].tasks THEN @ \cup parsed[r] ELSE @ \ parsed[r]]]
        /\ UNCHANGED <<parsed, audit, listFaults>>
     \/ ListFault /\ EndRefresh(r, "failed") /\ UNCHANGED entities
  /\ UNCHANGED <<theList, replica, sets>>

(* The worker's own set follows at once, from the parsed list. *)
ApplyOwn(r) ==
  /\ fpc[r] = "apply" /\ fpc' = [fpc EXCEPT ![r] = "record"] /\ Replace("worker", parsed[r])
  /\ UNCHANGED <<theList, tables, parsed, older, audit, snapshot, listFaults>>

RecordSanctionsUpdate(r) ==
  /\ fpc[r] = "record" /\ EndRefresh(r, "success")
  /\ UNCHANGED <<theList, tables, sets, listFaults>>
-----------------------------------------------------------------------------
(* LoadFromRepository, at start and at every tick of StartReloader: the     *)
(* rows are listed from the replica and applied later.  A load that fails   *)
(* leaves the set as it is.                                                 *)
ListSanctionsEntities(p) ==
  /\ snapshot[p] = Unread /\ snapshot' = [snapshot EXCEPT ![p] = {replica}]
  /\ UNCHANGED <<theList, tables, tasks, audit, loaded, memory, listFaults>>

ApplyLoaded(p) ==
  /\ \E rows \in snapshot[p] : Replace(p, rows)
  /\ snapshot' = [snapshot EXCEPT ![p] = Unread]
  /\ UNCHANGED <<theList, tables, tasks, audit, listFaults>>

(* A process restarts with no set; the worker's tasks are lost with it. *)
RestartProcess(p) ==
  /\ ListFault
  /\ loaded' = [loaded EXCEPT ![p] = FALSE] /\ memory' = [memory EXCEPT ![p] = {}]
  /\ snapshot' = [snapshot EXCEPT ![p] = Unread]
  /\ IF p = "worker" THEN /\ fpc' = [r \in Refresher |-> "idle"] /\ parsed' = [r \in Refresher |-> {}]
                          /\ older' = [r \in Refresher |-> NoneOlder]
                     ELSE UNCHANGED tasks
  /\ UNCHANGED <<theList, tables, audit>>

ListNext ==
  \/ Publish \/ Replicate
  \/ \E r \in Refresher : \/ Download(r) \/ Stamp(r) \/ ReplaceSanctionsEntities(r) \/ ApplyOwn(r)
                          \/ RecordSanctionsUpdate(r)
  \/ \E p \in Process : ListSanctionsEntities(p) \/ ApplyLoaded(p) \/ RestartProcess(p)

ListSpec == ListInit /\ [][ListNext]_listVars
-----------------------------------------------------------------------------
(* Seeded fault: a set that was never loaded clears. *)
PassUnloaded(p, x, by) == IF x \notin memory[p] THEN "clear" ELSE IF by = "address" THEN "blocked" ELSE "hold"

(* SanctionsScreener.Screen of a payment to x, known to the request by its  *)
(* address or by a name close to the listed one.                            *)
SanctionsVerdict(p, x, by) ==
  IF ~loaded[p] THEN "error"
  ELSE IF x \notin memory[p] THEN "clear"
  ELSE IF by = "address" THEN "blocked" ELSE "hold"

(* A party on every edition so far is never cleared, whatever downloads     *)
(* fail or come back empty, whichever process restarts and however          *)
(* refreshes and reloads overlap: the screener fails closed.                *)
FailsClosed == \A p \in Process, x \in constant, by \in {"address", "name"} : SanctionsVerdict(p, x, by) # "clear"

(* A recorded success means a list is in the table, now and after every     *)
(* later refresh that failed or came back empty.                            *)
StatusIsTrue == audit = "success" => entities # {}

(* The edition the publisher stays with is in the end exactly what every    *)
(* process screens against: new parties are caught, delisted ones released. *)
EditionArrives == <>[](\A p \in Process : loaded[p] /\ memory[p] = published)

(* A party that was on every edition is cleared by no process, and a        *)
(* recorded success is true (Screen, ReplaceSanctionsEntities).             *)
ListSafe ==
  /\ ListTypeOK
  /\ FailsClosed
  /\ StatusIsTrue
=============================================================================
