------------------------------ MODULE Anchors ------------------------------
(***************************************************************************)
(* SEP-6/10/24 anchors: internal/anchor (registry, stellar.toml, clients), *)
(* internal/fiat/anchor_service.go and internal/postgres/anchor_repo.go.   *)
(* The registry is a cache of the anchors table in the API process, filled *)
(* at start and by each registration; a transfer is opened at the anchor   *)
(* first and recorded afterwards; a record follows the anchor by polling.  *)
(***************************************************************************)
EXTENDS Naturals, Sequences, FiniteSets, SequencesExt

CONSTANTS
  Home, AssetCode,              \* home domains, codes of CURRENCIES
  Registrar, Transfer, Poller,  \* requests: registrations, transfers, status queries
  NoAnchor, NoRecord,
  MaxRestarts                   \* bound on restarts of the API process

ASSUME MaxRestartsIsNat == MaxRestarts \in Nat

VARIABLES
  anchors,                      \* the table: home -> row or NoAnchor
  byID, byAsset,                \* the registry's two maps
  reg,                          \* a registration: its row, and how far it is
  xfer, remote,                 \* a transfer: the anchor chosen and position; its state there
  record,                       \* the table anchor_transactions
  poll,                         \* a status query: transfer, status in the copy, status seen
  stamp, restarts               \* the clock of registered_at; the bound

anchorVars == <<anchors, byID, byAsset, reg, xfer, remote, record, poll, stamp, restarts>>
registryVars == <<anchors, byID, byAsset, reg, stamp>>
transferVars == <<xfer, remote, record, poll>>

AnchorRow ==
  [home : Home, sep6 : BOOLEAN, sep24 : BOOLEAN, assets : SUBSET AssetCode, at : Nat]
RemoteStatus == {"none", "incomplete", "pending_user_transfer_start", "completed", "error"}
AnchorTransaction ==
  [anchor : Home, kind : {"deposit", "withdrawal"}, status : RemoteStatus, completedAt : BOOLEAN]

ASSUME HomesAreFinite == IsFiniteSet(Home)
ASSUME NoRowIsNothing == NoAnchor \notin AnchorRow \cup Home /\ NoRecord \notin AnchorTransaction

IdleReg == [pc |-> "idle", row |-> NoAnchor]
IdlePoll == [pc |-> "idle", tx |-> NoRecord, copy |-> "none", seen |-> "none"]

AnchorInit ==
  /\ anchors = [h \in Home |-> NoAnchor]
  /\ byID = {} /\ byAsset = [c \in AssetCode |-> <<>>]
  /\ reg = [g \in Registrar |-> IdleReg]
  /\ xfer = [x \in Transfer |-> [pc |-> "none", anchor |-> NoAnchor, kind |-> "deposit"]]
  /\ remote = [x \in Transfer |-> "none"] /\ record = [x \in Transfer |-> NoRecord]
  /\ poll = [q \in Poller |-> IdlePoll]
  /\ stamp = 0 /\ restarts = 0
-----------------------------------------------------------------------------
(* FetchStellarToml: only a document with at least one transfer server is    *)
(* accepted (SIGNING_KEY and WEB_AUTH_ENDPOINT are required as well).        *)
TomlInfo == {d \in [sep6 : BOOLEAN, sep24 : BOOLEAN, assets : SUBSET AssetCode] : d.sep6 \/ d.sep24}

(* ListAnchors: rows of the table, ORDER BY registered_at ASC. *)
ListAnchors(homes) ==
  CHOOSE s \in SetToSeqs(homes) : \A i, j \in DOMAIN s : i < j => anchors[s[i]].at <= anchors[s[j]].at

(* index(a) on the map by asset. *)
Index(map, row) ==
  [c \in AssetCode |-> IF c \in row.assets THEN Append(map[c], row.home) ELSE map[c]]

ResolveForAsset(c) == IF byAsset[c] = <<>> THEN NoAnchor ELSE Head(byAsset[c])

(* Register up to the time stamp. *)
FetchAnchor(g, h, info) ==
  /\ reg[g] = IdleReg
  /\ reg' = [reg EXCEPT ![g] = [pc |-> "create",
       row |-> [home |-> h, sep6 |-> info.sep6, sep24 |-> info.sep24, assets |-> info.assets, at |-> stamp]]]
  /\ stamp' = stamp + 1
  /\ UNCHANGED <<anchors, byID, byAsset, transferVars, restarts>>

(* CreateAnchor: home_domain is UNIQUE, so a second insert fails. *)
CreateAnchor(g) ==
  LET row == reg[g].row IN
  /\ reg[g].pc = "create"
  /\ \/ /\ anchors[row.home] = NoAnchor
        /\ anchors' = [anchors EXCEPT ![row.home] = row]
        /\ reg' = [reg EXCEPT ![g].pc = "index"]
     \/ reg' = [reg EXCEPT ![g].pc = "done"] /\ UNCHANGED anchors
  /\ UNCHANGED <<byID, byAsset, transferVars, stamp, restarts>>

(* The registry's lock is taken for the index alone. *)
IndexAnchor(g) ==
  /\ reg[g].pc = "index"
  /\ byID' = byID \cup {reg[g].row.home} /\ byAsset' = Index(byAsset, reg[g].row)
  /\ reg' = [reg EXCEPT ![g].pc = "done"]
  /\ UNCHANGED <<anchors, transferVars, stamp, restarts>>

(* Seeded fault: only anchors with SEP-6 are loaded. *)
LoadSep6 ==
  LET rows == {h \in Home : anchors[h] # NoAnchor /\ anchors[h].sep6}
  IN  [ids |-> rows, maps |-> [c \in AssetCode |-> ListAnchors({h \in rows : c \in anchors[h].assets})]]

(* Load: every row is indexed, in the order of the list. *)
Load ==
  LET rows == {h \in Home : anchors[h] # NoAnchor}
  IN  [ids |-> rows, maps |-> [c \in AssetCode |-> ListAnchors({h \in rows : c \in anchors[h].assets})]]

(* The process starts again: every request is gone, the registry is loaded.  *)
Restart ==
  /\ restarts < MaxRestarts /\ restarts' = restarts + 1
  /\ byID' = Load.ids /\ byAsset' = Load.maps
  /\ reg' = [g \in Registrar |-> IF reg[g].pc = "idle" THEN IdleReg ELSE [reg[g] EXCEPT !.pc = "done"]]
  /\ xfer' = [x \in Transfer |-> IF xfer[x].pc = "record" THEN [xfer[x] EXCEPT !.pc = "done"] ELSE xfer[x]]
  /\ poll' = [q \in Poller |-> IdlePoll]
  /\ UNCHANGED <<anchors, remote, record, stamp>>
-----------------------------------------------------------------------------
(* InitiateDeposit and InitiateWithdrawal: SEP-6 if the anchor has it, else  *)
(* SEP-24.  The record starts with a status of FlowX's own choosing.         *)
InitiateSep6Deposit == "incomplete"
InitiateSep6Withdrawal == "pending_user_transfer_start"
GetInteractiveUrl == "incomplete"

FirstStatus(h, kind) ==
  IF ~anchors[h].sep6 THEN GetInteractiveUrl
  ELSE IF kind = "deposit" THEN InitiateSep6Deposit ELSE InitiateSep6Withdrawal

(* The answer may be lost after the anchor has opened the transfer. *)
OpenTransfer(x, c, kind) ==
  /\ xfer[x].pc = "none" /\ ResolveForAsset(c) # NoAnchor
  /\ \/ /\ remote' = [remote EXCEPT ![x] = "incomplete"]
        /\ \E pc \in {"record", "done"} :
             xfer' = [xfer EXCEPT ![x] = [pc |-> pc, anchor |-> ResolveForAsset(c), kind |-> kind]]
     \/ xfer' = [xfer EXCEPT ![x].pc = "done"] /\ UNCHANGED remote
  /\ UNCHANGED <<registryVars, record, poll, restarts>>

(* CreateTransaction, or its failure: then nobody knows of the transfer. *)
RecordTransfer(x) ==
  LET t == xfer[x] IN
  /\ t.pc = "record"
  /\ \/ record' = [record EXCEPT ![x] = [anchor |-> t.anchor, kind |-> t.kind,
                     status |-> FirstStatus(t.anchor, t.kind), completedAt |-> FALSE]]
     \/ UNCHANGED record
  /\ xfer' = [xfer EXCEPT ![x].pc = "done"]
  /\ UNCHANGED <<registryVars, remote, poll, restarts>>

(* The anchor's side. *)
RemoteStep(x) ==
  /\ \/ remote[x] = "incomplete"
        /\ \E s \in {"pending_user_transfer_start", "error"} : remote' = [remote EXCEPT ![x] = s]
     \/ remote[x] = "pending_user_transfer_start"
        /\ \E s \in {"completed", "error"} : remote' = [remote EXCEPT ![x] = s]
  /\ UNCHANGED <<registryVars, xfer, record, poll, restarts>>
-----------------------------------------------------------------------------
(* GetTransaction. *)
GetTransactionByID(q, x) ==
  /\ poll[q] = IdlePoll /\ record[x] # NoRecord /\ record[x].anchor \in byID
  /\ poll' = [poll EXCEPT ![q] = [pc |-> "ask", tx |-> x, copy |-> record[x].status, seen |-> "none"]]
  /\ UNCHANGED <<registryVars, xfer, remote, record, restarts>>

(* The query to the anchor; an error ends the request. *)
PollTransaction(q) ==
  /\ poll[q].pc = "ask"
  /\ \/ /\ remote[poll[q].tx] # poll[q].copy
        /\ poll' = [poll EXCEPT ![q].pc = "write", ![q].seen = remote[poll[q].tx]]
     \/ poll' = [poll EXCEPT ![q] = IdlePoll]
  /\ UNCHANGED <<registryVars, xfer, remote, record, restarts>>

(* Seeded fault: any final status closes the record. *)
ClosingStatus(s) == s \in {"completed", "error"}

SetsCompletedAt(s) == s = "completed"

(* UPDATE ... WHERE id = $3: the last writer wins, however old its answer.   *)
UpdateTransactionStatus(q) ==
  /\ poll[q].pc = "write"
  /\ record' = [record EXCEPT ![poll[q].tx].status = poll[q].seen,
                              ![poll[q].tx].completedAt = SetsCompletedAt(poll[q].seen)]
  /\ poll' = [poll EXCEPT ![q] = IdlePoll]
  /\ UNCHANGED <<registryVars, xfer, remote, restarts>>
-----------------------------------------------------------------------------
PollStep(q) == PollTransaction(q) \/ UpdateTransactionStatus(q)

AnchorNext ==
  \/ \E g \in Registrar :
       \/ \E h \in Home, info \in TomlInfo : FetchAnchor(g, h, info)
       \/ CreateAnchor(g) \/ IndexAnchor(g)
  \/ \E x \in Transfer :
       \/ \E c \in AssetCode, kind \in {"deposit", "withdrawal"} : OpenTransfer(x, c, kind)
       \/ RecordTransfer(x) \/ RemoteStep(x)
       \/ \E q \in Poller : GetTransactionByID(q, x)
  \/ \E q \in Poller : PollStep(q)
  \/ Restart

AnchorSpec == AnchorInit /\ [][AnchorNext]_anchorVars
-----------------------------------------------------------------------------
AnchorTypeOK ==
  /\ anchors \in [Home -> AnchorRow \cup {NoAnchor}]
  /\ byID \subseteq Home /\ byAsset \in [AssetCode -> Seq(Home)]
  /\ reg \in [Registrar -> [pc : {"create", "index", "done"}, row : AnchorRow] \cup {IdleReg}]
  /\ xfer \in [Transfer -> [pc : {"none", "record", "done"}, anchor : Home \cup {NoAnchor},
                            kind : {"deposit", "withdrawal"}]]
  /\ remote \in [Transfer -> RemoteStatus]
  /\ record \in [Transfer -> AnchorTransaction \cup {NoRecord}]
  /\ poll \in [Poller -> [pc : {"ask", "write"}, tx : Transfer, copy : RemoteStatus, seen : RemoteStatus]
                         \cup {IdlePoll}]
  /\ stamp \in Nat /\ restarts \in 0..MaxRestarts

(* The registry is the table: every row is known by its id and listed once   *)
(* under each of its assets, but for rows whose registration is under way.   *)
RegistryIsTable ==
  LET known == {h \in Home : anchors[h] # NoAnchor
                  /\ ~\E g \in Registrar : reg[g].pc = "index" /\ reg[g].row.home = h}
  IN  /\ byID = known
      /\ \A c \in AssetCode :
           /\ ToSet(byAsset[c]) = {h \in known : c \in anchors[h].assets}
           /\ IsInjective(byAsset[c])

(* A recorded transfer can be polled: its anchor is in the registry, after   *)
(* any number of restarts.                                                   *)
RecordsCanBePolled ==
  \A x \in Transfer : record[x] # NoRecord => record[x].anchor \in byID

(* A record is closed only for a transfer the anchor completed, however the  *)
(* answers of overlapping status queries are ordered.                        *)
ClosedIsCompleted ==
  \A x \in Transfer : record[x] # NoRecord /\ record[x].completedAt =>
    remote[x] = "completed" /\ record[x].status = "completed"

(* registry.go:130, "If multiple anchors support the asset, the first one    *)
(* registered is used": true of what Load builds.  Between restarts the list *)
(* is in the order of the inserts' returns, which may differ.                *)
FirstRegisteredIsUsed ==
  \A c \in AssetCode, h \in Home :
    h \in ToSet(byAsset[c]) => anchors[ResolveForAsset(c)].at <= anchors[h].at

(* The registry of anchors agrees with its table between registrations and  *)
(* over restarts, a record can be polled, and one is closed only for a      *)
(* transfer the anchor completed (Registry.Register, Load, GetTransaction). *)
AnchorSafe ==
  /\ AnchorTypeOK
  /\ RegistryIsTable
  /\ RecordsCanBePolled
  /\ ClosedIsCompleted
=============================================================================
