------------------------------ MODULE Schedule ------------------------------
(***************************************************************************)
(* Scheduled payouts: internal/schedule (handler, service, worker) and     *)
(* internal/postgres/schedule_repo.go.  The API and the worker both read a *)
(* row, work on the copy, and write the whole row back by its id alone.    *)
(* Time is counted in days; a weekly schedule is one of a longer interval. *)
(* Wallets, asset and amount of a schedule play no part in what follows.   *)
(***************************************************************************)
EXTENDS Naturals, FiniteSets

CONSTANTS
  ScheduleId, Runner, Client,   \* rows, runs of schedule:run, API requests
  NoSchedule,                   \* the row does not exist
  Never,                        \* an end_at that is NULL
  Interval,                     \* frequency -> days (AddInterval)
  EnumKnowsRunning,             \* schedule_status has 'processing' and 'failed'
  EndDate,                      \* end_at values that requests use, Never included
  LastDay                       \* bound on the clock

ASSUME IntervalsAdvance == Interval \in [DOMAIN Interval -> Nat \ {0}]
ASSUME LastDayIsNat == LastDay \in Nat
ASSUME EnumIsBoolean == EnumKnowsRunning \in BOOLEAN
ASSUME EndDates == Never \notin Nat /\ Never \in EndDate /\ EndDate \subseteq Nat \cup {Never}

VARIABLES
  srow, day,                    \* the table and the clock
  spc, sjobs, scopy,            \* a run: position, copies listed, copy at work
  acopy,                        \* a PATCH or DELETE between GetByID and Update
  planned, started, fired,      \* history: values of next_run_at, claims, transfers
  skipped, stale                \* history: jumped over on resume; outdated writes

tableVars == <<srow, day>>
runVars == <<spc, sjobs, scopy>>
planVars == <<planned, started, fired, skipped, stale>>
scheduleVars == <<srow, day, spc, sjobs, scopy, acopy, planned, started, fired, skipped, stale>>

ScheduleStatus == {"active", "processing", "failed", "paused", "cancelled", "completed"}
Schedule == [status : ScheduleStatus, freq : DOMAIN Interval, next : Nat, end : Nat \cup {Never}]
Copy == [id : ScheduleId, row : Schedule]
ASSUME NoScheduleIsNoRow == NoSchedule \notin Schedule

None == [id |-> NoSchedule]
Done == [id |-> Never]

ScheduleInit ==
  /\ srow = [s \in ScheduleId |-> NoSchedule] /\ day = 0
  /\ spc = [r \in Runner |-> "idle"]
  /\ sjobs = [r \in Runner |-> {}] /\ scopy = [r \in Runner |-> None]
  /\ acopy = [c \in Client |-> None]
  /\ planned = [s \in ScheduleId |-> {}] /\ fired = [s \in ScheduleId |-> {}]
  /\ skipped = [s \in ScheduleId |-> {}] /\ stale = [s \in ScheduleId |-> 0]
  /\ started = [s \in ScheduleId |-> [t \in 0..LastDay |-> 0]]
-----------------------------------------------------------------------------
(* The two ways next_run_at moves on. *)
AddInterval(t, freq) == t + Interval[freq]

(* Seeded fault: the loop stops at an occurrence that is due today. *)
RollToToday(t, freq) ==
  IF t >= day THEN t
  ELSE t + Interval[freq] * (((day - t) + Interval[freq] - 1) \div Interval[freq])

(* The loop of Update: the first occurrence after today. *)
RollForward(t, freq) ==
  IF t > day THEN t
  ELSE t + Interval[freq] * (((day - t) \div Interval[freq]) + 1)

(* UPDATE schedules SET ... WHERE id = $1: whoever writes, writes all.  A   *)
(* write is outdated when the row is no longer the one the copy came from.  *)
UpdateRow(s, seen, new) ==
  /\ srow' = [srow EXCEPT ![s] = new]
  /\ planned' = [planned EXCEPT ![s] = @ \cup {new.next}]
  /\ stale' = [stale EXCEPT
       ![s] = IF srow[s].status = seen.status /\ srow[s].next = seen.next THEN @ ELSE @ + 1]
-----------------------------------------------------------------------------
(* The worker: one run of schedule:run. *)

IsDue(s) == srow[s] # NoSchedule /\ srow[s].status = "active" /\ srow[s].next <= day

(* ListDue reads all due rows at once; runOne works on these copies. *)
ListDue(r) ==
  /\ spc[r] = "idle" /\ sjobs[r] = {}
  /\ sjobs' = [sjobs EXCEPT ![r] = {[id |-> s, row |-> srow[s]] : s \in {x \in ScheduleId : IsDue(x)}}]
  /\ sjobs'[r] # {}
  /\ UNCHANGED <<tableVars, spc, scopy, acopy, planVars>>

(* Seeded fault: WHERE id = $3 AND next_run_at = $5, without the status. *)
ClaimableByTime(j) == srow[j.id].next = j.row.next

(* Seeded fault: the expected time is compared with now, not with the row. *)
ClaimableToday(j) == srow[j.id].status = "active" /\ srow[j.id].next = day

(* WHERE id = $3 AND status = $4 AND next_run_at = $5 *)
Claimable(j) ==
  srow[j.id].status = "active" /\ srow[j.id].next = j.row.next

(* Claim succeeds: the row is processing from here on. *)
ClaimDue(r, j) ==
  /\ EnumKnowsRunning
  /\ spc[r] = "idle" /\ j \in sjobs[r] /\ Claimable(j)
  /\ srow' = [srow EXCEPT ![j.id].status = "processing"]
  /\ started' = [started EXCEPT ![j.id][j.row.next] = @ + 1]
  /\ sjobs' = [sjobs EXCEPT ![r] = @ \ {j}]
  /\ scopy' = [scopy EXCEPT ![r] = j] /\ spc' = [spc EXCEPT ![r] = "initiate"]
  /\ UNCHANGED <<day, acopy, planned, fired, skipped, stale>>

(* Another run has it, it is no longer due, or the statement failed. *)
PassOver(r, j) ==
  /\ spc[r] = "idle" /\ j \in sjobs[r]
  /\ sjobs' = [sjobs EXCEPT ![r] = @ \ {j}]
  /\ UNCHANGED <<tableVars, spc, scopy, acopy, planVars>>

(* InitiateTransfer: done, refused, or an error after the row was inserted.  *)
InitiateDue(r) ==
  /\ spc[r] = "initiate"
  /\ \E made \in BOOLEAN :
       /\ fired' = [fired EXCEPT ![scopy[r].id] = IF made THEN @ \cup {scopy[r].row.next} ELSE @]
       /\ \E pc \in (IF made THEN {"advance", "refused"} ELSE {"refused"}) :
            spc' = [spc EXCEPT ![r] = pc]
  /\ UNCHANGED <<tableVars, sjobs, scopy, acopy, planned, started, skipped, stale>>

(* Seeded fault: a transfer that could not be initiated is passed over. *)
AdvancedAnyway(r) ==
  LET row == scopy[r].row
      next == AddInterval(row.next, row.freq)
  IN  [row EXCEPT !.next = next, !.status = "active"]

(* What runOne writes at the end: the copy it listed, moved on or failed. *)
Outcome(r) ==
  LET row == scopy[r].row
      next == AddInterval(row.next, row.freq)
  IN  IF spc[r] = "refused" THEN [row EXCEPT !.status = "failed"]
      ELSE [row EXCEPT !.next = next,
              !.status = IF row.end # Never /\ next > row.end THEN "completed" ELSE "active"]

FinishRun(r) ==
  /\ spc[r] \in {"advance", "refused"}
  /\ UpdateRow(scopy[r].id, [scopy[r].row EXCEPT !.status = "processing"], Outcome(r))
  /\ spc' = [spc EXCEPT ![r] = "idle"] /\ scopy' = [scopy EXCEPT ![r] = None]
  /\ UNCHANGED <<day, sjobs, acopy, started, fired, skipped>>

(* The process dies, or the final UPDATE fails and is logged. *)
DropRun(r) ==
  /\ spc[r] # "idle"
  /\ spc' = [spc EXCEPT ![r] = "idle"] /\ scopy' = [scopy EXCEPT ![r] = None]
  /\ sjobs' = [sjobs EXCEPT ![r] = {}]
  /\ UNCHANGED <<tableVars, acopy, planVars>>
-----------------------------------------------------------------------------
(* The API. *)

(* What POST /v1/schedules lets through: no relation of start, end and now. *)
CreateInput == [freq : DOMAIN Interval, start : 0..LastDay, end : EndDate]

(* What PATCH lets through; a field that is not given keeps its value, so   *)
(* end_at can be moved and not taken away.                                  *)
UpdateInput ==
  [status : {"", "active", "paused"}, freq : DOMAIN Interval \cup {""}, end : EndDate]

InsertSchedule(s, row) == srow' = [srow EXCEPT ![s] = row]

CreateSchedule(s, in) ==
  /\ srow[s] = NoSchedule
  /\ InsertSchedule(s, [status |-> "active", freq |-> in.freq, next |-> in.start, end |-> in.end])
  /\ planned' = [planned EXCEPT ![s] = {in.start}]
  /\ UNCHANGED <<day, runVars, acopy, started, fired, skipped, stale>>

(* GetByID of PATCH and DELETE. *)
ReadSchedule(c, s) ==
  /\ acopy[c] = None /\ srow[s] # NoSchedule
  /\ acopy' = [acopy EXCEPT ![c] = [id |-> s, row |-> srow[s]]]
  /\ UNCHANGED <<tableVars, runVars, planVars>>

Changed(row, in) ==
  LET freq == IF in.freq = "" THEN row.freq ELSE in.freq
  IN  [status |-> IF in.status = "" THEN row.status ELSE in.status,
       freq   |-> freq,
       next   |-> IF in.status = "active" THEN RollForward(row.next, freq) ELSE row.next,
       end    |-> IF in.end = Never THEN row.end ELSE in.end]

WriteSchedule(c, new) ==
  LET a == acopy[c] IN
  /\ a \in Copy
  /\ UpdateRow(a.id, a.row, new)
  /\ skipped' = [skipped EXCEPT ![a.id] = @ \cup {t \in planned[a.id] : a.row.next <= t /\ t < new.next}]
  /\ acopy' = [acopy EXCEPT ![c] = Done]
  /\ UNCHANGED <<day, runVars, started, fired>>

UpdateSchedule(c, in) == acopy[c] \in Copy /\ WriteSchedule(c, Changed(acopy[c].row, in))
CancelSchedule(c) == acopy[c] \in Copy /\ WriteSchedule(c, [acopy[c].row EXCEPT !.status = "cancelled"])

(* The request ends before its UPDATE. *)
DropRequest(c) ==
  /\ acopy[c] \in Copy
  /\ acopy' = [acopy EXCEPT ![c] = Done]
  /\ UNCHANGED <<tableVars, runVars, planVars>>

NextDay ==
  /\ day < LastDay /\ day' = day + 1
  /\ UNCHANGED <<srow, runVars, acopy, planVars>>
-----------------------------------------------------------------------------
RunStep(r) ==
  \/ ListDue(r)
  \/ \E j \in sjobs[r] : ClaimDue(r, j) \/ PassOver(r, j)
  \/ InitiateDue(r) \/ FinishRun(r) \/ DropRun(r)

ApiStep ==
  \/ \E s \in ScheduleId, in \in CreateInput : CreateSchedule(s, in)
  \/ \E c \in Client :
       \/ \E s \in ScheduleId : ReadSchedule(c, s)
       \/ \E in \in UpdateInput : UpdateSchedule(c, in)
       \/ CancelSchedule(c) \/ DropRequest(c)

ScheduleNext == (\E r \in Runner : RunStep(r)) \/ ApiStep \/ NextDay
ScheduleSpec == ScheduleInit /\ [][ScheduleNext]_scheduleVars
-----------------------------------------------------------------------------
ScheduleTypeOK ==
  /\ srow \in [ScheduleId -> Schedule \cup {NoSchedule}] /\ day \in 0..LastDay
  /\ spc \in [Runner -> {"idle", "initiate", "advance", "refused"}]
  /\ sjobs \in [Runner -> SUBSET Copy]
  /\ scopy \in [Runner -> Copy \cup {None}] /\ acopy \in [Client -> Copy \cup {None, Done}]
  /\ planned \in [ScheduleId -> SUBSET Nat] /\ fired \in [ScheduleId -> SUBSET Nat]
  /\ skipped \in [ScheduleId -> SUBSET Nat] /\ stale \in [ScheduleId -> Nat]
  /\ started \in [ScheduleId -> [0..LastDay -> Nat]]

(* "the worker claims it (so two workers never fire it twice)": every run    *)
(* beyond the first for one occurrence is paid for by a write that put back  *)
(* an outdated copy of the row; races of workers alone never cause one.      *)
RunsOncePerOccurrence ==
  \A s \in ScheduleId : \A t \in 0..LastDay : started[s][t] <= 1 + stale[s]

(* worker.go:61, "avoid blind advancement and skipping occurrences": until a *)
(* copy is written back outdated, every time next_run_at has left behind got *)
(* its transfer or was jumped over by a resume, whatever failed or died.     *)
NoOccurrenceLost ==
  \A s \in ScheduleId : srow[s] # NoSchedule /\ stale[s] = 0 =>
    \A t \in planned[s] : t < srow[s].next => t \in fired[s] \cup skipped[s]

(* worker.go:26, "It fires every due, active schedule": a due schedule is    *)
(* claimed, moved or changed in the end.                                     *)
DueIsTaken ==
  \A s \in ScheduleId, t \in 0..LastDay :
    (IsDue(s) /\ srow[s].next = t) ~> ~(IsDue(s) /\ srow[s].next = t)

(* docs/FEATURES_EXPLAINED.md:77 without the exception: holds only if no     *)
(* request overlaps a run.                                                   *)
NeverTwice == \A s \in ScheduleId : \A t \in 0..LastDay : started[s][t] <= 1

(* Overlapping runs alone never pay an occurrence twice, and none is passed  *)
(* over without its transfer, whatever fails or dies: only an outdated copy  *)
(* of the row, written back whole, can do either (ListDue, runOne).          *)
ScheduleSafe ==
  /\ ScheduleTypeOK
  /\ RunsOncePerOccurrence
  /\ NoOccurrenceLost
=============================================================================
