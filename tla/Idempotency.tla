------------------------------ MODULE Idempotency ------------------------------
(***************************************************************************)
(* Idempotency-Key: the middleware, the table idempotency_records and the   *)
(* handler it guards. A request runs through the calls of TryAcquire, the   *)
(* handler and Complete; each database statement is a step, because other   *)
(* requests with the same key run between them. A key stands for one        *)
(* (org, key) pair, a body for the hash of method, path and body.           *)
(***************************************************************************)
EXTENDS Naturals, FiniteSets

CONSTANTS
  Request, Key, Body,
  Nobody,
  HandlerChecks,    \* TRUE for POST /v1/transfers, whose service looks the key
                    \* up among the transfers; FALSE for the other endpoints
  MaxExpiries       \* bound: how often the record of one key runs out

ASSUME NobodyIsNoRequest == Nobody \notin Request
ASSUME ExpiriesIsNat == MaxExpiries \in Nat
ASSUME ChecksIsBoolean == HandlerChecks \in BOOLEAN

VARIABLES
  pc,         \* where each request is
  keyOf, bodyOf,
  rec,        \* idempotency_records, one row at most per key (unique index)
  lock,       \* who holds FOR UPDATE on the row of a key
  transfers,  \* the operations carried out under a key, named by their request
  reply,      \* what the handler of a request answered
  answer,     \* what the client of a request received
  expiries    \* history: how often the record of a key ran out

request == <<keyOf, bodyOf>>
vars == <<pc, request, rec, lock, transfers, reply, answer, expiries>>

Row == [id : Request \cup {Nobody}, hash : Body \cup {Nobody},
        status : {"absent", "processing", "complete"},
        result : Request \cup {Nobody}, live : BOOLEAN]
NoRow == [id |-> Nobody, hash |-> Nobody, status |-> "absent", result |-> Nobody, live |-> FALSE]
NewRow(r) == [id |-> r, hash |-> bodyOf[r], status |-> "processing",
              result |-> Nobody, live |-> TRUE]

(* An HTTP answer: its meaning (the operation it reports; Nobody for a         *)
(* handler's error) and its bytes, as the handler wrote them or as the JSONB   *)
(* column gives them back. `kind` tells the middleware's own answers apart.    *)
Answer(kind, of, text) == [kind |-> kind, of |-> of, text |-> text]
Unanswered == Answer("none", Nobody, "none")
Refusal(kind) == Answer(kind, Nobody, "none")

Acquiring == {"insert", "lookup", "reading", "clear", "reinsert", "relookup", "rereading"}
Running == {"check", "create", "complete"}
K(r) == keyOf[r]

Init ==
  /\ pc = [r \in Request |-> "idle"]
  /\ keyOf \in [Request -> Key] /\ bodyOf \in [Request -> Body]
  /\ rec = [k \in Key |-> NoRow]
  /\ lock = [k \in Key |-> Nobody]
  /\ transfers = [k \in Key |-> {}]
  /\ reply = [r \in Request |-> Nobody]
  /\ answer = [r \in Request |-> Unanswered]
  /\ expiries = [k \in Key |-> 0]

-----------------------------------------------------------------------------
Goto(r, l) == pc' = [pc EXCEPT ![r] = l]
Release(r) == lock' = [lock EXCEPT ![K(r)] = IF @ = r THEN Nobody ELSE @]
AnswerWith(r, a) == answer' = [answer EXCEPT ![r] = a]

Arrive(r) ==
  /\ pc[r] = "idle"
  /\ Goto(r, "insert")
  /\ UNCHANGED <<request, rec, lock, transfers, reply, answer, expiries>>

Handler == IF HandlerChecks THEN "check" ELSE "create"

Conflict(r) ==
  Goto(r, IF pc[r] = "insert" THEN "lookup" ELSE "relookup") /\ UNCHANGED rec

\* Seeded fault: the second insert replaces the row it conflicts with.
InsertOrReplace(r) ==
  IF rec[K(r)].status = "absent" \/ pc[r] = "reinsert"
    THEN rec' = [rec EXCEPT ![K(r)] = NewRow(r)] /\ Goto(r, Handler)
    ELSE Conflict(r)

InsertIfAbsent(r) ==
  IF rec[K(r)].status = "absent"
    THEN rec' = [rec EXCEPT ![K(r)] = NewRow(r)] /\ Goto(r, Handler)
    ELSE Conflict(r)

Acquire(r) ==
  /\ pc[r] \in {"insert", "reinsert"}
  /\ InsertIfAbsent(r)
  /\ UNCHANGED <<request, lock, transfers, reply, answer, expiries>>

(* lookupLive: SELECT ... FOR UPDATE SKIP LOCKED passes over a row that is     *)
(* gone, expired or locked.                                                    *)
Visible(r) == rec[K(r)].status # "absent" /\ rec[K(r)].live /\ lock[K(r)] = Nobody

LookupFinds(r) ==
  /\ pc[r] \in {"lookup", "relookup"} /\ Visible(r)
  /\ lock' = [lock EXCEPT ![K(r)] = r]
  /\ Goto(r, IF pc[r] = "lookup" THEN "reading" ELSE "rereading")
  /\ UNCHANGED <<request, rec, transfers, reply, answer, expiries>>

LookupMisses(r) ==
  /\ pc[r] = "lookup" /\ ~Visible(r)
  /\ Goto(r, "clear")
  /\ UNCHANGED <<request, rec, lock, transfers, reply, answer, expiries>>

(* The second miss: TryAcquire returns a nil record as an existing one and the *)
(* middleware dereferences it; the recoverer answers 500.                      *)
RelookupMisses(r) ==
  /\ pc[r] = "relookup" /\ ~Visible(r)
  /\ Goto(r, "done") /\ AnswerWith(r, Refusal("panic"))
  /\ UNCHANGED <<request, rec, lock, transfers, reply, expiries>>

\* Seeded fault: the hash of the stored request is not compared.
VerdictAnyBody(r) ==
  IF rec[K(r)].status = "processing" THEN Refusal("inProgress")
  ELSE Answer("response", rec[K(r)].result, "jsonb")

(* The switch of the middleware over an existing record.                       *)
Verdict(r) ==
  IF rec[K(r)].status = "processing" THEN Refusal("inProgress")
  ELSE IF rec[K(r)].hash # bodyOf[r] THEN Refusal("mismatch")
  ELSE Answer("response", rec[K(r)].result, "jsonb")

\* Seeded fault: the lookup's transaction is left open.
ReadWithoutCommit(r) ==
  /\ pc[r] \in {"reading", "rereading"}
  /\ Goto(r, "done") /\ AnswerWith(r, Verdict(r))
  /\ UNCHANGED <<request, rec, lock, transfers, reply, expiries>>

(* The lookup commits and the answer follows from what it read under the lock. *)
Read(r) ==
  /\ pc[r] \in {"reading", "rereading"}
  /\ Goto(r, "done") /\ AnswerWith(r, Verdict(r))
  /\ Release(r)
  /\ UNCHANGED <<request, rec, transfers, reply, expiries>>

\* Seeded fault: DELETE without its condition on expires_at.
Dead(r) == rec[K(r)].status # "absent"
Expired(r) == rec[K(r)].status # "absent" /\ ~rec[K(r)].live

ClearExpired(r) ==
  /\ pc[r] = "clear"
  /\ Expired(r) => lock[K(r)] = Nobody
  /\ rec' = IF Expired(r) THEN [rec EXCEPT ![K(r)] = NoRow] ELSE rec
  /\ Goto(r, "reinsert")
  /\ UNCHANGED <<request, lock, transfers, reply, answer, expiries>>

-----------------------------------------------------------------------------
\* Seeded fault: the lookup among the transfers is skipped.
CheckSkipped(r) ==
  /\ pc[r] = "check"
  /\ Goto(r, "create")
  /\ UNCHANGED <<request, rec, lock, transfers, reply, answer, expiries>>

(* InitiateTransferIdempotent: an operation found under the key is returned as *)
(* it is, whatever the body of this request.                                   *)
CheckKey(r) ==
  /\ pc[r] = "check"
  /\ \/ /\ transfers[K(r)] = {}
        /\ Goto(r, "create") /\ UNCHANGED <<reply, answer>>
     \/ \E t \in transfers[K(r)] :
          /\ reply' = [reply EXCEPT ![r] = t]
          /\ AnswerWith(r, Answer("response", t, "handler"))
          /\ Goto(r, "complete")
  /\ UNCHANGED <<request, rec, lock, transfers, expiries>>

(* The handler carries the operation out and answers the client.               *)
Create(r) ==
  /\ pc[r] = "create"
  /\ transfers' = [transfers EXCEPT ![K(r)] = @ \cup {r}]
  /\ reply' = [reply EXCEPT ![r] = r]
  /\ AnswerWith(r, Answer("response", r, "handler"))
  /\ Goto(r, "complete")
  /\ UNCHANGED <<request, rec, lock, expiries>>

(* The handler answers an error (validation, limits, database): nothing done.  *)
Refuse(r) ==
  /\ pc[r] \in {"check", "create"}
  /\ AnswerWith(r, Answer("response", Nobody, "handler"))
  /\ Goto(r, "complete")
  /\ UNCHANGED <<request, rec, lock, transfers, reply, expiries>>

(* Complete: UPDATE by key, after the client was answered; it waits for the    *)
(* row lock of a lookup.                                                       *)
Complete(r) ==
  /\ pc[r] = "complete" /\ lock[K(r)] = Nobody
  /\ rec' = [rec EXCEPT ![K(r)] = IF @.status = "absent" THEN @
               ELSE [@ EXCEPT !.status = "complete", !.result = reply[r]]]
  /\ Goto(r, "done")
  /\ UNCHANGED <<request, lock, transfers, reply, answer, expiries>>

-----------------------------------------------------------------------------
(* A statement of TryAcquire fails: 500, and the deferred Rollback unlocks.    *)
AcquireFails(r) ==
  /\ pc[r] \in Acquiring
  /\ Goto(r, "done") /\ AnswerWith(r, Refusal("error"))
  /\ Release(r)
  /\ UNCHANGED <<request, rec, transfers, reply, expiries>>

(* The client goes away, which cancels r.Context() and fails every later call, *)
(* Complete's too; or the process dies; or only Complete fails, and its error  *)
(* is dropped. The connection's locks are freed.                               *)
Vanish(r) ==
  /\ pc[r] \in Acquiring \cup Running
  /\ Goto(r, "gone")
  /\ Release(r)
  /\ UNCHANGED <<request, rec, transfers, reply, answer, expiries>>

(* 24 hours pass. No handler runs that long.                                   *)
Expire(k) ==
  /\ rec[k].status # "absent" /\ rec[k].live /\ expiries[k] < MaxExpiries
  /\ \A r \in Request : keyOf[r] = k => pc[r] \notin Running
  /\ rec' = [rec EXCEPT ![k].live = FALSE]
  /\ expiries' = [expiries EXCEPT ![k] = @ + 1]
  /\ UNCHANGED <<pc, request, lock, transfers, reply, answer>>

Step(r) ==
  \/ Acquire(r) \/ LookupFinds(r) \/ LookupMisses(r) \/ RelookupMisses(r)
  \/ Read(r) \/ ClearExpired(r) \/ CheckKey(r) \/ Create(r) \/ Refuse(r) \/ Complete(r)

Next ==
  \/ \E r \in Request : Arrive(r) \/ Step(r) \/ AcquireFails(r) \/ Vanish(r)
  \/ \E k \in Key : Expire(k)

Spec == Init /\ [][Next]_vars

(* The Go scheduler runs every goroutine on; nothing obliges a client to stay. *)
FairSpec == Spec /\ \A r \in Request : WF_vars(Step(r))
-----------------------------------------------------------------------------
AnswerSet == [kind : {"none", "response", "inProgress", "mismatch", "panic", "error"},
              of : Request \cup {Nobody}, text : {"none", "handler", "jsonb"}]

(* Every row, lock and answer is of its kind, and a row is locked only by a    *)
(* request whose lookup is open.                                               *)
TypeOK ==
  /\ pc \in [Request -> {"idle", "done", "gone"} \cup Acquiring \cup Running]
  /\ keyOf \in [Request -> Key] /\ bodyOf \in [Request -> Body]
  /\ rec \in [Key -> Row]
  /\ lock \in [Key -> Request \cup {Nobody}]
  /\ \A k \in Key : lock[k] # Nobody =>
       keyOf[lock[k]] = k /\ pc[lock[k]] \in {"reading", "rereading"}
  /\ transfers \in [Key -> SUBSET Request]
  /\ reply \in [Request -> Request \cup {Nobody}]
  /\ answer \in [Request -> AnswerSet]
  /\ expiries \in [Key -> Nat]

(* Of all requests with one key, at most one is in the handler, through every  *)
(* race for a fresh, a held or an expired record.                              *)
OneHandlerPerKey ==
  \A q, r \in Request :
    q # r /\ keyOf[q] = keyOf[r] => pc[q] \notin Running \/ pc[r] \notin Running

(* No duplicate operation: one per key while its record lives; for transfers,  *)
(* which also look the key up, one for ever. Crashes and lost answers included. *)
NoDuplicate ==
  \A k \in Key :
    Cardinality(transfers[k]) <= IF HandlerChecks THEN 1 ELSE 1 + expiries[k]

(* A client is told of an operation only if its own request had the same body. *)
AnswersOwnRequest ==
  \A r \in Request :
    answer[r].kind = "response" /\ answer[r].of # Nobody => bodyOf[answer[r].of] = bodyOf[r]

(* Every request ends: the row locks of lookups cannot hold one up for ever.   *)
RequestEnds == \A r \in Request : pc[r] = "insert" ~> pc[r] \in {"done", "gone"}

(* docs/idempotency.md, "the original request is still being processed".       *)
InProgressIsTrue ==
  \A k \in Key : rec[k].status = "processing" /\ rec[k].live =>
    \E r \in Request : keyOf[r] = k /\ pc[r] \in Running

(* repository.go, "If a live record already exists, it returns (record, true,  *)
(* nil)": no request finds neither a record nor a free key.                    *)
RecordOrKey == \A r \in Request : answer[r].kind # "panic"

(* docs/idempotency.md, "gets back the exact same response, byte for byte".    *)
ByteForByte ==
  \A q, r \in Request :
    /\ answer[q].kind = "response" /\ answer[r].kind = "response"
    /\ keyOf[q] = keyOf[r] /\ bodyOf[q] = bodyOf[r] /\ expiries[keyOf[q]] = 0
    => answer[q] = answer[r]
=============================================================================
