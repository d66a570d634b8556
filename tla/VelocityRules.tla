---------------------------- MODULE VelocityRules ----------------------------
(***************************************************************************)
(* Screening of transfer requests of one organisation: the behavioural     *)
(* rules (compliance/velocity.go) over the rows already stored, the        *)
(* composite of all screeners (screener.go) and ScreenTransfer             *)
(* (service.go).  The row of a request is inserted by transfer.initiate    *)
(* after its screening, so two requests may each miss the other's row.     *)
(***************************************************************************)
EXTENDS Integers, Sequences, FiniteSets

CONSTANTS
  Requester,                    \* requests under way at once
  MaxTransfers,                 \* velocity: transfers allowed in Window
  StructuringMinCount, StructuringUnit, TolerancePercent,
  Amount,                       \* amounts asked for
  MaxRows                       \* bound on the rows of the longest window

ASSUME VelocityBounds ==
  /\ {MaxTransfers, StructuringMinCount, StructuringUnit} \subseteq Nat \ {0}
  /\ {TolerancePercent, MaxRows} \subseteq Nat /\ Amount \subseteq Nat \ {0}
  /\ IsFiniteSet(Requester)

(* Routes between two customer wallets and the exempt platform wallet. *)
Platform == "platform"
Route == {<<"A", "B">>, <<"B", "A">>, <<"A", Platform>>}

(* Ages: 0 in Window, 1 in RoundTripWindow, 2 in StructuringWindow; the     *)
(* defaults of NewVelocityScreener nest (10 minutes, one hour, one day).    *)
Age == 0..2
RowOf == [route : Route, amount : Amount, status : {"pending", "compliance_hold", "failed"}, age : Age, cleared : BOOLEAN]

VARIABLES
  rows,                         \* transfers created in the longest window, oldest first
  vpc, asked                    \* a request: position or decision; {what it asked for}

velocityVars == <<rows, vpc, asked>>

TransferRequest == [route : Route, amount : Amount]

VelocityTypeOK ==
  /\ rows \in Seq(RowOf) /\ Len(rows) <= MaxRows
  /\ \A i, j \in DOMAIN rows : i < j => rows[i].age >= rows[j].age
  /\ vpc \in [Requester -> {"idle", "clear", "hold"}] /\ asked \in [Requester -> SUBSET TransferRequest]

VelocityInit ==
  /\ rows = <<>> /\ vpc = [q \in Requester |-> "idle"]
  /\ asked = [q \in Requester |-> {}]
-----------------------------------------------------------------------------
(* CountTransfersByOrgSince, AggregateTransfersToDestinationSince and       *)
(* HasInboundTransferSince, all on the primary.                             *)
InWindow(w) == {i \in DOMAIN rows : rows[i].age <= w}
CountTransfersByOrg == Cardinality(InWindow(0))
ToDestination(to) == {i \in InWindow(2) : rows[i].route[2] = to}

TotalTo(to) ==
  LET sum[n \in 0..Len(rows)] == IF n = 0 THEN 0 ELSE sum[n-1] + (IF n \in ToDestination(to) THEN rows[n].amount ELSE 0)
  IN  sum[Len(rows)]

HasInbound(from, to) == \E i \in InWindow(1) : rows[i].route = <<to, from>> /\ rows[i].status = "pending"

(* Seeded fault: the next multiple is the total itself when it is round. *)
IsAtOrUnder(total) ==
  LET next == ((total + StructuringUnit - 1) \div StructuringUnit) * StructuringUnit
  IN  total > 0 /\ (next - total) * 100 <= TolerancePercent * next

(* isStructuring: within the tolerance below the next multiple of the unit  *)
(* that is strictly greater.                                                *)
IsStructuring(total) ==
  LET next == (total \div StructuringUnit + 1) * StructuringUnit
  IN  total > 0 /\ (next - total) * 100 <= TolerancePercent * next

(* Seeded fault: the request itself is not counted. *)
BurstWithoutThis(c) == c > MaxTransfers

Burst(c) == c + 1 > MaxTransfers
Structuring(r) ==
  /\ Cardinality(ToDestination(r.route[2])) + 1 >= StructuringMinCount
  /\ IsStructuring(TotalTo(r.route[2]) + r.amount)
RoundTrip(r) == HasInbound(r.route[1], r.route[2])

Exempt(r) == Platform \in {r.route[1], r.route[2]}

(* VelocityScreener.Screen: holds at worst, and never for the platform      *)
(* wallet.                                                                  *)
VelocityVerdict(r) ==
  IF ~Exempt(r) /\ (Burst(CountTransfersByOrg) \/ Structuring(r) \/ RoundTrip(r)) THEN "hold" ELSE "clear"

(* Seeded fault: a screener that failed is left out. *)
SkipFailed(verdicts) == IF "blocked" \in verdicts THEN "blocked" ELSE IF "hold" \in verdicts THEN "hold" ELSE "clear"

(* CompositeScreener.Screen: the most severe outcome; an error is a hold. *)
Composite(verdicts) ==
  IF "blocked" \in verdicts THEN "blocked"
  ELSE IF {"hold", "error"} \cap verdicts # {} THEN "hold" ELSE "clear"

(* ScreenTransfer: the sanctions screener answers what it will; a query of  *)
(* the behavioural rules may fail.  A blocked request ends here: its row in  *)
(* compliance_blocks is a log nothing reads back, and a failure to write it  *)
(* changes nothing.                                                         *)
ScreenTransfer(q) ==
  /\ vpc[q] = "idle"
  /\ \E r \in TransferRequest, sanctions \in {"clear", "hold", "blocked", "error"} :
     \E velocity \in {VelocityVerdict(r)} \cup (IF Exempt(r) THEN {} ELSE {"error"}) :
       LET decision == Composite({sanctions, velocity}) IN
         /\ decision # "blocked"
         /\ vpc' = [vpc EXCEPT ![q] = decision] /\ asked' = [asked EXCEPT ![q] = {r}]
  /\ UNCHANGED rows

(* initiate after the screening; a blocked request has left no row. *)
InsertScreened(q) ==
  /\ vpc[q] # "idle" /\ vpc' = [vpc EXCEPT ![q] = "idle"]
  /\ Len(rows) < MaxRows
  /\ \E r \in asked[q] :
       rows' = Append(rows, [route |-> r.route, amount |-> r.amount, age |-> 0,
                             status |-> IF vpc[q] = "hold" THEN "compliance_hold" ELSE "pending",
                             cleared |-> vpc[q] = "clear"])
  /\ asked' = [asked EXCEPT ![q] = {}]

(* Reviews and settlement move the rows on (external to the screening). *)
RowMoves ==
  /\ \E i \in DOMAIN rows, s \in {"pending", "failed"} :
       /\ <<rows[i].status, s>> \in {<<"compliance_hold", "pending">>, <<"compliance_hold", "failed">>, <<"pending", "failed">>}
       /\ rows' = [rows EXCEPT ![i].status = s]
  /\ UNCHANGED <<vpc, asked>>

(* Time passes: the oldest row of an age leaves that age's window. *)
TimePasses ==
  /\ \E i \in DOMAIN rows :
       /\ \A j \in 1..(i-1) : rows[j].age > rows[i].age
       /\ rows' = IF rows[i].age = 2 THEN Tail(rows) ELSE [rows EXCEPT ![i].age = @ + 1]
  /\ UNCHANGED <<vpc, asked>>

VelocityNext ==
  \/ \E q \in Requester : ScreenTransfer(q) \/ InsertScreened(q)
  \/ RowMoves \/ TimePasses

VelocitySpec == VelocityInit /\ [][VelocityNext]_velocityVars
-----------------------------------------------------------------------------
ClearedInWindow == {i \in InWindow(0) : rows[i].cleared /\ ~Exempt(rows[i])}

(* Requests that run at the same time miss each other's rows, so more than  *)
(* MaxTransfers may be cleared in a window, but by no more than the number  *)
(* of requests at work less one.                                            *)
BurstBounded == Cardinality(ClearedInWindow) <= MaxTransfers - 1 + Cardinality(Requester)

(* What velocity.go says of the rule: more than MaxTransfers holds. *)
BurstIsHeld == Cardinality(ClearedInWindow) <= MaxTransfers

(* The totals isStructuring flags are those from which some round amount    *)
(* above is the nearest and at most the tolerance away.                     *)
StructuringIsJustUnder ==
  \A total \in 1..(2 * StructuringUnit) :
    IsStructuring(total) <=>
      \E k \in 1..3 : /\ k * StructuringUnit > total /\ (k - 1) * StructuringUnit <= total
                      /\ (k * StructuringUnit - total) * 100 <= TolerancePercent * k * StructuringUnit

(* Requests screened at the same time pass the burst rule by no more than   *)
(* their number, and structuring is found just under a round amount, not at *)
(* it (VelocityScreener.Screen, isStructuring).                             *)
VelocitySafe ==
  /\ VelocityTypeOK
  /\ BurstBounded
  /\ StructuringIsJustUnder
=============================================================================
