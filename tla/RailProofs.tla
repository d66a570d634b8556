------------------------------ MODULE RailProofs ------------------------------
(***************************************************************************)
(* What the rails outside Stellar guarantee for any number of transfers,   *)
(* requests and anchors: the anchors and their registry, and the transfers *)
(* of the XDC engine, which keep the promise of PaymentContract.           *)
(***************************************************************************)
EXTENDS Anchors, XDCSettlement, Counting, FiniteSetTheorems, SequenceTheorems, TLAPS

(***************************************************************************)
(* Anchors.  A row that was stored and not yet indexed belongs to one      *)
(* registration, so that an anchor enters the lists once; a restart builds *)
(* the lists from the table, and a finite table can be listed in the order *)
(* of its time stamps.                                                     *)
(***************************************************************************)

(* A finite set can be listed in the order of a number each element has.     *)
LEMMA OrderedList ==
  ASSUME NEW S, IsFiniteSet(S), NEW key, \A x \in S : key[x] \in Nat
  PROVE  \E s \in SetToSeqs(S) : \A i, j \in DOMAIN s : i < j => key[s[i]] <= key[s[j]]
<1> DEFINE Sorted(s) == \A i, j \in DOMAIN s : i < j => key[s[i]] <= key[s[j]]
           T == {n \in Nat : \E R \in SUBSET S : Cardinality(R) = n /\ ~ \E s \in SetToSeqs(R) : Sorted(s)}
<1>1. \A R \in SUBSET S : IsFiniteSet(R) /\ Cardinality(R) \in Nat BY FS_Subset, FS_CardinalityType
<1>2. T = {}
  <2> SUFFICES ASSUME T # {} PROVE FALSE OBVIOUS
  <2>1. PICK n \in T : \A m \in T : n <= m BY LeastNat
  <2>2. PICK R \in SUBSET S : Cardinality(R) = n /\ ~ \E s \in SetToSeqs(R) : Sorted(s) BY <2>1
  <2>3. R # {}
    <3> SUFFICES ASSUME R = {} PROVE FALSE OBVIOUS
    <3>1. Cardinality(R) = 0 BY FS_EmptySet
    <3>2. 1..0 = {} OBVIOUS
    <3> DEFINE e == [i \in 1..0 |-> i]
    <3>3. e \in [1..Cardinality(R) -> R] /\ DOMAIN e = {} BY <3>1, <3>2
    <3>4. e \in SetToSeqs(R) BY <3>1, <3>2, <3>3 DEF SetToSeqs
    <3> QED BY <3>3, <3>4, <2>2
  <2>4. \E x \in R : \A y \in R : key[x] <= key[y]
    <3> DEFINE K == {key[x] : x \in R}
    <3>1. K \subseteq Nat /\ K # {} BY <2>3
    <3> HIDE DEF K
    <3>2. PICK k \in K : \A l \in K : k <= l BY <3>1, LeastNat
    <3> QED BY <3>2 DEF K
  <2>5. PICK x \in R : \A y \in R : key[x] <= key[y] BY <2>4
  <2> DEFINE Q == R \ {x}
  <2>6. Q \in SUBSET S /\ Cardinality(Q) = n - 1 /\ n - 1 \in Nat
    <3>1. IsFiniteSet(R) BY <1>1
    <3>2. Cardinality(Q) = Cardinality(R) - 1 BY <3>1, FS_RemoveElement
    <3>3. Cardinality(R) # 0 BY <3>1, <2>3, FS_EmptySet
    <3> QED BY <3>2, <3>3, <2>2, <1>1
  <2>7. PICK s \in SetToSeqs(Q) : Sorted(s)
    <3>1. n - 1 \notin T
      <4>1. n \in Nat OBVIOUS
      <4> HIDE DEF T
      <4> QED BY <4>1, <2>1, <2>6
    <3> HIDE DEF Sorted
    <3> QED BY <3>1, <2>6
  <2> HIDE DEF T
  <2>8. s \in [1..(n - 1) -> Q] /\ \A i, j \in 1..(n - 1) : i # j => s[i] # s[j] BY <2>6, <2>7 DEF SetToSeqs
  <2> DEFINE t == [i \in 1..n |-> IF i = 1 THEN x ELSE s[i - 1]]
  <2>9. n \in Nat BY <2>1, <2>2, <1>1
  <2>10. \A i \in 1..n : (i = 1 => t[i] = x) /\ (i # 1 => i - 1 \in 1..(n - 1) /\ t[i] = s[i - 1] /\ t[i] \in Q) BY <2>8, <2>9
  <2>11. t \in [1..n -> R] BY <2>10
  <2> HIDE DEF t
  <2>12. \A i, j \in 1..n : i # j => t[i] # t[j]
    <3> SUFFICES ASSUME NEW i \in 1..n, NEW j \in 1..n, i # j PROVE t[i] # t[j] OBVIOUS
    <3>1. CASE i = 1 BY <3>1, <2>10
    <3>2. CASE j = 1 BY <3>2, <2>10
    <3>3. CASE i # 1 /\ j # 1
      <4>1. i - 1 \in 1..(n - 1) /\ j - 1 \in 1..(n - 1) /\ i - 1 # j - 1 BY <3>3, <2>10
      <4> QED BY <3>3, <4>1, <2>8, <2>10
    <3> QED BY <3>1, <3>2, <3>3
  <2>13. t \in SetToSeqs(R) BY <2>2, <2>11, <2>12 DEF SetToSeqs
  <2>14. Sorted(t)
    <3> SUFFICES ASSUME NEW i \in 1..n, NEW j \in 1..n, i < j PROVE key[t[i]] <= key[t[j]] BY <2>11
    <3>1. CASE i = 1 BY <3>1, <2>5, <2>10, <2>11
    <3>2. CASE i # 1
      <4>1. i - 1 \in 1..(n - 1) /\ j - 1 \in 1..(n - 1) /\ i - 1 < j - 1 /\ t[i] = s[i - 1] /\ t[j] = s[j - 1] BY <3>2, <2>10
      <4>2. DOMAIN s = 1..(n - 1) BY <2>8
      <4> QED BY <4>1, <4>2, <2>7
    <3> QED BY <3>1, <3>2
  <2> QED BY <2>2, <2>13, <2>14
<1>3. S \in SUBSET S OBVIOUS
<1>4. \E s \in SetToSeqs(S) : Sorted(s)
  <2> HIDE DEF Sorted
  <2> QED BY <1>1, <1>2, <1>3
<1> QED BY <1>4

RegState == [pc : {"create", "index", "done"}, row : AnchorRow] \cup {IdleReg}
Asking == [pc : {"ask", "write"}, tx : Transfer, copy : RemoteStatus, seen : RemoteStatus]

(* The rows a registration has stored and not yet indexed are its own.       *)
StoredRows ==
  /\ \A g \in Registrar : reg[g].pc = "index" => anchors[reg[g].row.home] = reg[g].row
  /\ \A g, k \in Registrar : (reg[g].pc = "index" /\ reg[k].pc = "index" /\ reg[g].row.home = reg[k].row.home) => g = k

(* A transfer not yet opened has no trace; one to be recorded is at an       *)
(* anchor of the registry; what a query has seen completed is.               *)
TransfersOK ==
  /\ \A x \in Transfer : xfer[x].pc = "none" => remote[x] = "none" /\ record[x] = NoRecord
  /\ \A x \in Transfer : xfer[x].pc = "record" => xfer[x].anchor \in byID
  /\ \A q \in Poller : poll[q].pc # "idle" => record[poll[q].tx] # NoRecord
  /\ \A q \in Poller : (poll[q].pc = "write" /\ poll[q].seen = "completed") => remote[poll[q].tx] = "completed"

AnchorInv ==
  /\ AnchorTypeOK
  /\ RegistryIsTable
  /\ StoredRows
  /\ TransfersOK
  /\ RecordsCanBePolled
  /\ ClosedIsCompleted

(* The rows of the table that the registry should have, and what the list of *)
(* an asset should be.                                                       *)
Indexing(h) == \E g \in Registrar : reg[g].pc = "index" /\ reg[g].row.home = h
Known == {h \in Home : anchors[h] # NoAnchor /\ ~Indexing(h)}
ListOK(c) == ToSet(byAsset[c]) = {h \in Known : c \in anchors[h].assets} /\ IsInjective(byAsset[c])

(* The registry is the table when the lists of every asset are.              *)
LEMMA RegistryByAsset == RegistryIsTable <=> (byID = Known /\ \A c \in AssetCode : ListOK(c))
  BY DEF RegistryIsTable, Known, Indexing, ListOK

(* What Load builds is a list of the rows with the asset, without double.    *)
LEMMA LoadedLists ==
  ASSUME AnchorTypeOK, NEW c \in AssetCode
  PROVE  LET homes == {h \in {h \in Home : anchors[h] # NoAnchor} : c \in anchors[h].assets} IN
         /\ Load.maps[c] \in Seq(Home) /\ ToSet(Load.maps[c]) = homes /\ IsInjective(Load.maps[c])
<1> DEFINE homes == {h \in {h \in Home : anchors[h] # NoAnchor} : c \in anchors[h].assets}
           n == Cardinality(homes)
           key == [h \in homes |-> anchors[h].at]
           Sorted(s) == \A i, j \in DOMAIN s : i < j => anchors[s[i]].at <= anchors[s[j]].at
<1>1. homes \in SUBSET Home OBVIOUS
<1>2. IsFiniteSet(homes) /\ n \in Nat BY <1>1, HomesAreFinite, FS_Subset, FS_CardinalityType
<1>3. \A h \in homes : key[h] = anchors[h].at /\ key[h] \in Nat BY DEF AnchorTypeOK, AnchorRow
<1>4. Load.maps[c] = CHOOSE s \in SetToSeqs(homes) : Sorted(s) BY DEF Load, ListAnchors
<1> HIDE DEF homes, key
<1>5. \E s \in SetToSeqs(homes) : Sorted(s)
  <2>1. PICK s \in SetToSeqs(homes) : \A i, j \in DOMAIN s : i < j => key[s[i]] <= key[s[j]] BY <1>2, <1>3, OrderedList
  <2>2. s \in [1..n -> homes] BY <2>1 DEF SetToSeqs
  <2>3. \A i \in DOMAIN s : s[i] \in homes BY <2>2
  <2> QED BY <2>1, <2>3, <1>3
<1> HIDE DEF Sorted
<1>6. PICK s : s = Load.maps[c] /\ s \in SetToSeqs(homes) BY <1>4, <1>5
<1>7. s \in [1..n -> homes] /\ \A i, j \in 1..n : i # j => s[i] # s[j] BY <1>6 DEF SetToSeqs
<1>8. s \in Seq(Home)
  <2>1. s \in Seq(homes) BY <1>2, <1>7, SeqDef
  <2> QED BY <2>1, <1>1, SeqMonotonic
<1>9. IsInjective(s) BY <1>7 DEF IsInjective
<1>10. {s[i] : i \in 1..n} = homes
  <2> DEFINE img == {s[i] : i \in 1..n}
  <2>1. s \in [1..n -> img] /\ img \in SUBSET homes BY <1>7
  <2>2. IsFiniteSet(img) BY <2>1, <1>2, FS_Subset
  <2>3. s \in Injection(1..n, img) BY <2>1, <1>7 DEF Injection, IsInjective
  <2>4. IsFiniteSet(1..n) /\ Cardinality(1..n) = n
    <3>1. IsFiniteSet(1..n) /\ Cardinality(1..n) = IF 1 > n THEN 0 ELSE n - 1 + 1 BY <1>2, FS_Interval
    <3> QED BY <3>1, <1>2
  <2> HIDE DEF img
  <2>5. n <= Cardinality(img) BY <2>2, <2>3, <2>4, FS_Injection
  <2>6. Cardinality(img) <= n /\ (n = Cardinality(img) => homes = img) BY <2>1, <1>2, FS_Subset
  <2>7. Cardinality(img) \in Nat BY <2>2, FS_CardinalityType
  <2>8. homes = img BY <1>2, <2>5, <2>6, <2>7
  <2> QED BY <2>8 DEF img
<1>11. ToSet(s) = homes BY <1>7, <1>10 DEF ToSet
<1> QED BY <1>6, <1>8, <1>9, <1>11 DEF homes

(* A step that leaves the registry and its table alone.                      *)
LEMMA RegistryRests ==
  ASSUME AnchorInv, UNCHANGED registryVars
  PROVE  RegistryIsTable' /\ StoredRows'
  BY DEF AnchorInv, registryVars, RegistryIsTable, StoredRows

(* A step of a registration that leaves table and registry alone.            *)
LEMMA RegistrationMoves ==
  ASSUME AnchorInv, NEW g \in Registrar, UNCHANGED <<anchors, byID, byAsset>>,
         \A k \in Registrar \ {g} : reg'[k] = reg[k], reg'[g].pc # "index", reg[g].pc # "index"
  PROVE  RegistryIsTable' /\ StoredRows'
<1>1. \A h : Indexing(h)' <=> Indexing(h) BY DEF Indexing
<1>2. Known' = Known BY <1>1 DEF Known
<1>3. byID = Known /\ \A c \in AssetCode : ListOK(c) BY RegistryByAsset DEF AnchorInv
<1>4. \A c \in AssetCode : ListOK(c)' BY <1>2, <1>3 DEF ListOK
<1>5. RegistryIsTable'
  <2>1. byID' = Known' BY <1>2, <1>3
  <2> QED BY <2>1, <1>4 DEF RegistryIsTable, Known, Indexing, ListOK
<1>6. StoredRows' BY DEF AnchorInv, StoredRows
<1> QED BY <1>5, <1>6

(* A registration takes its time stamp before it inserts.                    *)
LEMMA FetchAnchorOK ==
  ASSUME AnchorInv, NEW g \in Registrar, NEW h \in Home, NEW info \in TomlInfo, FetchAnchor(g, h, info)
  PROVE  AnchorInv'
<1> DEFINE row == [home |-> h, sep6 |-> info.sep6, sep24 |-> info.sep24, assets |-> info.assets, at |-> stamp]
<1>1. AnchorTypeOK BY DEF AnchorInv
<1>2. /\ reg[g] = IdleReg /\ reg' = [reg EXCEPT ![g] = [pc |-> "create", row |-> row]] /\ stamp' = stamp + 1
      /\ UNCHANGED <<anchors, byID, byAsset, xfer, remote, record, poll, restarts>>
  BY DEF FetchAnchor, transferVars
<1>3. row \in AnchorRow BY <1>1 DEF AnchorRow, TomlInfo, AnchorTypeOK
<1> HIDE DEF row
<1>4. reg'[g] = [pc |-> "create", row |-> row] /\ \A k \in Registrar \ {g} : reg'[k] = reg[k] BY <1>1, <1>2 DEF AnchorTypeOK
<1>5. AnchorTypeOK' BY <1>1, <1>2, <1>3 DEF AnchorTypeOK
<1>6. RegistryIsTable' /\ StoredRows' BY <1>2, <1>4, RegistrationMoves DEF IdleReg
<1>7. TransfersOK' /\ RecordsCanBePolled' /\ ClosedIsCompleted'
  BY <1>2 DEF AnchorInv, TransfersOK, RecordsCanBePolled, ClosedIsCompleted
<1> QED BY <1>5, <1>6, <1>7 DEF AnchorInv

(* A row is inserted, and its registration is under way until it is indexed; *)
(* home_domain is UNIQUE, so no other indexes the same row.                  *)
LEMMA CreateAnchorOK == ASSUME AnchorInv, NEW g \in Registrar, CreateAnchor(g) PROVE AnchorInv'
<1> DEFINE row == reg[g].row
<1>1. AnchorTypeOK /\ RegistryIsTable /\ StoredRows BY DEF AnchorInv
<1>2. reg[g].pc = "create" /\ UNCHANGED <<byID, byAsset, xfer, remote, record, poll, stamp, restarts>>
  BY DEF CreateAnchor, transferVars
<1>3. reg[g] \in [pc : {"create", "index", "done"}, row : AnchorRow] /\ row \in AnchorRow /\ row.home \in Home
  <2>1. reg[g] \in [pc : {"create", "index", "done"}, row : AnchorRow] BY <1>1, <1>2 DEF AnchorTypeOK, IdleReg
  <2> QED BY <2>1 DEF AnchorRow
<1>4. TransfersOK' /\ RecordsCanBePolled' /\ ClosedIsCompleted'
  BY <1>2 DEF AnchorInv, TransfersOK, RecordsCanBePolled, ClosedIsCompleted
<1>5. CASE reg' = [reg EXCEPT ![g].pc = "done"] /\ anchors' = anchors
  <2>1. AnchorTypeOK' BY <1>1, <1>2, <1>3, <1>5 DEF AnchorTypeOK
  <2>2. reg'[g].pc = "done" /\ \A k \in Registrar \ {g} : reg'[k] = reg[k] BY <1>1, <1>3, <1>5 DEF AnchorTypeOK
  <2>3. RegistryIsTable' /\ StoredRows' BY <1>2, <1>5, <2>2, RegistrationMoves
  <2> QED BY <1>4, <2>1, <2>3 DEF AnchorInv
<1>6. CASE anchors[row.home] = NoAnchor /\ anchors' = [anchors EXCEPT ![row.home] = row] /\ reg' = [reg EXCEPT ![g].pc = "index"]
  <2>1. AnchorTypeOK' BY <1>1, <1>2, <1>3, <1>6 DEF AnchorTypeOK
  <2>2. reg'[g].pc = "index" /\ reg'[g].row = row /\ \A k \in Registrar \ {g} : reg'[k] = reg[k]
    BY <1>1, <1>3, <1>6 DEF AnchorTypeOK
  <2>3. row # NoAnchor BY <1>3, NoRowIsNothing
  <2>4. anchors'[row.home] = row /\ \A h \in Home \ {row.home} : anchors'[h] = anchors[h] BY <1>1, <1>3, <1>6 DEF AnchorTypeOK
  <2>5. \A k \in Registrar : reg[k].pc = "index" => reg[k].row.home # row.home /\ reg[k].row.home \in Home
    <3> SUFFICES ASSUME NEW k \in Registrar, reg[k].pc = "index" PROVE reg[k].row.home # row.home /\ reg[k].row.home \in Home OBVIOUS
    <3>1. reg[k].row \in AnchorRow BY <1>1 DEF AnchorTypeOK, IdleReg
    <3>2. anchors[reg[k].row.home] # NoAnchor BY <1>1, <3>1, NoRowIsNothing DEF StoredRows
    <3> QED BY <3>1, <3>2, <1>6 DEF AnchorRow
  <2> HIDE DEF row
  <2>6. StoredRows'
    <3>1. \A k \in Registrar : reg'[k].pc = "index" => anchors'[reg'[k].row.home] = reg'[k].row
      BY <1>1, <2>2, <2>4, <2>5 DEF StoredRows
    <3>2. \A j, k \in Registrar : (reg'[j].pc = "index" /\ reg'[k].pc = "index" /\ reg'[j].row.home = reg'[k].row.home) => j = k
      BY <1>1, <2>2, <2>5 DEF StoredRows
    <3> QED BY <3>1, <3>2 DEF StoredRows
  <2>7. \A h \in Home : Indexing(h)' <=> (Indexing(h) \/ h = row.home) BY <1>2, <2>2 DEF Indexing
  <2>8. Known' = Known BY <1>6, <2>3, <2>4, <2>7 DEF Known
  <2>9. \A h \in Known : anchors'[h] = anchors[h] BY <1>6, <2>4 DEF Known
  <2>10. byID = Known /\ \A c \in AssetCode : ListOK(c) BY <1>1, RegistryByAsset
  <2>11. \A c \in AssetCode : ListOK(c)' BY <1>2, <2>8, <2>9, <2>10 DEF ListOK
  <2>12. byID' = Known' BY <1>2, <2>8, <2>10
  <2>13. RegistryIsTable' BY <2>11, <2>12 DEF RegistryIsTable, Known, Indexing, ListOK
  <2> QED BY <1>4, <2>1, <2>6, <2>13 DEF AnchorInv
<1> QED BY <1>5, <1>6 DEF CreateAnchor

(* IndexAnchor: the home was in no list, because it was being indexed.       *)
LEMMA IndexAnchorOK == ASSUME AnchorInv, NEW g \in Registrar, IndexAnchor(g) PROVE AnchorInv'
<1> DEFINE row == reg[g].row
           home == row.home
<1>1. AnchorTypeOK /\ RegistryIsTable /\ StoredRows BY DEF AnchorInv
<1>2. /\ reg[g].pc = "index" /\ byID' = byID \cup {home} /\ byAsset' = Index(byAsset, row)
      /\ reg' = [reg EXCEPT ![g].pc = "done"] /\ UNCHANGED <<anchors, xfer, remote, record, poll, stamp, restarts>>
  BY DEF IndexAnchor, transferVars
<1>3. reg[g] \in [pc : {"create", "index", "done"}, row : AnchorRow] /\ row \in AnchorRow /\ home \in Home
  <2>1. reg[g] \in [pc : {"create", "index", "done"}, row : AnchorRow] BY <1>1, <1>2 DEF AnchorTypeOK, IdleReg
  <2> QED BY <2>1 DEF AnchorRow
<1>4. anchors[home] = row /\ anchors[home] # NoAnchor BY <1>1, <1>2, <1>3, NoRowIsNothing DEF StoredRows
<1>5. reg'[g].pc = "done" /\ \A k \in Registrar \ {g} : reg'[k] = reg[k] BY <1>1, <1>2, <1>3 DEF AnchorTypeOK
<1>6. \A k \in Registrar \ {g} : reg[k].pc = "index" => reg[k].row.home # home BY <1>1, <1>2 DEF StoredRows
<1>7. Indexing(home) BY <1>2 DEF Indexing
<1> HIDE DEF row, home
<1>8. \A h \in Home : Indexing(h)' <=> (Indexing(h) /\ h # home) BY <1>2, <1>5, <1>6 DEF Indexing, home, row
<1>9. Known' = Known \cup {home} /\ home \notin Known BY <1>2, <1>3, <1>4, <1>7, <1>8 DEF Known
<1>10. byID = Known /\ \A c \in AssetCode : ListOK(c) BY <1>1, RegistryByAsset
<1>11. \A c \in AssetCode : byAsset'[c] = IF c \in row.assets THEN Append(byAsset[c], home) ELSE byAsset[c]
  BY <1>2 DEF Index, home
<1>12. ASSUME NEW c \in AssetCode PROVE byAsset'[c] \in Seq(Home) /\ ListOK(c)'
  <2>1. byAsset[c] \in Seq(Home) /\ ListOK(c) BY <1>1, <1>10, <1>12 DEF AnchorTypeOK
  <2> DEFINE s == byAsset[c]
             n == Len(s)
  <2>2. n \in Nat /\ DOMAIN s = 1..n BY <2>1
  <2>3. ToSet(s) = {h \in Known : c \in anchors[h].assets} /\ \A i, j \in DOMAIN s : s[i] = s[j] => i = j
    BY <2>1 DEF ListOK, IsInjective
  <2>4. \A i \in 1..n : s[i] \in ToSet(s) BY <2>2 DEF ToSet
  <2>5. CASE c \notin row.assets
    <3>1. byAsset'[c] = s BY <2>5, <1>11, <1>12
    <3>2. ToSet(s) = {h \in Known' : c \in anchors'[h].assets} BY <2>3, <2>5, <1>2, <1>4, <1>9
    <3> QED BY <2>1, <3>1, <3>2 DEF ListOK
  <2>6. CASE c \in row.assets
    <3> DEFINE t == Append(s, home)
    <3>1. byAsset'[c] = t BY <2>6, <1>11, <1>12
    <3>2. t \in Seq(Home) /\ DOMAIN t = 1..(n + 1) /\ t[n + 1] = home /\ \A i \in 1..n : t[i] = s[i] BY <2>1, <2>2, <1>3
    <3>3. home \notin ToSet(s) BY <2>3, <1>9
    <3> HIDE DEF s, n, t
    <3>4. IsInjective(t)
      <4> SUFFICES ASSUME NEW i \in 1..(n + 1), NEW j \in 1..(n + 1), t[i] = t[j] PROVE i = j BY <3>2 DEF IsInjective
      <4>1. CASE i \in 1..n /\ j \in 1..n BY <4>1, <3>2, <2>2, <2>3
      <4>2. CASE i = n + 1 /\ j \in 1..n BY <4>2, <3>2, <3>3, <2>4
      <4>3. CASE j = n + 1 /\ i \in 1..n BY <4>3, <3>2, <3>3, <2>4
      <4>4. CASE i = n + 1 /\ j = n + 1 BY <4>4
      <4>5. (i \in 1..n \/ i = n + 1) /\ (j \in 1..n \/ j = n + 1) BY <2>2
      <4> QED BY <4>1, <4>2, <4>3, <4>4, <4>5
    <3>5. ToSet(t) = ToSet(s) \cup {home}
      <4>1. \A i \in 1..n : i \in 1..(n + 1) BY <2>2
      <4>2. n + 1 \in 1..(n + 1) BY <2>2
      <4>3. \A i \in 1..(n + 1) : i \in 1..n \/ i = n + 1 BY <2>2
      <4> QED BY <4>1, <4>2, <4>3, <3>2, <2>2 DEF ToSet
    <3>6. ToSet(t) = {h \in Known' : c \in anchors'[h].assets} BY <3>5, <2>3, <2>6, <1>2, <1>4, <1>9
    <3> QED BY <3>1, <3>2, <3>4, <3>6 DEF ListOK
  <2> QED BY <2>5, <2>6
<1>13. byAsset' \in [AssetCode -> Seq(Home)]
  <2>1. byAsset' = [c \in AssetCode |-> byAsset'[c]] BY <1>2 DEF Index
  <2> QED BY <2>1, <1>12
<1>14. AnchorTypeOK'
  <2>1. reg' \in [Registrar -> [pc : {"create", "index", "done"}, row : AnchorRow] \cup {IdleReg}]
    BY <1>1, <1>2, <1>3 DEF AnchorTypeOK
  <2> QED BY <2>1, <1>1, <1>2, <1>3, <1>13 DEF AnchorTypeOK
<1>15. RegistryIsTable'
  <2>1. byID' = Known' BY <1>2, <1>9, <1>10
  <2> QED BY <2>1, <1>12 DEF RegistryIsTable, Known, Indexing, ListOK
<1>16. StoredRows' BY <1>1, <1>2, <1>5 DEF StoredRows
<1>17. TransfersOK' /\ RecordsCanBePolled' /\ ClosedIsCompleted'
  BY <1>2 DEF AnchorInv, TransfersOK, RecordsCanBePolled, ClosedIsCompleted
<1> QED BY <1>14, <1>15, <1>16, <1>17 DEF AnchorInv

(* Restart: the registry is what Load makes of the table, and no             *)
(* registration is under way any more.                                       *)
LEMMA AnchorRestartOK == ASSUME AnchorInv, Restart PROVE AnchorInv'
<1> DEFINE stored == {h \in Home : anchors[h] # NoAnchor}
<1>1. AnchorTypeOK /\ RegistryIsTable /\ StoredRows /\ TransfersOK /\ RecordsCanBePolled /\ ClosedIsCompleted BY DEF AnchorInv
<1>2. /\ restarts < MaxRestarts /\ restarts' = restarts + 1 /\ byID' = Load.ids /\ byAsset' = Load.maps
      /\ reg' = [g \in Registrar |-> IF reg[g].pc = "idle" THEN IdleReg ELSE [reg[g] EXCEPT !.pc = "done"]]
      /\ xfer' = [x \in Transfer |-> IF xfer[x].pc = "record" THEN [xfer[x] EXCEPT !.pc = "done"] ELSE xfer[x]]
      /\ poll' = [q \in Poller |-> IdlePoll] /\ UNCHANGED <<anchors, remote, record, stamp>>
  BY DEF Restart
<1>3. byID' = stored BY <1>2 DEF Load
<1>4. byAsset' \in [AssetCode -> Seq(Home)]
  <2>1. byAsset' = [c \in AssetCode |-> byAsset'[c]] BY <1>2 DEF Load
  <2>2. \A c \in AssetCode : byAsset'[c] \in Seq(Home) BY <1>1, <1>2, LoadedLists
  <2> QED BY <2>1, <2>2
<1>5. \A g \in Registrar : reg'[g] \in RegState /\ reg'[g].pc # "index"
  <2> SUFFICES ASSUME NEW g \in Registrar PROVE reg'[g] \in RegState /\ reg'[g].pc # "index" OBVIOUS
  <2>1. CASE reg[g].pc = "idle" BY <2>1, <1>2 DEF RegState, IdleReg
  <2>2. CASE reg[g].pc # "idle"
    <3>1. reg[g] \in [pc : {"create", "index", "done"}, row : AnchorRow] BY <2>2, <1>1 DEF AnchorTypeOK, IdleReg
    <3> QED BY <3>1, <2>2, <1>2 DEF RegState
  <2> QED BY <2>1, <2>2
<1>6. /\ xfer' \in [Transfer -> [pc : {"none", "record", "done"}, anchor : Home \cup {NoAnchor}, kind : {"deposit", "withdrawal"}]]
      /\ \A x \in Transfer : xfer'[x].pc # "record" /\ (xfer'[x].pc = "none" => xfer[x].pc = "none")
  BY <1>1, <1>2, ZenonT(60) DEF AnchorTypeOK
<1>7. AnchorTypeOK'
  <2>1. reg' \in [Registrar -> RegState] BY <1>2, <1>5
  <2>2. byID' \subseteq Home BY <1>3
  <2>3. restarts' \in 0..MaxRestarts BY <1>1, <1>2, MaxRestartsIsNat DEF AnchorTypeOK
  <2> QED BY <1>1, <1>2, <1>4, <1>6, <2>1, <2>2, <2>3 DEF AnchorTypeOK, RegState
<1>8. \A h : ~Indexing(h)' BY <1>5 DEF Indexing
<1>9. Known' = stored BY <1>2, <1>8 DEF Known
<1>10. RegistryIsTable'
  <2>1. \A c \in AssetCode : ToSet(byAsset'[c]) = {h \in stored : c \in anchors[h].assets} /\ IsInjective(byAsset'[c])
    BY <1>1, <1>2, LoadedLists
  <2>2. \A c \in AssetCode : ListOK(c)' BY <2>1, <1>2, <1>9 DEF ListOK
  <2>3. byID' = Known' BY <1>3, <1>9
  <2> QED BY <2>2, <2>3 DEF RegistryIsTable, Known, Indexing, ListOK
<1>11. StoredRows' BY <1>5 DEF StoredRows
<1>12. byID \subseteq byID' BY <1>1, <1>3 DEF RegistryIsTable
<1>13. TransfersOK' BY <1>1, <1>2, <1>6 DEF TransfersOK, IdlePoll
<1>14. RecordsCanBePolled' /\ ClosedIsCompleted' BY <1>1, <1>2, <1>12 DEF RecordsCanBePolled, ClosedIsCompleted
<1> QED BY <1>7, <1>10, <1>11, <1>13, <1>14 DEF AnchorInv

(* A transfer is opened with an anchor of the registry, before its record    *)
(* exists.                                                                   *)
LEMMA OpenTransferOK ==
  ASSUME AnchorInv, NEW x \in Transfer, NEW c \in AssetCode, NEW kind \in {"deposit", "withdrawal"}, OpenTransfer(x, c, kind)
  PROVE  AnchorInv'
<1> DEFINE to == ResolveForAsset(c)
<1>1. AnchorTypeOK /\ RegistryIsTable /\ TransfersOK /\ RecordsCanBePolled /\ ClosedIsCompleted BY DEF AnchorInv
<1>2. xfer[x].pc = "none" /\ to # NoAnchor /\ UNCHANGED <<registryVars, record, poll, restarts>> BY DEF OpenTransfer
<1>3. remote[x] = "none" /\ record[x] = NoRecord BY <1>1, <1>2 DEF TransfersOK
<1>4. to \in byID /\ to \in Home
  <2>1. byAsset[c] # <<>> /\ byAsset[c] \in Seq(Home) BY <1>1, <1>2 DEF ResolveForAsset, AnchorTypeOK
  <2>2. to = byAsset[c][1] /\ 1 \in DOMAIN byAsset[c] BY <2>1 DEF ResolveForAsset
  <2>3. to \in ToSet(byAsset[c]) BY <2>2 DEF ToSet
  <2> QED BY <2>3, <1>1 DEF RegistryIsTable
<1> HIDE DEF to
<1>5. PICK pc \in {"record", "done"} :
        \/ /\ remote' = [remote EXCEPT ![x] = "incomplete"]
           /\ xfer' = [xfer EXCEPT ![x] = [pc |-> pc, anchor |-> to, kind |-> kind]]
        \/ xfer' = [xfer EXCEPT ![x].pc = "done"] /\ UNCHANGED remote
  BY DEF OpenTransfer, to
<1>6. UNCHANGED <<anchors, byID, byAsset, reg, stamp>> BY <1>2 DEF registryVars
<1>7. AnchorTypeOK'
  <2> DEFINE t == [pc |-> pc, anchor |-> to, kind |-> kind]
             u == [xfer[x] EXCEPT !.pc = "done"]
             XferState == [pc : {"none", "record", "done"}, anchor : Home \cup {NoAnchor}, kind : {"deposit", "withdrawal"}]
  <2>1. xfer \in [Transfer -> XferState] BY <1>1 DEF AnchorTypeOK
  <2>2. t \in XferState /\ u \in XferState BY <1>4, <2>1
  <2>3. xfer' = [xfer EXCEPT ![x] = t] \/ xfer' = [xfer EXCEPT ![x] = u] BY <1>5
  <2> HIDE DEF t, u, XferState
  <2>4. xfer' \in [Transfer -> XferState] BY <2>1, <2>2, <2>3
  <2>5. remote' \in [Transfer -> RemoteStatus] BY <1>1, <1>5 DEF AnchorTypeOK, RemoteStatus
  <2> QED BY <2>4, <2>5, <1>1, <1>2, <1>6 DEF AnchorTypeOK, XferState
<1>8. RegistryIsTable' /\ StoredRows' BY <1>2, RegistryRests
<1>9. /\ xfer'[x].pc \in {"record", "done"} /\ (xfer'[x].pc = "record" => xfer'[x].anchor \in byID)
      /\ \A y \in Transfer \ {x} : xfer'[y] = xfer[y] /\ remote'[y] = remote[y]
  BY <1>1, <1>4, <1>5 DEF AnchorTypeOK
<1>10. \A q \in Poller : poll[q].pc # "idle" => poll[q].tx \in Transfer /\ poll[q].tx # x
  <2> SUFFICES ASSUME NEW q \in Poller, poll[q].pc # "idle" PROVE poll[q].tx \in Transfer /\ poll[q].tx # x OBVIOUS
  <2>1. poll[q].tx \in Transfer BY <1>1 DEF AnchorTypeOK, IdlePoll
  <2> QED BY <2>1, <1>1, <1>3 DEF TransfersOK
<1>11. TransfersOK' BY <1>1, <1>2, <1>6, <1>9, <1>10 DEF TransfersOK
<1>12. RecordsCanBePolled' BY <1>1, <1>2, <1>6 DEF RecordsCanBePolled
<1>13. ClosedIsCompleted' BY <1>1, <1>2, <1>3, <1>9 DEF ClosedIsCompleted
<1> QED BY <1>7, <1>8, <1>11, <1>12, <1>13 DEF AnchorInv

(* The record starts open, with the anchor the transfer was opened with.     *)
LEMMA RecordTransferOK == ASSUME AnchorInv, NEW x \in Transfer, RecordTransfer(x) PROVE AnchorInv'
<1> DEFINE new == [anchor |-> xfer[x].anchor, kind |-> xfer[x].kind, status |-> FirstStatus(xfer[x].anchor, xfer[x].kind), completedAt |-> FALSE]
<1>1. AnchorTypeOK /\ RegistryIsTable /\ TransfersOK /\ RecordsCanBePolled /\ ClosedIsCompleted BY DEF AnchorInv
<1>2. /\ xfer[x].pc = "record" /\ xfer' = [xfer EXCEPT ![x].pc = "done"] /\ UNCHANGED <<registryVars, remote, poll, restarts>>
      /\ record' = [record EXCEPT ![x] = new] \/ record' = record
  BY DEF RecordTransfer
<1>3. xfer[x].anchor \in byID /\ xfer[x].anchor \in Home /\ xfer[x].kind \in {"deposit", "withdrawal"}
  BY <1>1, <1>2 DEF TransfersOK, AnchorTypeOK
<1>4. FirstStatus(xfer[x].anchor, xfer[x].kind) \in RemoteStatus
  BY DEF FirstStatus, GetInteractiveUrl, InitiateSep6Deposit, InitiateSep6Withdrawal, RemoteStatus
<1>5. new \in AnchorTransaction /\ new.anchor \in byID /\ ~new.completedAt BY <1>3, <1>4 DEF AnchorTransaction
<1> HIDE DEF new
<1>6. new # NoRecord BY <1>5, NoRowIsNothing
<1>7. UNCHANGED <<anchors, byID, byAsset, reg, stamp>> BY <1>2 DEF registryVars
<1>8. AnchorTypeOK' BY <1>1, <1>2, <1>5, <1>7, ZenonT(60) DEF AnchorTypeOK
<1>9. RegistryIsTable' /\ StoredRows' BY <1>2, RegistryRests
<1>10. xfer'[x].pc = "done" /\ \A y \in Transfer \ {x} : xfer'[y] = xfer[y] BY <1>1, <1>2 DEF AnchorTypeOK
<1>11. (record'[x] = new \/ record'[x] = record[x]) /\ \A y \in Transfer \ {x} : record'[y] = record[y] BY <1>1, <1>2 DEF AnchorTypeOK
<1>12. \A q \in Poller : poll[q].pc # "idle" => poll[q].tx \in Transfer BY <1>1 DEF AnchorTypeOK, IdlePoll
<1>13. TransfersOK' BY <1>1, <1>2, <1>6, <1>7, <1>10, <1>11, <1>12 DEF TransfersOK
<1>14. RecordsCanBePolled' BY <1>1, <1>5, <1>7, <1>11 DEF RecordsCanBePolled
<1>15. ClosedIsCompleted' BY <1>1, <1>2, <1>5, <1>11 DEF ClosedIsCompleted
<1> QED BY <1>8, <1>9, <1>13, <1>14, <1>15 DEF AnchorInv

(* RemoteStep: a transfer that is completed stays so.                        *)
LEMMA RemoteStepOK == ASSUME AnchorInv, NEW x \in Transfer, RemoteStep(x) PROVE AnchorInv'
<1>1. AnchorTypeOK /\ TransfersOK /\ RecordsCanBePolled /\ ClosedIsCompleted BY DEF AnchorInv
<1>2. UNCHANGED <<registryVars, xfer, record, poll, restarts>> BY DEF RemoteStep
<1>3. PICK s \in RemoteStatus : remote' = [remote EXCEPT ![x] = s] /\ remote[x] \in {"incomplete", "pending_user_transfer_start"}
  BY DEF RemoteStep, RemoteStatus
<1>4. UNCHANGED <<anchors, byID, byAsset, reg, stamp>> BY <1>2 DEF registryVars
<1>5. AnchorTypeOK' BY <1>1, <1>2, <1>3, <1>4 DEF AnchorTypeOK
<1>6. RegistryIsTable' /\ StoredRows' BY <1>2, RegistryRests
<1>7. \A y \in Transfer : remote[y] \in {"none", "completed"} => remote'[y] = remote[y] BY <1>1, <1>3 DEF AnchorTypeOK
<1>8. \A q \in Poller : poll[q].pc # "idle" => poll[q].tx \in Transfer BY <1>1 DEF AnchorTypeOK, IdlePoll
<1>9. TransfersOK' BY <1>1, <1>2, <1>4, <1>7, <1>8 DEF TransfersOK
<1>10. RecordsCanBePolled' BY <1>1, <1>2, <1>4 DEF RecordsCanBePolled
<1>11. ClosedIsCompleted' BY <1>1, <1>2, <1>7 DEF ClosedIsCompleted
<1> QED BY <1>5, <1>6, <1>9, <1>10, <1>11 DEF AnchorInv

(* A status query: what it has seen completed is completed when it writes.   *)
LEMMA QueryOK ==
  ASSUME AnchorInv, NEW q \in Poller,
         \/ \E x \in Transfer : GetTransactionByID(q, x)
         \/ PollTransaction(q)
  PROVE  AnchorInv'
<1>1. AnchorTypeOK /\ TransfersOK /\ RecordsCanBePolled /\ ClosedIsCompleted BY DEF AnchorInv
<1>2. UNCHANGED <<registryVars, xfer, remote, record, restarts>> BY DEF GetTransactionByID, PollTransaction
<1>3. UNCHANGED <<anchors, byID, byAsset, reg, stamp>> BY <1>2 DEF registryVars
<1>4. \E s \in Asking \cup {IdlePoll} :
        /\ poll' = [poll EXCEPT ![q] = s]
        /\ s.pc # "idle" => record[s.tx] # NoRecord
        /\ (s.pc = "write" /\ s.seen = "completed") => remote[s.tx] = "completed"
  <2>1. CASE \E x \in Transfer : GetTransactionByID(q, x)
    <3>1. PICK x \in Transfer : GetTransactionByID(q, x) BY <2>1
    <3> DEFINE s == [pc |-> "ask", tx |-> x, copy |-> record[x].status, seen |-> "none"]
    <3>2. record[x] # NoRecord /\ poll' = [poll EXCEPT ![q] = s] BY <3>1 DEF GetTransactionByID
    <3>3. record[x] \in AnchorTransaction BY <3>2, <1>1 DEF AnchorTypeOK
    <3>4. s \in Asking BY <3>3 DEF Asking, AnchorTransaction, RemoteStatus
    <3>5. s.pc = "ask" /\ s.tx = x OBVIOUS
    <3> HIDE DEF s
    <3> QED BY <3>2, <3>4, <3>5
  <2>2. CASE PollTransaction(q)
    <3>1. poll[q] \in Asking BY <2>2, <1>1 DEF PollTransaction, AnchorTypeOK, IdlePoll, Asking
    <3>2. record[poll[q].tx] # NoRecord BY <2>2, <1>1 DEF PollTransaction, TransfersOK
    <3>3. CASE poll' = [poll EXCEPT ![q] = IdlePoll]
      <4>1. IdlePoll.pc = "idle" BY DEF IdlePoll
      <4> QED BY <3>3, <4>1
    <3>4. CASE poll' = [poll EXCEPT ![q].pc = "write", ![q].seen = remote[poll[q].tx]]
      <4> DEFINE s == [poll[q] EXCEPT !.pc = "write", !.seen = remote[poll[q].tx]]
      <4>1. remote[poll[q].tx] \in RemoteStatus BY <3>1, <1>1 DEF AnchorTypeOK, Asking
      <4>2. s \in Asking /\ s.tx = poll[q].tx /\ s.seen = remote[poll[q].tx] BY <3>1, <4>1 DEF Asking
      <4>3. poll' = [poll EXCEPT ![q] = s] BY <3>4, <1>1 DEF AnchorTypeOK
      <4> HIDE DEF s
      <4> QED BY <4>2, <4>3, <3>2
    <3> QED BY <2>2, <3>3, <3>4 DEF PollTransaction
  <2> QED BY <2>1, <2>2
<1>5. PICK s \in Asking \cup {IdlePoll} :
        /\ poll' = [poll EXCEPT ![q] = s]
        /\ s.pc # "idle" => record[s.tx] # NoRecord
        /\ (s.pc = "write" /\ s.seen = "completed") => remote[s.tx] = "completed"
  BY <1>4
<1>6. AnchorTypeOK' BY <1>1, <1>2, <1>3, <1>5 DEF AnchorTypeOK, Asking
<1>7. RegistryIsTable' /\ StoredRows' BY <1>2, RegistryRests
<1>8. poll'[q] = s /\ \A p \in Poller \ {q} : poll'[p] = poll[p] BY <1>1, <1>5 DEF AnchorTypeOK
<1>9. TransfersOK' BY <1>1, <1>2, <1>3, <1>5, <1>8 DEF TransfersOK
<1>10. RecordsCanBePolled' /\ ClosedIsCompleted' BY <1>1, <1>2, <1>3 DEF RecordsCanBePolled, ClosedIsCompleted
<1> QED BY <1>6, <1>7, <1>9, <1>10 DEF AnchorInv

(* The last writer wins, and it writes a status the anchor has had: a        *)
(* completed transfer stays completed.                                       *)
LEMMA UpdateTransactionStatusOK == ASSUME AnchorInv, NEW q \in Poller, UpdateTransactionStatus(q) PROVE AnchorInv'
<1> DEFINE x == poll[q].tx
           new == [record[x] EXCEPT !.status = poll[q].seen, !.completedAt = SetsCompletedAt(poll[q].seen)]
<1>1. AnchorTypeOK /\ TransfersOK /\ RecordsCanBePolled /\ ClosedIsCompleted BY DEF AnchorInv
<1>2. /\ poll[q].pc = "write" /\ poll' = [poll EXCEPT ![q] = IdlePoll] /\ UNCHANGED <<registryVars, xfer, remote, restarts>>
      /\ record' = [record EXCEPT ![x].status = poll[q].seen, ![x].completedAt = SetsCompletedAt(poll[q].seen)]
  BY DEF UpdateTransactionStatus
<1>3. UNCHANGED <<anchors, byID, byAsset, reg, stamp>> BY <1>2 DEF registryVars
<1>4. poll[q] \in Asking /\ x \in Transfer /\ poll[q].seen \in RemoteStatus
  <2>1. poll[q] \in Asking BY <1>1, <1>2 DEF AnchorTypeOK, IdlePoll, Asking
  <2> QED BY <2>1 DEF Asking
<1>5. record[x] # NoRecord BY <1>1, <1>2 DEF TransfersOK
<1>6. record[x] \in AnchorTransaction BY <1>1, <1>4, <1>5 DEF AnchorTypeOK
<1>7. record' = [record EXCEPT ![x] = new] BY <1>2, <1>4, <1>1 DEF AnchorTypeOK
<1>8. SetsCompletedAt(poll[q].seen) \in BOOLEAN BY DEF SetsCompletedAt
<1>9. /\ new \in AnchorTransaction /\ new.anchor = record[x].anchor /\ new.status = poll[q].seen
      /\ new.completedAt = SetsCompletedAt(poll[q].seen)
  BY <1>4, <1>6, <1>8 DEF AnchorTransaction
<1>10. poll[q].seen = "completed" => remote[x] = "completed" BY <1>1, <1>2 DEF TransfersOK
<1> HIDE DEF x, new
<1>11. new # NoRecord BY <1>9, NoRowIsNothing
<1>12. AnchorTypeOK' BY <1>1, <1>2, <1>3, <1>4, <1>7, <1>9, ZenonT(60) DEF AnchorTypeOK
<1>13. RegistryIsTable' /\ StoredRows' BY <1>2, RegistryRests
<1>14. record'[x] = new /\ \A y \in Transfer \ {x} : record'[y] = record[y] BY <1>1, <1>4, <1>7 DEF AnchorTypeOK
<1>15. poll'[q].pc = "idle" /\ \A p \in Poller \ {q} : poll'[p] = poll[p] BY <1>1, <1>2 DEF AnchorTypeOK, IdlePoll
<1>16. \A p \in Poller : poll[p].pc # "idle" => poll[p].tx \in Transfer BY <1>1 DEF AnchorTypeOK, IdlePoll
<1>17. TransfersOK' 
  <2>1. \A y \in Transfer : xfer'[y].pc = "none" => remote'[y] = "none" /\ record'[y] = NoRecord
    BY <1>1, <1>2, <1>4, <1>5, <1>14 DEF TransfersOK
  <2>2. \A y \in Transfer : xfer'[y].pc = "record" => xfer'[y].anchor \in byID' BY <1>1, <1>2, <1>3 DEF TransfersOK
  <2>3. \A p \in Poller : poll'[p].pc # "idle" => record'[poll'[p].tx] # NoRecord
    BY <1>1, <1>11, <1>14, <1>15, <1>16 DEF TransfersOK
  <2>4. \A p \in Poller : (poll'[p].pc = "write" /\ poll'[p].seen = "completed") => remote'[poll'[p].tx] = "completed"
    BY <1>1, <1>2, <1>15 DEF TransfersOK
  <2> QED BY <2>1, <2>2, <2>3, <2>4 DEF TransfersOK
<1>18. RecordsCanBePolled' BY <1>1, <1>3, <1>4, <1>5, <1>9, <1>14 DEF RecordsCanBePolled
<1>19. ClosedIsCompleted' BY <1>1, <1>2, <1>9, <1>10, <1>14, ZenonT(60) DEF ClosedIsCompleted, SetsCompletedAt
<1> QED BY <1>12, <1>13, <1>17, <1>18, <1>19 DEF AnchorInv

(* For any number of anchors, registrations, transfers and status queries,   *)
(* and over any number of restarts, the registry is its table, every record  *)
(* can be polled, and only completed transfers are closed (Registry.Load,    *)
(* Register, AnchorService.GetTransaction).                                  *)
THEOREM AnchorsAreSafe == AnchorSpec => []AnchorSafe
<1>1. AnchorInit => AnchorInv
  <2> SUFFICES ASSUME AnchorInit PROVE AnchorInv OBVIOUS
  <2>1. AnchorTypeOK BY MaxRestartsIsNat DEF AnchorInit, AnchorTypeOK, RemoteStatus
  <2>2. \A g \in Registrar : reg[g].pc = "idle" BY DEF AnchorInit, IdleReg
  <2>3. \A c \in AssetCode : ListOK(c)
    <3>1. \A c \in AssetCode : byAsset[c] = <<>> BY DEF AnchorInit
    <3>2. Known = {} BY DEF AnchorInit, Known
    <3> QED BY <3>1, <3>2 DEF ListOK, ToSet, IsInjective
  <2>4. byID = Known BY DEF AnchorInit, Known
  <2>5. RegistryIsTable BY <2>3, <2>4, RegistryByAsset
  <2>6. StoredRows BY <2>2 DEF StoredRows
  <2>7. TransfersOK BY DEF AnchorInit, TransfersOK, IdlePoll
  <2>8. RecordsCanBePolled /\ ClosedIsCompleted BY DEF AnchorInit, RecordsCanBePolled, ClosedIsCompleted
  <2> QED BY <2>1, <2>5, <2>6, <2>7, <2>8 DEF AnchorInv
<1>2. AnchorInv /\ [AnchorNext]_anchorVars => AnchorInv'
  <2> SUFFICES ASSUME AnchorInv, [AnchorNext]_anchorVars PROVE AnchorInv' OBVIOUS
  <2>1. CASE AnchorNext
    BY <2>1, FetchAnchorOK, CreateAnchorOK, IndexAnchorOK, AnchorRestartOK, OpenTransferOK, RecordTransferOK, RemoteStepOK,
       QueryOK, UpdateTransactionStatusOK DEF AnchorNext, PollStep
  <2>2. CASE UNCHANGED anchorVars
    <3>1. UNCHANGED registryVars /\ UNCHANGED <<anchors, byID, byAsset, reg, stamp, xfer, remote, record, poll, restarts>>
      BY <2>2 DEF anchorVars, registryVars
    <3>2. RegistryIsTable' /\ StoredRows' BY <3>1, RegistryRests
    <3>3. AnchorTypeOK' BY <3>1 DEF AnchorInv, AnchorTypeOK
    <3>4. TransfersOK' /\ RecordsCanBePolled' /\ ClosedIsCompleted'
      BY <3>1 DEF AnchorInv, TransfersOK, RecordsCanBePolled, ClosedIsCompleted
    <3> QED BY <3>2, <3>3, <3>4 DEF AnchorInv
  <2> QED BY <2>1, <2>2
<1>3. AnchorInv => AnchorSafe BY DEF AnchorInv, AnchorSafe
<1> QED BY <1>1, <1>2, <1>3, PTL DEF AnchorSpec

-----------------------------------------------------------------------------
(***************************************************************************)
(* What settlement on XDC guarantees for any number of transfers and       *)
(* workers.  A row leaves pending once, so that one worker in the life of  *)
(* a transfer sends its main leg; the wallet's mutex keeps every main leg  *)
(* at a nonce above those sent before; the chain only grows, so what was   *)
(* confirmed stays confirmed.                                              *)
(***************************************************************************)
USE FeesOfTransfers, NoTxIsNothing

FeePosition == {"feeNonce", "feeSend", "feeRecord"}

(* Everything in the pool and in the blocks.                                 *)
OnChain == {mem[i] : i \in 1..Len(mem)} \cup {ledger[i].tx : i \in 1..Len(ledger)}

(* A transaction sits where its nonce says.                                  *)
Nonces ==
  /\ \A i \in 1..Len(mem) : mem[i].n = Len(ledger) + i - 1
  /\ \A i \in 1..Len(ledger) : ledger[i].tx.n = i - 1
  /\ buried <= Len(ledger)

ChainOK == XDCTypeOK /\ Nonces

Unsent(t) == \A x \in OnChain : x.t # t
Paid(t) == \E i \in 1..buried : ledger[i].ok /\ ledger[i].tx.t = t /\ ledger[i].tx.leg = "main"

(* What a worker at work may rely on.                                        *)
WorkerOK(w) ==
  /\ wtx[w] \in XTransfer
  /\ wpc[w] \notin FeePosition => xrow[wtx[w]].status = "submitted"
  /\ xrow[wtx[w]].status \in {"submitted", "confirmed"}
  /\ wpc[w] \in {"nonce", "send"} => Unsent(wtx[w])
  /\ wpc[w] = "fail" => wtx[w] \in ambiguous \/ Unsent(wtx[w])
  /\ wpc[w] \in {"wait", "submitted", "confirm"} \cup FeePosition =>
       whash[w] \in ChainTx /\ whash[w].t = wtx[w] /\ whash[w].leg = "main"
  /\ wpc[w] \in {"confirm"} \cup FeePosition => Confirmed(whash[w])
  /\ wpc[w] \in {"send", "feeSend"} => wnonce[w] <= PendingNonceAt
  /\ wpc[w] = "send" => \A x \in OnChain : x.leg = "main" => x.n < wnonce[w]

WorkersOK ==
  /\ \A w \in XWorker : wpc[w] # "idle" => WorkerOK(w)
  /\ \A w \in XWorker : wpc[w] = "send" <=> walletLock = w
  /\ \A w, v \in XWorker : w # v /\ wpc[w] # "idle" /\ wpc[v] # "idle" => wtx[w] # wtx[v]

(* What holds of a row and the chain.                                        *)
RowOK(t) ==
  /\ xrow[t].status = "pending" => Unsent(t)
  /\ xrow[t].status = "failed" /\ t \notin ambiguous => Unsent(t)
  /\ xrow[t].status = "confirmed" => xrow[t].hash.t = t /\ xrow[t].hash.leg = "main" /\ Confirmed(xrow[t].hash)
  /\ \A x, y \in OnChain : x.t = t /\ y.t = t /\ x.leg = "main" /\ y.leg = "main" => x.n = y.n
  /\ (t \in feeRecorded \/ \E x \in OnChain : x.t = t /\ x.leg = "fee") => Paid(t)

RowsOK == \A t \in XTransfer : RowOK(t)

XDCInv == ChainOK /\ WorkersOK /\ RowsOK /\ MainLegsNeverClash
-----------------------------------------------------------------------------
(* The chain's own steps. *)

(* Mining moves a transaction from the pool to the ledger and changes no     *)
(* nonce.                                                                    *)
LEMMA MineChain ==
  ASSUME ChainOK, Mine
  PROVE  /\ ChainOK' /\ OnChain' = OnChain /\ PendingNonceAt' = PendingNonceAt
         /\ Len(ledger') = Len(ledger) + 1
         /\ \A i \in 1..Len(ledger) : ledger'[i] = ledger[i]
<1>0. XDCTypeOK /\ Nonces /\ mem \in Seq(ChainTx) /\ ledger \in Seq([tx : ChainTx, ok : BOOLEAN]) /\ buried \in Nat
  BY DEF ChainOK, XDCTypeOK
<1>1. PICK ok \in BOOLEAN : ledger' = Append(ledger, [tx |-> Head(mem), ok |-> ok])
  BY DEF Mine
<1>2. mem # <<>> /\ mem' = Tail(mem) /\ buried' = buried
  BY DEF Mine
<1>3. Head(mem) \in ChainTx /\ Head(mem) = mem[1] /\ Len(mem) \in Nat \ {0} /\ Len(ledger) \in Nat
  BY <1>0, <1>2
<1>4. /\ mem' \in Seq(ChainTx) /\ Len(mem') = Len(mem) - 1
      /\ \A i \in 1..Len(mem') : mem'[i] = mem[i + 1]
  BY <1>0, <1>2
<1> DEFINE e == [tx |-> Head(mem), ok |-> ok]
<1>5. e \in [tx : ChainTx, ok : BOOLEAN] /\ e.tx = mem[1]
  BY <1>3
<1>6. /\ ledger' \in Seq([tx : ChainTx, ok : BOOLEAN]) /\ Len(ledger') = Len(ledger) + 1
      /\ \A i \in 1..Len(ledger) : ledger'[i] = ledger[i]
      /\ ledger'[Len(ledger) + 1] = e
  BY <1>0, <1>1, <1>5, AppendProperties
<1> HIDE DEF e
<1>7. Nonces'
  <2>1. \A i \in 1..Len(mem') : mem'[i].n = Len(ledger') + i - 1
    <3> SUFFICES ASSUME NEW i \in 1..Len(mem') PROVE mem'[i].n = Len(ledger') + i - 1
      OBVIOUS
    <3>1. i + 1 \in 1..Len(mem) /\ mem'[i] = mem[i + 1]
      BY <1>3, <1>4
    <3> QED
      BY <1>0, <1>3, <1>6, <3>1 DEF Nonces
  <2>2. \A i \in 1..Len(ledger') : ledger'[i].tx.n = i - 1
    <3>1. ledger'[Len(ledger) + 1].tx.n = Len(ledger)
      BY <1>0, <1>3, <1>5, <1>6 DEF Nonces
    <3> QED
      BY <1>0, <1>3, <1>6, <3>1, SMTT(60) DEF Nonces
  <2>3. buried' <= Len(ledger')
    BY <1>0, <1>2, <1>3, <1>6 DEF Nonces
  <2> QED
    BY <2>1, <2>2, <2>3 DEF Nonces
<1>8. ASSUME NEW x \in OnChain PROVE x \in OnChain'
  <2>1. CASE \E i \in 1..Len(ledger) : x = ledger[i].tx
    <3>1. PICK i \in 1..Len(ledger) : x = ledger[i].tx
      BY <2>1
    <3>2. i \in 1..Len(ledger') /\ ledger'[i] = ledger[i]
      BY <1>3, <1>6
    <3> QED
      BY <3>1, <3>2 DEF OnChain
  <2>2. CASE \E i \in 1..Len(mem) : x = mem[i]
    <3>1. PICK i \in 1..Len(mem) : x = mem[i]
      BY <2>2
    <3>2. CASE i = 1
      <4>1. Len(ledger) + 1 \in 1..Len(ledger') /\ ledger'[Len(ledger) + 1].tx = x
        BY <1>3, <1>5, <1>6, <3>1, <3>2
      <4> QED
        BY <4>1 DEF OnChain
    <3>3. CASE i # 1
      <4>1. i - 1 \in 1..Len(mem') /\ mem'[i - 1] = mem[i]
        BY <1>3, <1>4, <3>3
      <4> QED
        BY <3>1, <4>1 DEF OnChain
    <3> QED
      BY <3>2, <3>3
  <2> QED
    BY <1>8, <2>1, <2>2 DEF OnChain
<1>9. ASSUME NEW x \in OnChain' PROVE x \in OnChain
  <2>1. CASE \E i \in 1..Len(mem') : x = mem'[i]
    <3>1. PICK i \in 1..Len(mem') : x = mem'[i]
      BY <2>1
    <3>2. i + 1 \in 1..Len(mem) /\ x = mem[i + 1]
      BY <1>3, <1>4, <3>1
    <3> QED
      BY <3>2 DEF OnChain
  <2>2. CASE \E i \in 1..Len(ledger') : x = ledger'[i].tx
    <3>1. PICK i \in 1..Len(ledger') : x = ledger'[i].tx
      BY <2>2
    <3>2. CASE i = Len(ledger) + 1
      <4>1. 1 \in 1..Len(mem) /\ x = mem[1]
        BY <1>3, <1>5, <1>6, <3>1, <3>2
      <4> QED
        BY <4>1 DEF OnChain
    <3>3. CASE i # Len(ledger) + 1
      <4>1. i \in 1..Len(ledger) /\ x = ledger[i].tx
        BY <1>3, <1>6, <3>1, <3>3
      <4> QED
        BY <4>1 DEF OnChain
    <3> QED
      BY <3>2, <3>3
  <2> QED
    BY <1>9, <2>1, <2>2 DEF OnChain
<1>10. XDCTypeOK'
  BY <1>0, <1>4, <1>6 DEF XDCTypeOK, Mine, workerVars, historyVars
<1>11. PendingNonceAt' = PendingNonceAt
  BY <1>3, <1>4, <1>6 DEF PendingNonceAt
<1>12. OnChain' = OnChain
  BY <1>8, <1>9
<1> QED
  BY <1>6, <1>7, <1>10, <1>11, <1>12 DEF ChainOK

(* A transaction that the pool accepts is there, at its nonce, perhaps in    *)
(* place of another.                                                         *)
LEMMA AcceptChain ==
  ASSUME ChainOK, NEW x \in ChainTx, x.n <= PendingNonceAt, Accepted(x), UNCHANGED <<ledger, buried>>
  PROVE  /\ mem' \in Seq(ChainTx) /\ Nonces'
         /\ OnChain' \subseteq OnChain \cup {x}
         /\ PendingNonceAt' \in Nat /\ PendingNonceAt' >= PendingNonceAt
<1>0. /\ mem \in Seq(ChainTx) /\ Nonces /\ x.n \in Nat /\ Len(mem) \in Nat /\ Len(ledger) \in Nat
  BY DEF ChainTx, ChainOK, XDCTypeOK
<1>1. CASE x.n = PendingNonceAt
  <2>1. /\ mem' \in Seq(ChainTx) /\ Len(mem') = Len(mem) + 1
        /\ \A i \in 1..Len(mem) : mem'[i] = mem[i]
        /\ mem'[Len(mem) + 1] = x
    BY <1>0, <1>1, AppendProperties DEF Accepted
  <2>2. \A i \in 1..Len(mem') : mem'[i].n = Len(ledger') + i - 1
    BY <1>0, <1>1, <2>1 DEF Nonces, PendingNonceAt
  <2>3. Nonces'
    BY <1>0, <2>2 DEF Nonces
  <2>4. ASSUME NEW y \in OnChain' PROVE y \in OnChain \cup {x}
    <3>1. CASE \E i \in 1..Len(mem') : y = mem'[i]
      <4>1. PICK i \in 1..Len(mem') : y = mem'[i]
        BY <3>1
      <4>2. y = x \/ (i \in 1..Len(mem) /\ y = mem[i])
        BY <1>0, <2>1, <4>1
      <4> QED
        BY <4>2 DEF OnChain
    <3> QED
      BY <2>4, <3>1 DEF OnChain
  <2>5. PendingNonceAt' \in Nat /\ PendingNonceAt' >= PendingNonceAt
    BY <1>0, <2>1 DEF PendingNonceAt
  <2>6. OnChain' \subseteq OnChain \cup {x}
    BY <2>4
  <2> QED
    BY <2>1, <2>3, <2>5, <2>6
<1>2. CASE x.n # PendingNonceAt
  <2> DEFINE k == x.n - Len(ledger) + 1
  <2>1. x.n >= Len(ledger) /\ x.n < Len(ledger) + Len(mem)
    BY <1>0, <1>2 DEF Accepted, PendingNonceAt
  <2>2. k \in 1..Len(mem) /\ x.n = Len(ledger) + k - 1
    BY <1>0, <2>1
  <2>3. mem' = [mem EXCEPT ![k] = x]
    BY <1>2 DEF Accepted
  <2> HIDE DEF k
  <2>4. /\ mem' \in Seq(ChainTx) /\ Len(mem') = Len(mem)
        /\ \A i \in 1..Len(mem) : mem'[i] = IF i = k THEN x ELSE mem[i]
    BY <1>0, <2>2, <2>3, ExceptSeq
  <2>5. \A i \in 1..Len(mem') : mem'[i].n = Len(ledger') + i - 1
    BY <1>0, <2>2, <2>4 DEF Nonces
  <2>6. Nonces'
    BY <1>0, <2>5 DEF Nonces
  <2>7. ASSUME NEW y \in OnChain' PROVE y \in OnChain \cup {x}
    BY <2>4, <2>7 DEF OnChain
  <2>8. PendingNonceAt' = PendingNonceAt /\ PendingNonceAt \in Nat
    BY <1>0, <2>4 DEF PendingNonceAt
  <2>9. OnChain' \subseteq OnChain \cup {x}
    BY <2>7
  <2> QED
    BY <2>4, <2>6, <2>8, <2>9
<1> QED
  BY <1>1, <1>2
-----------------------------------------------------------------------------
(* The chain never takes a confirmation back.                                *)
Grows ==
  /\ Len(ledger) \in Nat /\ Len(ledger') \in Nat /\ Len(ledger') >= Len(ledger)
  /\ \A i \in 1..Len(ledger) : ledger'[i] = ledger[i]
  /\ buried \in Nat /\ buried' \in Nat /\ buried' >= buried

(* What is confirmed stays so, as the ledger and its buried part only grow.  *)
LEMMA ConfirmedStays ==
  ASSUME Nonces, Grows
  PROVE  /\ \A x : Confirmed(x) => Confirmed(x)'
         /\ \A t : Paid(t) => Paid(t)'
<1>1. \A i \in 1..buried : i \in 1..buried' /\ ledger'[i] = ledger[i]
  BY DEF Nonces, Grows
<1> QED
  BY <1>1 DEF Confirmed, Paid

(* A confirmed main leg pays its transfer.                                   *)
LEMMA ConfirmedIsMain ==
  ASSUME NEW x, Confirmed(x), x.leg = "main"
  PROVE  Paid(x.t)
  BY DEF Confirmed, Paid

(* What a step of worker w for transfer t leaves alone: the other workers,   *)
(* the other rows, and on the chain all but a transaction of t.              *)
Local(w, t) ==
  /\ \A v \in XWorker : v # w =>
       /\ wpc'[v] = wpc[v] /\ wtx'[v] = wtx[v] /\ wnonce'[v] = wnonce[v] /\ whash'[v] = whash[v]
       /\ wpc[v] # "idle" => wtx[v] # t
  /\ \A u \in XTransfer : u # t => xrow'[u] = xrow[u]
  /\ Grows /\ PendingNonceAt' \in Nat /\ PendingNonceAt \in Nat /\ PendingNonceAt' >= PendingNonceAt
  /\ \A x \in OnChain' : x \in OnChain \/
       (x.t = t /\ (x.leg = "main" => \A v \in XWorker : v # w => wpc[v] # "send"))
  /\ ambiguous \subseteq ambiguous' /\ feeRecorded' \subseteq feeRecorded \cup {t}

(* A step of one worker on its own transfer, from what holds of the two.     *)
LEMMA LocalStep ==
  ASSUME XDCInv, NEW w \in XWorker, NEW t \in XTransfer, Local(w, t),
         ChainOK',
         wpc'[w] # "idle" => wtx'[w] = t /\ WorkerOK(w)',
         \A v \in XWorker : wpc'[v] = "send" <=> walletLock' = v,
         RowOK(t)',
         MainLegsNeverClash'
  PROVE  XDCInv'
<1>1. /\ \A x : Confirmed(x) => Confirmed(x)'
      /\ \A u : Paid(u) => Paid(u)'
  BY ConfirmedStays DEF XDCInv, ChainOK, Local
<1>2. \A u \in XTransfer : u # t /\ Unsent(u) => Unsent(u)'
  BY DEF Local, Unsent
<1>3. ASSUME NEW v \in XWorker, v # w, wpc'[v] # "idle" PROVE WorkerOK(v)'
  <2>1. WorkerOK(v) /\ wtx[v] # t
    BY <1>3 DEF XDCInv, WorkersOK, Local
  <2>2. /\ wpc'[v] = wpc[v] /\ wtx'[v] = wtx[v] /\ wnonce'[v] = wnonce[v] /\ whash'[v] = whash[v]
        /\ wtx[v] \in XTransfer /\ xrow'[wtx[v]] = xrow[wtx[v]] /\ wnonce[v] \in Nat
    BY <1>3, <2>1 DEF Local, WorkerOK, XDCInv, ChainOK, XDCTypeOK
  <2>3. wpc[v] = "send" => \A x \in OnChain' : x.leg = "main" => x.n < wnonce[v]
    BY <1>3, <2>1 DEF Local, WorkerOK
  <2>4. wpc[v] \in {"send", "feeSend"} => wnonce[v] <= PendingNonceAt'
    BY <2>1, <2>2 DEF Local, WorkerOK
  <2>5. Unsent(wtx[v]) => Unsent(wtx[v])'
    BY <1>2, <2>1, <2>2
  <2> QED
    BY <1>1, <2>1, <2>2, <2>3, <2>4, <2>5 DEF WorkerOK, Local
<1>4. WorkersOK'
  BY <1>3 DEF WorkersOK, Local, XDCInv
<1>5. ASSUME NEW u \in XTransfer, u # t PROVE RowOK(u)'
  <2>1. RowOK(u) /\ xrow'[u] = xrow[u]
    BY <1>5 DEF XDCInv, RowsOK, Local
  <2>2. \A x \in OnChain' : x.t = u => x \in OnChain
    BY <1>5 DEF Local
  <2>3. u \in feeRecorded' => u \in feeRecorded
    BY <1>5 DEF Local
  <2>4. u \in ambiguous => u \in ambiguous'
    BY DEF Local
  <2> QED
    BY <1>1, <1>2, <1>5, <2>1, <2>2, <2>3, <2>4 DEF RowOK
<1>6. RowsOK'
  BY <1>5 DEF RowsOK
<1> QED
  BY <1>4, <1>6 DEF XDCInv

(* A step off the chain keeps what is on it.                                 *)
LEMMA Quiet ==
  ASSUME XDCInv, UNCHANGED <<mem, ledger, buried>>
  PROVE  /\ Grows /\ OnChain' = OnChain /\ Nonces'
         /\ PendingNonceAt' = PendingNonceAt /\ PendingNonceAt \in Nat
         /\ \A x : Confirmed(x)' <=> Confirmed(x)
         /\ \A t : Paid(t)' <=> Paid(t)
         /\ \A t : Unsent(t)' <=> Unsent(t)
<1>1. Len(ledger) \in Nat /\ Len(mem) \in Nat /\ buried \in Nat /\ Nonces
  BY DEF XDCInv, ChainOK, XDCTypeOK
<1>2. Grows
  BY <1>1 DEF Grows
<1>3. OnChain' = OnChain /\ Nonces'
  BY <1>1 DEF OnChain, Nonces
<1>4. PendingNonceAt' = PendingNonceAt /\ PendingNonceAt \in Nat
  BY <1>1 DEF PendingNonceAt
<1>5. /\ \A x : Confirmed(x)' <=> Confirmed(x)
      /\ \A t : Paid(t)' <=> Paid(t)
  BY DEF Confirmed, Paid
<1> QED
  BY <1>2, <1>3, <1>4, <1>5 DEF Unsent

(* A worker at work has a transfer, and an UPDATE of its row is typed.       *)
LEMMA Busy ==
  ASSUME XDCInv, NEW w \in XWorker, wpc[w] # "idle"
  PROVE  wtx[w] \in XTransfer /\ WorkerOK(w) /\ xrow[wtx[w]].status \in {"submitted", "confirmed"}
  BY DEF XDCInv, WorkersOK, WorkerOK

(* UpdateStatus writes the row of one transfer.                              *)
LEMMA StatusWritten ==
  ASSUME XDCInv, NEW t \in XTransfer, NEW s \in {"submitted", "confirmed", "failed"},
         NEW x \in ChainTx \cup {NoTx}, UpdateStatus(t, s, x)
  PROVE  /\ xrow' \in [XTransfer -> [status : {"pending", "submitted", "confirmed", "failed"},
                                     hash : ChainTx \cup {NoTx}]]
         /\ \A u \in XTransfer : u # t => xrow'[u] = xrow[u]
         /\ \/ xrow'[t] = xrow[t]
            \/ xrow'[t].status = s /\ xrow'[t].hash = x
<1>1. xrow \in [XTransfer -> [status : {"pending", "submitted", "confirmed", "failed"},
                              hash : ChainTx \cup {NoTx}]]
  BY DEF XDCInv, ChainOK, XDCTypeOK
<1> QED
  BY <1>1 DEF UpdateStatus

(* What a worker sends is a transaction.                                     *)
LEMMA TxOfWorker ==
  ASSUME XDCInv, NEW w \in XWorker, wpc[w] # "idle", NEW leg \in {"main", "fee"}
  PROVE  [t |-> wtx[w], leg |-> leg, n |-> wnonce[w]] \in ChainTx
<1>1. wtx[w] \in XTransfer /\ wnonce[w] \in Nat
  BY Busy DEF XDCInv, ChainOK, XDCTypeOK
<1> QED
  BY <1>1 DEF ChainTx

(* Two transactions with one nonce are legs of transfers.                    *)
LEMMA RivalsAreLegs ==
  ASSUME ChainOK, NEW x
  PROVE  /\ Rivals(x) \subseteq {"main", "fee"}
         /\ \A l \in Rivals(x) : \E y \in OnChain : y.n = x.n /\ y.leg = l
<1>1. /\ DOMAIN mem = 1..Len(mem) /\ DOMAIN ledger = 1..Len(ledger)
      /\ \A i \in 1..Len(mem) : mem[i] \in ChainTx
      /\ \A i \in 1..Len(ledger) : ledger[i].tx \in ChainTx
  <2>1. mem \in Seq(ChainTx) /\ ledger \in Seq([tx : ChainTx, ok : BOOLEAN])
    BY DEF ChainOK, XDCTypeOK
  <2>2. \A i \in 1..Len(ledger) : ledger[i] \in [tx : ChainTx, ok : BOOLEAN]
    BY <2>1, ElementOfSeq
  <2> QED
    BY <2>1, <2>2
<1>2. ASSUME NEW l \in Rivals(x) PROVE l \in {"main", "fee"} /\ \E y \in OnChain : y.n = x.n /\ y.leg = l
  <2>1. CASE \E i \in 1..Len(mem) : mem[i].n = x.n /\ l = mem[i].leg
    BY <1>1, <2>1 DEF OnChain, ChainTx
  <2>2. CASE \E i \in 1..Len(ledger) : ledger[i].tx.n = x.n /\ l = ledger[i].tx.leg
    BY <1>1, <2>2 DEF OnChain, ChainTx
  <2> QED
    BY <1>1, <1>2, <2>1, <2>2 DEF Rivals
<1> QED
  BY <1>2
-----------------------------------------------------------------------------
(* One worker claims a transfer.                                             *)
LEMMA ClaimStep ==
  ASSUME XDCInv, NEW w \in XWorker, NEW t \in XTransfer, XClaim(w, t)
  PROVE  XDCInv'
<1> USE DEF XDCInv
<1>1. /\ wpc[w] = "idle" /\ xrow[t].status = "pending"
      /\ xrow' = [xrow EXCEPT ![t].status = "submitted"]
      /\ wtx' = [wtx EXCEPT ![w] = t] /\ whash' = [whash EXCEPT ![w] = NoTx]
      /\ wpc' = [wpc EXCEPT ![w] = "nonce"]
      /\ UNCHANGED <<deposits, wnonce, walletLock, mem, ledger, buried, feeRecorded, ambiguous, clashes, cut>>
  BY DEF XClaim, ClaimableRow, Goto, chainVars, historyVars
<1>2. /\ Grows /\ OnChain' = OnChain /\ Nonces'
      /\ PendingNonceAt' = PendingNonceAt /\ PendingNonceAt \in Nat
      /\ \A x : Confirmed(x)' <=> Confirmed(x)
      /\ \A u : Paid(u)' <=> Paid(u)
      /\ \A u : Unsent(u)' <=> Unsent(u)
  BY <1>1, Quiet
<1>3. /\ wpc'[w] = "nonce" /\ wtx'[w] = t
      /\ \A v \in XWorker : v # w => wpc'[v] = wpc[v] /\ wtx'[v] = wtx[v] /\ whash'[v] = whash[v]
  BY <1>1 DEF ChainOK, XDCTypeOK
<1>4. /\ xrow'[t].status = "submitted" /\ xrow'[t].hash = xrow[t].hash
      /\ \A u \in XTransfer : u # t => xrow'[u] = xrow[u]
      /\ xrow' \in [XTransfer -> [status : {"pending", "submitted", "confirmed", "failed"}, hash : ChainTx \cup {NoTx}]]
  <2>1. xrow \in [XTransfer -> [status : {"pending", "submitted", "confirmed", "failed"}, hash : ChainTx \cup {NoTx}]]
    BY DEF ChainOK, XDCTypeOK
  <2> QED
    BY <1>1, <2>1
<1>5. \A v \in XWorker : v # w /\ wpc[v] # "idle" => wtx[v] # t
  BY <1>1, Busy
<1>6. Local(w, t)
  BY <1>1, <1>2, <1>3, <1>4, <1>5 DEF Local
<1>7. ChainOK'
  BY <1>1, <1>2, <1>4 DEF ChainOK, XDCTypeOK, Position
<1>8. RowOK(t) /\ Unsent(t)
  BY <1>1 DEF RowsOK, RowOK
<1>9. WorkerOK(w)'
  BY <1>2, <1>3, <1>4, <1>8 DEF WorkerOK, FeePosition
<1>10. RowOK(t)'
  BY <1>1, <1>2, <1>4, <1>8 DEF RowOK
<1>11. \A v \in XWorker : wpc'[v] = "send" <=> walletLock' = v
  BY <1>1, <1>3 DEF WorkersOK
<1>12. MainLegsNeverClash'
  BY <1>1 DEF MainLegsNeverClash
<1> QED
  BY <1>3, <1>6, <1>7, <1>9, <1>10, <1>11, <1>12, LocalStep

(* A worker's step that sends nothing.                                       *)
LEMMA QuietStep ==
  ASSUME XDCInv, NEW w \in XWorker, NEW t \in XTransfer, t = wtx[w], wpc[w] # "idle",
         NEW pc \in Position, Goto(w, pc), UNCHANGED <<wtx, whash, mem, ledger, buried, ambiguous, clashes, deposits>>,
         wnonce' \in [XWorker -> Nat], \A v \in XWorker : v # w => wnonce'[v] = wnonce[v],
         xrow' \in [XTransfer -> [status : {"pending", "submitted", "confirmed", "failed"}, hash : ChainTx \cup {NoTx}]],
         \A u \in XTransfer : u # t => xrow'[u] = xrow[u],
         feeRecorded' \subseteq feeRecorded \cup {t}, cut' \subseteq XTransfer,
         walletLock' \in XWorker \cup {NoTx},
         \A v \in XWorker : wpc'[v] = "send" <=> walletLock' = v,
         pc # "idle" => WorkerOK(w)',
         RowOK(t)'
  PROVE  XDCInv'
<1>1. /\ Grows /\ OnChain' = OnChain /\ Nonces'
      /\ PendingNonceAt' = PendingNonceAt /\ PendingNonceAt \in Nat
  BY Quiet
<1>2. wpc'[w] = pc /\ \A v \in XWorker : v # w => wpc'[v] = wpc[v]
  BY DEF Goto, XDCInv, ChainOK, XDCTypeOK
<1>3. \A v \in XWorker : v # w /\ wpc[v] # "idle" => wtx[v] # t
  BY DEF XDCInv, WorkersOK
<1>4. Local(w, t)
  BY <1>1, <1>2, <1>3 DEF Local
<1>5. wpc' \in [XWorker -> Position]
  BY DEF Goto, XDCInv, ChainOK, XDCTypeOK
<1>6. ChainOK'
  BY <1>1, <1>5 DEF XDCInv, ChainOK, XDCTypeOK
<1>7. MainLegsNeverClash'
  BY DEF XDCInv, MainLegsNeverClash
<1> QED
  BY <1>2, <1>4, <1>6, <1>7, LocalStep

(* The nonce is the pending one, which no transaction on the chain has.      *)
LEMMA NonceStep == ASSUME XDCInv, NEW w \in XWorker, NEW t, t = wtx[w], XNonce(w) PROVE XDCInv'
<1>1. /\ wpc[w] = "nonce" /\ walletLock = NoTx /\ walletLock' = w
      /\ wnonce' = [wnonce EXCEPT ![w] = PendingNonceAt] /\ Goto(w, "send")
      /\ UNCHANGED <<xrow, deposits, wtx, whash, mem, ledger, buried, feeRecorded, ambiguous, clashes, cut>>
  BY DEF XNonce, LockFree, chainVars, historyVars
<1>2. t \in XTransfer /\ WorkerOK(w)
  BY <1>1, Busy
<1>3. /\ Grows /\ OnChain' = OnChain /\ Nonces'
      /\ PendingNonceAt' = PendingNonceAt /\ PendingNonceAt \in Nat
      /\ \A x : Confirmed(x)' <=> Confirmed(x)
      /\ \A u : Paid(u)' <=> Paid(u)
      /\ \A u : Unsent(u)' <=> Unsent(u)
  BY <1>1, Quiet
<1>4. XDCTypeOK /\ Nonces
  BY DEF XDCInv, ChainOK
<1>5. wpc'[w] = "send" /\ (\A v \in XWorker : v # w => wpc'[v] = wpc[v])
  BY <1>1, <1>4 DEF Goto, XDCTypeOK
<1>6. wnonce' \in [XWorker -> Nat] /\ wnonce'[w] = PendingNonceAt /\ \A v \in XWorker : v # w => wnonce'[v] = wnonce[v]
  BY <1>1, <1>3, <1>4 DEF XDCTypeOK
<1>7. \A x \in OnChain : x.n < PendingNonceAt
  <2>1. Len(mem) \in Nat /\ Len(ledger) \in Nat
    BY <1>4 DEF XDCTypeOK
  <2> QED
    BY <1>4, <2>1 DEF OnChain, PendingNonceAt, Nonces
<1>8. WorkerOK(w)'
  BY <1>1, <1>2, <1>3, <1>5, <1>6, <1>7 DEF WorkerOK, FeePosition
<1>9. RowOK(t)'
  BY <1>1, <1>2, <1>3 DEF XDCInv, RowsOK, RowOK
<1>10. \A v \in XWorker : wpc'[v] = "send" <=> walletLock' = v
  BY <1>1, <1>5 DEF XDCInv, WorkersOK
<1>11. xrow' = xrow /\ xrow \in [XTransfer -> [status : {"pending", "submitted", "confirmed", "failed"}, hash : ChainTx \cup {NoTx}]]
       /\ cut' \subseteq XTransfer
  BY <1>1, <1>4 DEF XDCTypeOK
<1> QED
  BY <1>1, <1>2, <1>6, <1>8, <1>9, <1>10, <1>11, QuietStep DEF Position

(* The same for a step that changes no nonce and no lock: what is left to    *)
(* show is about the worker and its row.                                     *)
LEMMA RowStep ==
  ASSUME XDCInv, NEW w \in XWorker, NEW t, t = wtx[w], wpc[w] \notin {"idle", "send"},
         NEW pc \in Position \ {"send"}, Goto(w, pc),
         UNCHANGED <<deposits, wtx, wnonce, whash, walletLock, chainVars, historyVars>>,
         xrow' \in [XTransfer -> [status : {"pending", "submitted", "confirmed", "failed"}, hash : ChainTx \cup {NoTx}]],
         \A u \in XTransfer : u # t => xrow'[u] = xrow[u],
         feeRecorded' \subseteq feeRecorded \cup {t},
         pc # "idle" => WorkerOK(w)',
         RowOK(t)'
  PROVE  XDCInv'
<1>1. UNCHANGED <<mem, ledger, buried, ambiguous, clashes, cut>>
  BY DEF chainVars, historyVars
<1>2. t \in XTransfer
  BY Busy
<1>3. wpc'[w] = pc /\ \A v \in XWorker : v # w => wpc'[v] = wpc[v]
  BY DEF Goto, XDCInv, ChainOK, XDCTypeOK
<1>4. \A v \in XWorker : wpc'[v] = "send" <=> walletLock' = v
  BY <1>3 DEF XDCInv, WorkersOK
<1>5. wnonce' \in [XWorker -> Nat] /\ cut' \subseteq XTransfer /\ walletLock' \in XWorker \cup {NoTx}
  BY <1>1 DEF XDCInv, ChainOK, XDCTypeOK
<1> QED
  BY <1>1, <1>2, <1>4, <1>5, QuietStep

(* The facts about worker, row and chain that the following steps use.       *)
LEMMA AtRow ==
  ASSUME XDCInv, NEW w \in XWorker, NEW t, t = wtx[w], wpc[w] # "idle", NEW pc \in Position, Goto(w, pc),
         UNCHANGED chainVars
  PROVE  /\ t \in XTransfer /\ WorkerOK(w) /\ RowOK(t) /\ wpc'[w] = pc
         /\ OnChain' = OnChain
         /\ \A x : Confirmed(x)' <=> Confirmed(x)
         /\ \A u : Paid(u)' <=> Paid(u)
         /\ \A u : Unsent(u)' <=> Unsent(u)
         /\ PendingNonceAt' = PendingNonceAt
         /\ xrow \in [XTransfer -> [status : {"pending", "submitted", "confirmed", "failed"}, hash : ChainTx \cup {NoTx}]]
<1>1. UNCHANGED <<mem, ledger, buried>>
  BY DEF chainVars
<1>2. t \in XTransfer /\ WorkerOK(w) /\ RowOK(t)
  BY Busy DEF XDCInv, RowsOK
<1>3. wpc'[w] = pc
  BY DEF Goto, XDCInv, ChainOK, XDCTypeOK
<1>4. xrow \in [XTransfer -> [status : {"pending", "submitted", "confirmed", "failed"}, hash : ChainTx \cup {NoTx}]]
  BY DEF XDCInv, ChainOK, XDCTypeOK
<1> QED
  BY <1>1, <1>2, <1>3, <1>4, Quiet

(* A transfer is marked failed after nothing of it was sent, or after an     *)
(* ambiguous send.                                                           *)
LEMMA FailStep == ASSUME XDCInv, NEW w \in XWorker, NEW t, t = wtx[w], XFail(w) PROVE XDCInv'
<1>1. /\ wpc[w] \in {"nonce", "fail"} /\ UpdateStatus(t, "failed", NoTx) /\ Goto(w, "idle")
      /\ UNCHANGED <<deposits, wtx, wnonce, whash, walletLock, chainVars, feeRecorded, historyVars>>
  BY DEF XFail
<1>2. /\ t \in XTransfer /\ WorkerOK(w) /\ RowOK(t) /\ OnChain' = OnChain
      /\ \A x : Confirmed(x)' <=> Confirmed(x)
      /\ \A u : Paid(u)' <=> Paid(u)
      /\ \A u : Unsent(u)' <=> Unsent(u)
  BY <1>1, AtRow DEF Position
<1>3. /\ xrow' \in [XTransfer -> [status : {"pending", "submitted", "confirmed", "failed"}, hash : ChainTx \cup {NoTx}]]
      /\ \A u \in XTransfer : u # t => xrow'[u] = xrow[u]
      /\ \/ xrow'[t] = xrow[t]
         \/ xrow'[t].status = "failed"
  BY <1>1, <1>2, StatusWritten
<1>4. t \in ambiguous \/ Unsent(t)
  BY <1>1, <1>2 DEF WorkerOK
<1>5. ambiguous' = ambiguous
  BY <1>1 DEF historyVars
<1>6. RowOK(t)'
  BY <1>1, <1>2, <1>3, <1>4, <1>5 DEF RowOK
<1> QED
  BY <1>1, <1>3, <1>6, RowStep DEF Position

(* The worker sees its transaction confirmed, or times out.                  *)
LEMMA WaitStep == ASSUME XDCInv, NEW w \in XWorker, NEW t, t = wtx[w], WaitConfirmations(w) PROVE XDCInv'
<1>1. /\ wpc[w] = "wait" /\ ((Confirmed(whash[w]) /\ Goto(w, "confirm")) \/ Goto(w, "submitted"))
      /\ UNCHANGED <<xrow, deposits, wtx, wnonce, whash, walletLock, chainVars, feeRecorded, historyVars>>
  BY DEF WaitConfirmations
<1>2. PICK pc \in {"confirm", "submitted"} : Goto(w, pc) /\ (pc = "confirm" => Confirmed(whash[w]))
  BY <1>1
<1>3. /\ t \in XTransfer /\ WorkerOK(w) /\ RowOK(t) /\ wpc'[w] = pc /\ OnChain' = OnChain
      /\ \A x : Confirmed(x)' <=> Confirmed(x)
      /\ \A u : Paid(u)' <=> Paid(u)
      /\ \A u : Unsent(u)' <=> Unsent(u)
      /\ xrow \in [XTransfer -> [status : {"pending", "submitted", "confirmed", "failed"}, hash : ChainTx \cup {NoTx}]]
  BY <1>1, <1>2, AtRow DEF Position
<1>4. ambiguous' = ambiguous
  BY <1>1 DEF historyVars
<1>5. RowOK(t)'
  BY <1>1, <1>3, <1>4 DEF RowOK
<1>6. WorkerOK(w)'
  BY <1>1, <1>2, <1>3 DEF WorkerOK, FeePosition
<1> QED
  BY <1>1, <1>2, <1>3, <1>5, <1>6, RowStep DEF Position

(* A timeout keeps the hash and the status submitted.                        *)
LEMMA SubmittedStep == ASSUME XDCInv, NEW w \in XWorker, NEW t, t = wtx[w], XSubmitted(w) PROVE XDCInv'
<1>1. /\ wpc[w] = "submitted" /\ UpdateStatus(t, "submitted", whash[w]) /\ Goto(w, "idle")
      /\ UNCHANGED <<deposits, wtx, wnonce, whash, walletLock, chainVars, feeRecorded, historyVars>>
  BY DEF XSubmitted
<1>2. /\ t \in XTransfer /\ WorkerOK(w) /\ RowOK(t) /\ OnChain' = OnChain
      /\ \A x : Confirmed(x)' <=> Confirmed(x)
      /\ \A u : Paid(u)' <=> Paid(u)
      /\ \A u : Unsent(u)' <=> Unsent(u)
  BY <1>1, AtRow DEF Position
<1>3. whash[w] \in ChainTx
  BY <1>1, <1>2 DEF WorkerOK
<1>4. /\ xrow' \in [XTransfer -> [status : {"pending", "submitted", "confirmed", "failed"}, hash : ChainTx \cup {NoTx}]]
      /\ \A u \in XTransfer : u # t => xrow'[u] = xrow[u]
      /\ \/ xrow'[t] = xrow[t]
         \/ xrow'[t].status = "submitted"
  BY <1>1, <1>2, <1>3, StatusWritten
<1>5. ambiguous' = ambiguous
  BY <1>1 DEF historyVars
<1>6. RowOK(t)'
  BY <1>1, <1>2, <1>4, <1>5 DEF RowOK
<1> QED
  BY <1>1, <1>4, <1>6, RowStep DEF Position

(* A transfer is marked confirmed after its confirmations; its fee is        *)
(* collected even if the row refuses.                                        *)
LEMMA ConfirmStep == ASSUME XDCInv, NEW w \in XWorker, NEW t, t = wtx[w], XConfirm(w) PROVE XDCInv'
<1>1. /\ wpc[w] = "confirm" /\ UpdateStatus(t, "confirmed", whash[w])
      /\ Goto(w, IF t \in WithFee THEN "feeNonce" ELSE "idle")
      /\ UNCHANGED <<deposits, wtx, wnonce, whash, walletLock, chainVars, feeRecorded, historyVars>>
  BY DEF XConfirm
<1>2. PICK pc \in {"feeNonce", "idle"} : Goto(w, pc)
  BY <1>1
<1>3. /\ t \in XTransfer /\ WorkerOK(w) /\ RowOK(t) /\ wpc'[w] = pc /\ OnChain' = OnChain
      /\ \A x : Confirmed(x)' <=> Confirmed(x)
      /\ \A u : Paid(u)' <=> Paid(u)
      /\ \A u : Unsent(u)' <=> Unsent(u)
  BY <1>1, <1>2, AtRow DEF Position
<1>4. whash[w] \in ChainTx /\ whash[w].t = t /\ whash[w].leg = "main" /\ Confirmed(whash[w])
      /\ xrow[t].status = "submitted"
  BY <1>1, <1>3 DEF WorkerOK, FeePosition
<1>5. /\ xrow' \in [XTransfer -> [status : {"pending", "submitted", "confirmed", "failed"}, hash : ChainTx \cup {NoTx}]]
      /\ \A u \in XTransfer : u # t => xrow'[u] = xrow[u]
      /\ \/ xrow'[t] = xrow[t]
         \/ xrow'[t].status = "confirmed" /\ xrow'[t].hash = whash[w]
  BY <1>1, <1>3, <1>4, StatusWritten
<1>6. ambiguous' = ambiguous
  BY <1>1 DEF historyVars
<1>7. RowOK(t)'
  BY <1>1, <1>3, <1>4, <1>5, <1>6 DEF RowOK
<1>8. pc # "idle" => WorkerOK(w)'
  BY <1>1, <1>2, <1>3, <1>4, <1>5 DEF WorkerOK, FeePosition
<1> QED
  BY <1>1, <1>2, <1>5, <1>7, <1>8, RowStep DEF Position

(* The fee is recorded after the main leg is confirmed.                      *)
LEMMA RecordStep == ASSUME XDCInv, NEW w \in XWorker, NEW t, t = wtx[w], RecordCollection(w) PROVE XDCInv'
<1>1. /\ wpc[w] = "feeRecord" /\ feeRecorded' = feeRecorded \cup {t} /\ Goto(w, "idle")
      /\ UNCHANGED <<xrow, deposits, wtx, wnonce, whash, walletLock, chainVars, historyVars>>
  BY DEF RecordCollection
<1>2. /\ t \in XTransfer /\ WorkerOK(w) /\ RowOK(t) /\ OnChain' = OnChain
      /\ \A x : Confirmed(x)' <=> Confirmed(x)
      /\ \A u : Paid(u)' <=> Paid(u)
      /\ \A u : Unsent(u)' <=> Unsent(u)
      /\ xrow \in [XTransfer -> [status : {"pending", "submitted", "confirmed", "failed"}, hash : ChainTx \cup {NoTx}]]
  BY <1>1, AtRow DEF Position
<1>3. Paid(t)
  BY <1>1, <1>2, ConfirmedIsMain DEF WorkerOK, FeePosition
<1>4. ambiguous' = ambiguous
  BY <1>1 DEF historyVars
<1>5. RowOK(t)'
  BY <1>1, <1>2, <1>3, <1>4 DEF RowOK
<1> QED
  BY <1>1, <1>2, <1>5, RowStep DEF Position

(* The fee leg takes the pending nonce without the mutex.                    *)
LEMMA FeeNonceStep == ASSUME XDCInv, NEW w \in XWorker, NEW t, t = wtx[w], FeeNonce(w) PROVE XDCInv'
<1>1. /\ wpc[w] = "feeNonce" /\ Goto(w, "feeSend") /\ wnonce' = [wnonce EXCEPT ![w] = PendingNonceAt]
      /\ UNCHANGED <<xrow, deposits, wtx, whash, walletLock, chainVars, feeRecorded, historyVars>>
  BY DEF FeeNonce
<1>2. /\ t \in XTransfer /\ WorkerOK(w) /\ RowOK(t) /\ wpc'[w] = "feeSend" /\ OnChain' = OnChain
      /\ \A x : Confirmed(x)' <=> Confirmed(x)
      /\ \A u : Paid(u)' <=> Paid(u)
      /\ \A u : Unsent(u)' <=> Unsent(u)
      /\ PendingNonceAt' = PendingNonceAt
      /\ xrow \in [XTransfer -> [status : {"pending", "submitted", "confirmed", "failed"}, hash : ChainTx \cup {NoTx}]]
  BY <1>1, AtRow DEF Position
<1>3. UNCHANGED <<mem, ledger, buried, ambiguous, clashes, cut>>
  BY <1>1 DEF chainVars, historyVars
<1>4. PendingNonceAt \in Nat
  BY <1>3, Quiet
<1>5. wnonce' \in [XWorker -> Nat] /\ wnonce'[w] = PendingNonceAt /\ \A v \in XWorker : v # w => wnonce'[v] = wnonce[v]
  BY <1>1, <1>4 DEF XDCInv, ChainOK, XDCTypeOK
<1>6. WorkerOK(w)'
  BY <1>1, <1>2, <1>4, <1>5 DEF WorkerOK, FeePosition
<1>7. RowOK(t)'
  BY <1>1, <1>2, <1>3 DEF RowOK
<1>8. \A v \in XWorker : v # w => wpc'[v] = wpc[v]
  BY <1>1 DEF Goto, XDCInv, ChainOK, XDCTypeOK
<1>9. \A v \in XWorker : wpc'[v] = "send" <=> walletLock' = v
  BY <1>1, <1>2, <1>8 DEF XDCInv, WorkersOK
<1>10. cut' \subseteq XTransfer /\ walletLock' \in XWorker \cup {NoTx}
  BY <1>1, <1>3 DEF XDCInv, ChainOK, XDCTypeOK
<1> QED
  BY <1>1, <1>2, <1>3, <1>5, <1>6, <1>7, <1>9, <1>10, QuietStep DEF Position

(* A worker that is cut off leaves its row submitted, so no worker claims    *)
(* the transfer again.                                                       *)
LEMMA CutStep == ASSUME XDCInv, NEW w \in XWorker, NEW t, t = wtx[w], XCut(w) PROVE XDCInv'
<1>1. /\ wpc[w] # "idle" /\ Goto(w, "idle") /\ walletLock' = IF walletLock = w THEN NoTx ELSE walletLock
      /\ cut' = cut \cup {t}
      /\ UNCHANGED <<xrow, deposits, wtx, wnonce, whash, chainVars, feeRecorded, ambiguous, clashes>>
  BY DEF XCut
<1>2. /\ t \in XTransfer /\ RowOK(t) /\ wpc'[w] = "idle" /\ OnChain' = OnChain
      /\ \A x : Confirmed(x)' <=> Confirmed(x)
      /\ \A u : Paid(u)' <=> Paid(u)
      /\ \A u : Unsent(u)' <=> Unsent(u)
      /\ xrow \in [XTransfer -> [status : {"pending", "submitted", "confirmed", "failed"}, hash : ChainTx \cup {NoTx}]]
  BY <1>1, AtRow DEF Position
<1>3. UNCHANGED <<mem, ledger, buried>>
  BY <1>1 DEF chainVars
<1>4. RowOK(t)'
  BY <1>1, <1>2 DEF RowOK
<1>5. \A v \in XWorker : v # w => wpc'[v] = wpc[v]
  BY <1>1 DEF Goto, XDCInv, ChainOK, XDCTypeOK
<1>6. \A v \in XWorker : wpc'[v] = "send" <=> walletLock' = v
  BY <1>1, <1>2, <1>5 DEF XDCInv, WorkersOK
<1>7. cut' \subseteq XTransfer /\ walletLock' \in XWorker \cup {NoTx} /\ wnonce' \in [XWorker -> Nat]
  BY <1>1, <1>2 DEF XDCInv, ChainOK, XDCTypeOK
<1> QED
  BY <1>1, <1>2, <1>3, <1>4, <1>6, <1>7, QuietStep DEF Position
-----------------------------------------------------------------------------
(* What a send does to the chain, whether the pool accepts it or not.        *)
LEMMA SendChain ==
  ASSUME XDCInv, NEW x \in ChainTx, x.n <= PendingNonceAt, Accepted(x) \/ UNCHANGED mem, UNCHANGED <<ledger, buried>>
  PROVE  /\ mem' \in Seq(ChainTx) /\ Nonces' /\ Grows
         /\ OnChain' \subseteq OnChain \cup {x}
         /\ PendingNonceAt \in Nat /\ PendingNonceAt' \in Nat /\ PendingNonceAt' >= PendingNonceAt
         /\ \A y : Confirmed(y)' <=> Confirmed(y)
         /\ \A u : Paid(u)' <=> Paid(u)
<1>1. ChainOK /\ mem \in Seq(ChainTx) /\ Len(ledger) \in Nat /\ Len(mem) \in Nat /\ buried \in Nat
  BY DEF XDCInv, ChainOK, XDCTypeOK
<1>2. Grows
  BY <1>1 DEF Grows
<1>3. PendingNonceAt \in Nat
  BY <1>1 DEF PendingNonceAt
<1>4. \A y : Confirmed(y)' <=> Confirmed(y)
  BY DEF Confirmed
<1>5. \A u : Paid(u)' <=> Paid(u)
  BY DEF Paid
<1>6. CASE Accepted(x)
  BY <1>1, <1>2, <1>3, <1>4, <1>5, <1>6, AcceptChain
<1>7. CASE UNCHANGED mem
  <2>1. OnChain' = OnChain /\ Nonces' /\ PendingNonceAt' = PendingNonceAt
    BY <1>7, Quiet
  <2> QED
    BY <1>1, <1>2, <1>3, <1>4, <1>5, <1>7, <2>1
<1> QED
  BY <1>6, <1>7

(* The mutex keeps another main leg away from the nonce of this one.         *)
LEMMA SendStep == ASSUME XDCInv, NEW w \in XWorker, NEW t, t = wtx[w], XSend(w) PROVE XDCInv'
<1> DEFINE x == [t |-> wtx[w], leg |-> "main", n |-> wnonce[w]]
<1>1. /\ wpc[w] = "send" /\ walletLock' = NoTx
      /\ clashes' = clashes \cup {{"main", l} : l \in Rivals(x)}
      /\ UNCHANGED <<xrow, deposits, wtx, wnonce, ledger, buried, feeRecorded, cut>>
  BY DEF XSend
<1>2. PICK pc \in {"wait", "fail"} :
        /\ Goto(w, pc)
        /\ pc = "wait" => Accepted(x) /\ whash' = [whash EXCEPT ![w] = x] /\ ambiguous' = ambiguous
        /\ pc = "fail" => /\ whash' = whash
                          /\ \/ Accepted(x) /\ ambiguous' = ambiguous \cup {t}
                             \/ mem' = mem /\ ambiguous' = ambiguous
  BY DEF XSend
<1>3. t \in XTransfer /\ WorkerOK(w) /\ RowOK(t) /\ x \in ChainTx
  BY <1>1, Busy, TxOfWorker DEF XDCInv, RowsOK
<1>4. /\ Unsent(t) /\ xrow[t].status = "submitted" /\ wnonce[w] <= PendingNonceAt
      /\ \A y \in OnChain : y.leg = "main" => y.n < wnonce[w]
  BY <1>1, <1>3 DEF WorkerOK, FeePosition
<1>5. x.t = t /\ x.leg = "main" /\ x.n = wnonce[w] /\ x.n \in Nat
  BY DEF XDCInv, ChainOK, XDCTypeOK
<1> HIDE DEF x
<1>6. /\ mem' \in Seq(ChainTx) /\ Nonces' /\ Grows
      /\ OnChain' \subseteq OnChain \cup {x}
      /\ PendingNonceAt \in Nat /\ PendingNonceAt' \in Nat /\ PendingNonceAt' >= PendingNonceAt
      /\ \A y : Confirmed(y)' <=> Confirmed(y)
      /\ \A u : Paid(u)' <=> Paid(u)
  <2>1. Accepted(x) \/ UNCHANGED mem
    BY <1>2
  <2>2. x.n <= PendingNonceAt
    BY <1>4, <1>5
  <2> QED
    BY <1>1, <1>3, <2>1, <2>2, SendChain
<1>7. /\ wpc' \in [XWorker -> Position] /\ wpc'[w] = pc
      /\ \A v \in XWorker : v # w => wpc'[v] = wpc[v]
  BY <1>2 DEF Goto, Position, XDCInv, ChainOK, XDCTypeOK
<1>8. /\ whash' \in [XWorker -> ChainTx \cup {NoTx}] /\ (pc = "wait" => whash'[w] = x)
      /\ \A v \in XWorker : v # w => whash'[v] = whash[v]
  <2>1. whash \in [XWorker -> ChainTx \cup {NoTx}]
    BY DEF XDCInv, ChainOK, XDCTypeOK
  <2> QED
    BY <1>2, <1>3, <2>1
<1>9. \A v \in XWorker : v # w => wpc[v] # "send" /\ (wpc[v] # "idle" => wtx[v] # t)
  BY <1>1 DEF XDCInv, WorkersOK
<1>10. ambiguous \subseteq ambiguous' /\ ambiguous' \subseteq XTransfer
  BY <1>2, <1>3 DEF XDCInv, ChainOK, XDCTypeOK
<1>11. Local(w, t)
  BY <1>1, <1>5, <1>6, <1>7, <1>8, <1>9, <1>10 DEF Local
<1>12. clashes' \subseteq SUBSET {"main", "fee"} /\ MainLegsNeverClash'
  <2>1. ChainOK
    BY DEF XDCInv
  <2>2. \A l \in Rivals(x) : l = "fee"
    <3>1. \A l \in Rivals(x) : l \in {"main", "fee"} /\ \E y \in OnChain : y.n = x.n /\ y.leg = l
      BY <2>1, RivalsAreLegs
    <3>2. \A y \in OnChain : y.leg = "main" => y.n # x.n
      BY <1>4, <1>5
    <3> QED
      BY <3>1, <3>2
  <2>3. clashes' \subseteq clashes \cup {{"main", "fee"}}
    BY <1>1, <2>2
  <2>4. {"main", "fee"} # {"main"} /\ {"main", "fee"} \in SUBSET {"main", "fee"}
    <3>1. "fee" \in {"main", "fee"} /\ "fee" \notin {"main"}
      OBVIOUS
    <3> QED
      BY <3>1
  <2>5. clashes \subseteq SUBSET {"main", "fee"} /\ {"main"} \notin clashes
    BY DEF MainLegsNeverClash, XDCInv, ChainOK, XDCTypeOK
  <2> QED
    BY <2>3, <2>4, <2>5 DEF MainLegsNeverClash
<1>13. ChainOK'
  BY <1>1, <1>6, <1>7, <1>8, <1>10, <1>12 DEF XDCInv, ChainOK, XDCTypeOK
<1>14. \A v \in XWorker : wpc'[v] = "send" <=> walletLock' = v
  BY <1>1, <1>7, <1>9
<1>15. WorkerOK(w)'
  <2>1. CASE pc = "wait"
    BY <1>1, <1>3, <1>4, <1>5, <1>7, <1>8, <2>1 DEF WorkerOK, FeePosition
  <2>2. CASE pc = "fail"
    <3>1. t \in ambiguous' \/ Unsent(t)'
      <4>1. CASE mem' = mem
        BY <1>1, <1>4, <4>1, Quiet
      <4> QED
        BY <1>2, <2>2, <4>1
    <3> QED
      BY <1>1, <1>3, <1>4, <1>7, <2>2, <3>1 DEF WorkerOK, FeePosition
  <2> QED
    BY <2>1, <2>2
<1>16. RowOK(t)'
  <2>1. \A y \in OnChain' : y.t = t => y = x
    BY <1>4, <1>6 DEF Unsent
  <2> QED
    BY <1>1, <1>3, <1>4, <1>5, <1>6, <2>1 DEF RowOK
<1> QED
  BY <1>1, <1>3, <1>7, <1>11, <1>12, <1>13, <1>14, <1>15, <1>16, LocalStep

(* The fee is sent outside the mutex: it may take any pending nonce, but     *)
(* only after its transfer was confirmed.                                    *)
LEMMA FeeSendStep == ASSUME XDCInv, NEW w \in XWorker, NEW t, t = wtx[w], FeeSend(w) PROVE XDCInv'
<1> DEFINE x == [t |-> wtx[w], leg |-> "fee", n |-> wnonce[w]]
<1>1. /\ wpc[w] = "feeSend"
      /\ clashes' = clashes \cup {{"fee", l} : l \in Rivals(x)}
      /\ UNCHANGED <<xrow, deposits, wtx, wnonce, whash, walletLock, ledger, buried, feeRecorded, ambiguous, cut>>
  BY DEF FeeSend
<1>2. PICK pc \in {"feeRecord", "idle"} : Goto(w, pc) /\ (Accepted(x) \/ UNCHANGED mem)
  BY DEF FeeSend
<1>3. t \in XTransfer /\ WorkerOK(w) /\ RowOK(t) /\ x \in ChainTx
  BY <1>1, Busy, TxOfWorker DEF XDCInv, RowsOK
<1>4. /\ whash[w] \in ChainTx /\ whash[w].t = t /\ whash[w].leg = "main" /\ Confirmed(whash[w])
      /\ xrow[t].status \in {"submitted", "confirmed"} /\ wnonce[w] <= PendingNonceAt
  BY <1>1, <1>3 DEF WorkerOK, FeePosition
<1>5. x.t = t /\ x.leg = "fee" /\ x.n = wnonce[w] /\ x.n \in Nat
  BY DEF XDCInv, ChainOK, XDCTypeOK
<1> HIDE DEF x
<1>6. /\ mem' \in Seq(ChainTx) /\ Nonces' /\ Grows
      /\ OnChain' \subseteq OnChain \cup {x}
      /\ PendingNonceAt \in Nat /\ PendingNonceAt' \in Nat /\ PendingNonceAt' >= PendingNonceAt
      /\ \A y : Confirmed(y)' <=> Confirmed(y)
      /\ \A u : Paid(u)' <=> Paid(u)
  <2>1. x.n <= PendingNonceAt
    BY <1>4, <1>5
  <2> QED
    BY <1>1, <1>2, <1>3, <2>1, SendChain
<1>7. /\ wpc' \in [XWorker -> Position] /\ wpc'[w] = pc
      /\ \A v \in XWorker : v # w => wpc'[v] = wpc[v]
  BY <1>2 DEF Goto, Position, XDCInv, ChainOK, XDCTypeOK
<1>8. \A v \in XWorker : v # w /\ wpc[v] # "idle" => wtx[v] # t
  BY <1>1 DEF XDCInv, WorkersOK
<1>9. Local(w, t)
  BY <1>1, <1>5, <1>6, <1>7, <1>8 DEF Local
<1>10. clashes' \subseteq SUBSET {"main", "fee"} /\ MainLegsNeverClash'
  <2>1. Rivals(x) \subseteq {"main", "fee"}
    BY RivalsAreLegs DEF XDCInv
  <2>2. clashes' \subseteq clashes \cup {{"fee", "main"}, {"fee"}}
    BY <1>1, <2>1
  <2>3. /\ {"fee", "main"} # {"main"} /\ {"fee", "main"} \in SUBSET {"main", "fee"}
        /\ {"fee"} # {"main"} /\ {"fee"} \in SUBSET {"main", "fee"}
    <3>1. "fee" \in {"fee", "main"} /\ "fee" \in {"fee"} /\ "fee" \notin {"main"}
      OBVIOUS
    <3> QED
      BY <3>1
  <2>4. clashes \subseteq SUBSET {"main", "fee"} /\ {"main"} \notin clashes
    BY DEF MainLegsNeverClash, XDCInv, ChainOK, XDCTypeOK
  <2> QED
    BY <2>2, <2>3, <2>4 DEF MainLegsNeverClash
<1>11. ChainOK'
  BY <1>1, <1>6, <1>7, <1>10 DEF XDCInv, ChainOK, XDCTypeOK
<1>12. \A v \in XWorker : wpc'[v] = "send" <=> walletLock' = v
  BY <1>1, <1>2, <1>7 DEF XDCInv, WorkersOK
<1>13. wpc'[w] # "idle" => WorkerOK(w)'
  BY <1>1, <1>2, <1>3, <1>4, <1>6, <1>7 DEF WorkerOK, FeePosition
<1>14. RowOK(t)'
  <2>1. Paid(t)
    BY <1>4, ConfirmedIsMain
  <2>2. \A y \in OnChain' : y.leg = "main" => y \in OnChain
    BY <1>5, <1>6
  <2> QED
    BY <1>1, <1>3, <1>4, <1>6, <2>1, <2>2 DEF RowOK
<1> QED
  BY <1>1, <1>3, <1>7, <1>9, <1>10, <1>11, <1>12, <1>13, <1>14, LocalStep

(* A step of the chain that adds no transaction.                             *)
LEMMA ChainOnly ==
  ASSUME XDCInv, ChainOK', Grows, OnChain' = OnChain, PendingNonceAt' = PendingNonceAt,
         UNCHANGED <<xrow, wpc, wtx, wnonce, whash, walletLock, feeRecorded, ambiguous, clashes>>
  PROVE  XDCInv'
<1>1. /\ \A x : Confirmed(x) => Confirmed(x)'
      /\ \A t : Paid(t) => Paid(t)'
  BY ConfirmedStays DEF XDCInv, ChainOK
<1>2. \A t : Unsent(t) => Unsent(t)'
  BY DEF Unsent
<1>3. ASSUME NEW w \in XWorker, wpc[w] # "idle" PROVE WorkerOK(w)'
  <2>1. WorkerOK(w)
    BY <1>3, Busy
  <2> QED
    BY <1>1, <1>2, <2>1 DEF WorkerOK
<1>4. WorkersOK'
  BY <1>3 DEF XDCInv, WorkersOK
<1>5. ASSUME NEW t \in XTransfer PROVE RowOK(t)'
  <2>1. RowOK(t)
    BY DEF XDCInv, RowsOK
  <2> QED
    BY <1>1, <1>2, <2>1 DEF RowOK
<1> QED
  BY <1>4, <1>5 DEF XDCInv, RowsOK, MainLegsNeverClash

(* A block is mined.                                                         *)
LEMMA MineStep == ASSUME XDCInv, Mine PROVE XDCInv'
<1>1. /\ ChainOK' /\ OnChain' = OnChain /\ PendingNonceAt' = PendingNonceAt
      /\ Len(ledger') = Len(ledger) + 1
      /\ \A i \in 1..Len(ledger) : ledger'[i] = ledger[i]
  BY MineChain DEF XDCInv
<1>2. Grows
  BY <1>1 DEF Grows, Mine, XDCInv, ChainOK, XDCTypeOK
<1> QED
  BY <1>1, <1>2, ChainOnly DEF Mine, workerVars, historyVars

(* Blocks deep enough are final.                                             *)
LEMMA BuryStep == ASSUME XDCInv, Bury PROVE XDCInv'
<1>1. /\ buried < Len(ledger) /\ buried' = buried + 1
      /\ UNCHANGED <<mem, ledger, xrow, deposits, wpc, wtx, wnonce, whash, walletLock, feeRecorded, ambiguous, clashes, cut>>
  BY DEF Bury, workerVars, historyVars
<1>2. Len(ledger) \in Nat /\ buried \in Nat
  BY DEF XDCInv, ChainOK, XDCTypeOK
<1>3. Grows
  BY <1>1, <1>2 DEF Grows
<1>4. ChainOK'
  BY <1>1, <1>2 DEF XDCInv, ChainOK, XDCTypeOK, Nonces
<1>5. OnChain' = OnChain /\ PendingNonceAt' = PendingNonceAt
  BY <1>1 DEF OnChain, PendingNonceAt
<1> QED
  BY <1>1, <1>3, <1>4, <1>5, ChainOnly

(* A step that touches nothing but the deposits seen.                        *)
LEMMA StillStep ==
  ASSUME XDCInv, deposits' \subseteq ChainTx,
         UNCHANGED <<xrow, workerVars, chainVars, feeRecorded, historyVars>>
  PROVE  XDCInv'
<1>1. UNCHANGED <<mem, ledger, buried, xrow, wpc, wtx, wnonce, whash, walletLock, feeRecorded, ambiguous, clashes, cut>>
  BY DEF workerVars, chainVars, historyVars
<1>2. Grows /\ OnChain' = OnChain /\ PendingNonceAt' = PendingNonceAt /\ Nonces'
  BY <1>1, Quiet
<1>3. ChainOK'
  BY <1>1, <1>2 DEF XDCInv, ChainOK, XDCTypeOK
<1> QED
  BY <1>1, <1>2, <1>3, ChainOnly

(* Nothing is on the chain at first.                                         *)
LEMMA XDCInvInit == XDCInit => XDCInv
<1> SUFFICES ASSUME XDCInit PROVE XDCInv
  OBVIOUS
<1>1. Len(mem) = 0 /\ Len(ledger) = 0 /\ mem \in Seq(ChainTx) /\ ledger \in Seq([tx : ChainTx, ok : BOOLEAN])
  BY DEF XDCInit
<1>2. OnChain = {}
  BY <1>1 DEF OnChain
<1>3. ChainOK
  BY <1>1 DEF XDCInit, ChainOK, XDCTypeOK, Nonces, Position
<1>4. WorkersOK
  BY DEF XDCInit, WorkersOK
<1>5. RowsOK
  BY <1>2 DEF XDCInit, RowsOK, RowOK, Unsent
<1>6. MainLegsNeverClash
  BY DEF XDCInit, MainLegsNeverClash
<1> QED
  BY <1>3, <1>4, <1>5, <1>6 DEF XDCInv

(* Every step of the XDC settlement keeps the invariant.                     *)
LEMMA XDCInvStep == XDCInv /\ [XDCNext]_xdcVars => XDCInv'
<1> SUFFICES ASSUME XDCInv, [XDCNext]_xdcVars PROVE XDCInv'
  OBVIOUS
<1>1. ASSUME NEW w \in XWorker, XWork(w) PROVE XDCInv'
  BY <1>1, NonceStep, SendStep, FailStep, WaitStep, SubmittedStep, ConfirmStep, FeeNonceStep, FeeSendStep, RecordStep
     DEF XWork
<1>2. ASSUME NEW i \in DOMAIN ledger, VerifyDeposit(ledger[i].tx) PROVE XDCInv'
  <2>1. ledger[i].tx \in ChainTx /\ deposits \subseteq ChainTx
    <3>1. ledger \in Seq([tx : ChainTx, ok : BOOLEAN]) /\ deposits \subseteq ChainTx
      BY DEF XDCInv, ChainOK, XDCTypeOK
    <3>2. i \in 1..Len(ledger)
      BY <3>1
    <3>3. ledger[i] \in [tx : ChainTx, ok : BOOLEAN]
      BY <3>1, <3>2, ElementOfSeq
    <3> QED
      BY <3>1, <3>3
  <2>2. deposits' \subseteq ChainTx
    BY <1>2, <2>1 DEF VerifyDeposit
  <2> QED
    BY <1>2, <2>2, StillStep DEF VerifyDeposit
<1>3. ASSUME UNCHANGED xdcVars PROVE XDCInv'
  <2>1. deposits' \subseteq ChainTx
    BY <1>3 DEF xdcVars, XDCInv, ChainOK, XDCTypeOK
  <2> QED
    BY <1>3, <2>1, StillStep DEF xdcVars, workerVars, chainVars, historyVars
<1>4. ASSUME NEW w \in XWorker, (\E t \in XTransfer : XClaim(w, t)) \/ XCut(w) PROVE XDCInv'
  BY <1>4, ClaimStep, CutStep
<1> QED
  BY <1>1, <1>2, <1>3, <1>4, MineStep, BuryStep DEF XDCNext
-----------------------------------------------------------------------------
(* Whatever is retried, replaced at its nonce, mined late or cut off: a      *)
(* transfer is paid at most once, is confirmed only with its own payment     *)
(* deep in the chain, is failed only when unpaid or its send was ambiguous,  *)
(* its fee follows its payment, and the mutex keeps two main legs from       *)
(* meeting at one nonce although fees are sent without it (xdc_engine.go).   *)
THEOREM XDCTransfersAreSafe == XDCSpec => []XDCSafe
<1>1. XDCInv => XDCSafe
  <2> SUFFICES ASSUME XDCInv PROVE XDCSafe
    OBVIOUS
  <2>1. /\ XDCTypeOK /\ Nonces /\ DOMAIN ledger = 1..Len(ledger) /\ DOMAIN mem = 1..Len(mem)
        /\ Len(ledger) \in Nat
    BY DEF XDCInv, ChainOK, XDCTypeOK
  <2>2. /\ \A i \in DOMAIN ledger : ledger[i].tx \in OnChain /\ ledger[i].tx.n = i - 1
        /\ \A i \in DOMAIN mem : mem[i] \in OnChain
    BY <2>1 DEF OnChain, Nonces
  <2>3. \A t \in XTransfer : RowOK(t)
    BY DEF XDCInv, RowsOK
  <2>4. XDCPaidOnce
    <3> SUFFICES ASSUME NEW t \in XTransfer
                 PROVE  Cardinality({i \in DOMAIN ledger : ledger[i].tx.t = t /\ ledger[i].tx.leg = "main"}) <= 1
      BY DEF XDCPaidOnce
    <3> DEFINE S == {i \in DOMAIN ledger : ledger[i].tx.t = t /\ ledger[i].tx.leg = "main"}
    <3>1. \A i, j \in S : i = j
      <4> SUFFICES ASSUME NEW i \in S, NEW j \in S PROVE i = j
        OBVIOUS
      <4>1. ledger[i].tx.n = ledger[j].tx.n
        BY <2>2, <2>3 DEF RowOK
      <4>2. i \in 1..Len(ledger) /\ j \in 1..Len(ledger) /\ i - 1 = j - 1
        BY <2>1, <2>2, <4>1
      <4> QED
        BY <2>1, <4>2
    <3>2. CASE S = {}
      BY <3>2, FS_EmptySet
    <3>3. CASE S # {}
      <4>1. PICK i \in S : TRUE
        BY <3>3
      <4>2. S = {i}
        BY <3>1, <4>1
      <4>3. Cardinality({i}) = 1
        BY FS_Singleton
      <4> QED
        BY <4>2, <4>3
    <3> QED
      BY <3>2, <3>3
  <2>5. XDCConfirmedIsPaid
    BY <2>3 DEF XDCConfirmedIsPaid, RowOK, Confirmed
  <2>6. XDCFailedIsUnpaid
    BY <2>2, <2>3 DEF XDCFailedIsUnpaid, RowOK, Unsent
  <2>7. FeeFollowsPayment
    BY <2>2, <2>3 DEF FeeFollowsPayment, RowOK, Paid
  <2> QED
    BY <2>1, <2>4, <2>5, <2>6, <2>7 DEF XDCSafe, XDCInv
<1> QED
  BY <1>1, XDCInvInit, XDCInvStep, PTL DEF XDCSpec

(* What no step may do to the row of a transfer.                             *)
OutcomeStays(t) == xrow[t].status \in {"confirmed", "failed"} => xrow'[t] = xrow[t]

(* Every write to the table finds its row pending or submitted: the worker   *)
(* that writes is the one that claimed it.                                   *)
LEMMA OutcomeStep ==
  ASSUME XDCInv, [XDCNext]_xdcVars
  PROVE  \A t \in XTransfer : OutcomeStays(t)
<1>0. XDCTypeOK BY DEF XDCInv, ChainOK
<1>1. CASE UNCHANGED xrow BY <1>1 DEF OutcomeStays
<1>2. ASSUME NEW w \in XWorker, NEW t \in XTransfer, XClaim(w, t)
      PROVE  \A u \in XTransfer : OutcomeStays(u)
  BY <1>0, <1>2 DEF XClaim, ClaimableRow, XDCTypeOK, OutcomeStays
<1>3. ASSUME NEW w \in XWorker, XFail(w) \/ XSubmitted(w) \/ XConfirm(w)
      PROVE  \A u \in XTransfer : OutcomeStays(u)
  <2>1. wpc[w] # "idle" /\ wpc[w] \notin FeePosition BY <1>3 DEF XFail, XSubmitted, XConfirm, FeePosition
  <2>2. wtx[w] \in XTransfer /\ xrow[wtx[w]].status = "submitted" BY <2>1 DEF XDCInv, WorkersOK, WorkerOK
  <2>3. \E s, x : UpdateStatus(wtx[w], s, x) BY <1>3, Zenon DEF XFail, XSubmitted, XConfirm
  <2> QED BY <1>0, <2>2, <2>3 DEF UpdateStatus, XDCTypeOK, OutcomeStays
<1> QED
  BY <1>1, <1>2, <1>3
     DEF XDCNext, XWork, XNonce, XSend, WaitConfirmations, FeeNonce, FeeSend, RecordCollection, XCut,
         VerifyDeposit, Mine, Bury, xdcVars

(* A transfer reported confirmed or failed on XDC keeps that outcome and its *)
(* hash for ever, for any number of workers and of repeated tasks            *)
(* (ClaimForSubmission, UpdateStatus).                                       *)
THEOREM XDCOutcomesStay == XDCSpec => XDCOutcomeStays
<1>1. XDCInv /\ [XDCNext]_xdcVars =>
        [\A t \in XTransfer : xrow[t].status \in {"confirmed", "failed"} => xrow'[t] = xrow[t]]_xdcVars
  BY OutcomeStep DEF OutcomeStays
<1> QED BY <1>1, XDCInvInit, XDCInvStep, PTL DEF XDCSpec, XDCOutcomeStays
-----------------------------------------------------------------------------
(* The promise of PaymentContract, which the Stellar engine keeps under      *)
(* assumptions, read off the XDC tables and chain: a transfer is requested   *)
(* when a worker claims it, and paid by the successful main legs in blocks.  *)
XDCPhase == [t \in XTransfer |-> IF xrow[t].status = "pending" THEN "absent" ELSE "open"]
XDCMainLegs(t) == {i \in DOMAIN ledger : ledger[i].ok /\ ledger[i].tx.t = t /\ ledger[i].tx.leg = "main"}
XDCPayments == [t \in XTransfer |-> {ledger[i].tx : i \in XDCMainLegs(t)}]

XDCContract == INSTANCE PaymentContract WITH Tx <- XTransfer, phase <- XDCPhase, paidBy <- XDCPayments

(* Nothing is requested and nothing paid at first.                           *)
LEMMA XDCContractInit == XDCInit => XDCContract!CInit
<1> SUFFICES ASSUME XDCInit PROVE XDCContract!CInit
  OBVIOUS
<1>1. XDCPhase = [t \in XTransfer |-> "absent"]
  BY DEF XDCInit, XDCPhase
<1>2. DOMAIN ledger = {}
  BY DEF XDCInit
<1>3. XDCPayments = [t \in XTransfer |-> {}]
  BY <1>2 DEF XDCPayments, XDCMainLegs
<1> QED
  BY <1>1, <1>3 DEF XDCContract!CInit

(* A row once claimed never returns to pending: only a claim changes the     *)
(* phase of a transfer, and only of its own.                                 *)
LEMMA XDCPhaseSteps ==
  ASSUME XDCInv, XDCNext
  PROVE  \/ XDCPhase' = XDCPhase
         \/ \E t \in XTransfer : /\ XDCPhase[t] = "absent" /\ XDCPhase' = [XDCPhase EXCEPT ![t] = "open"]
                                 /\ UNCHANGED ledger
<1>1. xrow \in [XTransfer -> [status : {"pending", "submitted", "confirmed", "failed"}, hash : ChainTx \cup {NoTx}]]
  BY DEF XDCInv, ChainOK, XDCTypeOK
<1>2. CASE UNCHANGED xrow
  BY <1>2 DEF XDCPhase
<1>3. ASSUME NEW w \in XWorker, NEW t \in XTransfer, XClaim(w, t)
      PROVE  XDCPhase[t] = "absent" /\ XDCPhase' = [XDCPhase EXCEPT ![t] = "open"] /\ UNCHANGED ledger
  <2>1. xrow[t].status = "pending" /\ xrow' = [xrow EXCEPT ![t].status = "submitted"] /\ UNCHANGED ledger
    BY <1>3 DEF XClaim, ClaimableRow, chainVars
  <2>2. \A u \in XTransfer : xrow'[u].status = IF u = t THEN "submitted" ELSE xrow[u].status
    BY <1>1, <2>1
  <2>3. \A u \in XTransfer : XDCPhase'[u] = IF u = t THEN "open" ELSE XDCPhase[u]
    BY <2>2 DEF XDCPhase
  <2>4. XDCPhase[t] = "absent"
    BY <2>1 DEF XDCPhase
  <2>5. XDCPhase = [u \in XTransfer |-> XDCPhase[u]] /\ XDCPhase' = [u \in XTransfer |-> XDCPhase'[u]]
    BY DEF XDCPhase
  <2> HIDE DEF XDCPhase
  <2>6. XDCPhase' = [XDCPhase EXCEPT ![t] = "open"]
    BY <2>3, <2>5
  <2> QED
    BY <2>1, <2>4, <2>6
<1>4. ASSUME NEW w \in XWorker, wpc[w] # "idle",
             NEW s \in {"submitted", "confirmed", "failed"}, NEW x, UpdateStatus(wtx[w], s, x)
      PROVE  XDCPhase' = XDCPhase
  <2>1. wtx[w] \in XTransfer /\ xrow[wtx[w]].status # "pending"
    BY <1>4, Busy
  <2>2. CASE UNCHANGED xrow
    BY <2>2 DEF XDCPhase
  <2>3. CASE xrow' = [xrow EXCEPT ![wtx[w]] = [status |-> s, hash |-> x]]
    <3>1. \A u \in XTransfer : xrow'[u].status = IF u = wtx[w] THEN s ELSE xrow[u].status
      BY <1>1, <2>1, <2>3
    <3> QED
      BY <2>1, <3>1 DEF XDCPhase
  <2> QED
    BY <1>4, <2>2, <2>3 DEF UpdateStatus
<1>5. ASSUME NEW w \in XWorker, XFail(w) \/ XSubmitted(w) \/ XConfirm(w) PROVE XDCPhase' = XDCPhase
  <2>1. wpc[w] # "idle" /\ \E s \in {"submitted", "confirmed", "failed"}, x \in {NoTx, whash[w]} : UpdateStatus(wtx[w], s, x)
    BY <1>5 DEF XFail, XSubmitted, XConfirm
  <2> QED
    BY <1>4, <2>1
<1> QED
  BY <1>2, <1>3, <1>5
  DEF XDCNext, XWork, XNonce, XSend, WaitConfirmations, FeeNonce, FeeSend, RecordCollection, XCut,
      VerifyDeposit, Mine, Bury

(* Mining a main leg that succeeds is the payment of its transfer, which was *)
(* claimed and had none; every other block, and every other step, leaves the *)
(* payments alone.                                                           *)
LEMMA XDCPaymentSteps ==
  ASSUME XDCInv, Mine
  PROVE  \/ XDCPayments' = XDCPayments
         \/ \E t \in XTransfer, x \in ChainTx : /\ XDCPhase[t] = "open" /\ XDCPayments[t] = {}
                                                /\ XDCPayments' = [XDCPayments EXCEPT ![t] = {x}]
<1>1. PICK ok \in BOOLEAN : ledger' = Append(ledger, [tx |-> Head(mem), ok |-> ok])
  BY DEF Mine
<1>2. PICK x, n, l, k : x = Head(mem) /\ n = Len(ledger) /\ l = ledger /\ k = ledger'
  OBVIOUS
<1>3. mem \in Seq(ChainTx) /\ l \in Seq([tx : ChainTx, ok : BOOLEAN]) /\ n \in Nat /\ mem # <<>>
  BY <1>2 DEF XDCInv, ChainOK, XDCTypeOK, Mine
<1>4. x \in ChainTx /\ x \in OnChain
  <2>1. 1 \in 1..Len(mem) /\ x = mem[1]
    BY <1>2, <1>3
  <2> QED
    BY <1>3, <2>1, ElementOfSeq DEF OnChain
<1>5. x.t \in XTransfer
  BY <1>4 DEF ChainTx
<1>6. /\ DOMAIN k = 1..(n + 1) /\ DOMAIN l = 1..n
      /\ k[n + 1] = [tx |-> x, ok |-> ok] /\ \A i \in 1..n : k[i] = l[i]
  BY <1>1, <1>2, <1>3
<1>6a. PICK P, Q : /\ P = [t \in XTransfer |-> XDCMainLegs(t)] /\ Q = [t \in XTransfer |-> XDCMainLegs(t)']
  OBVIOUS
<1>6b. /\ XDCPayments = [t \in XTransfer |-> {l[i].tx : i \in P[t]}]
      /\ XDCPayments' = [t \in XTransfer |-> {k[i].tx : i \in Q[t]}]
  BY <1>2, <1>6a DEF XDCPayments
<1>7. CASE ~(ok /\ x.leg = "main")
  <2>1. \A t \in XTransfer : XDCMainLegs(t)' = XDCMainLegs(t)
    BY <1>2, <1>3, <1>6, <1>7 DEF XDCMainLegs
  <2>2. \A t \in XTransfer : \A i \in P[t] : k[i] = l[i]
    BY <1>2, <1>6, <1>6a DEF XDCMainLegs
  <2>3. \A t \in XTransfer : Q[t] = P[t]
    BY <1>6a, <2>1
  <2>4. XDCPayments' = XDCPayments
    BY <1>6b, <2>2, <2>3
  <2> QED
    BY <2>4
<1>8. CASE ok /\ x.leg = "main"
  <2>1. XDCPhase[x.t] = "open"
    <3>1. xrow[x.t].status # "pending"
      BY <1>4, <1>5 DEF XDCInv, RowsOK, RowOK, Unsent
    <3> QED
      BY <1>5, <3>1 DEF XDCPhase
  <2>2. XDCMainLegs(x.t) = {}
    <3> SUFFICES ASSUME NEW i \in XDCMainLegs(x.t) PROVE FALSE
      OBVIOUS
    <3>1. i \in 1..n /\ l[i].tx.t = x.t /\ l[i].tx.leg = "main"
      BY <1>2, <1>6 DEF XDCMainLegs
    <3>2. l[i].tx \in OnChain /\ l[i].tx.n = i - 1
      BY <1>2, <3>1 DEF OnChain, XDCInv, ChainOK, Nonces
    <3>3. x.n = n
      <4>1. 1 \in 1..Len(mem) /\ x = mem[1]
        BY <1>2, <1>3
      <4> QED
        BY <1>2, <1>3, <4>1 DEF XDCInv, ChainOK, Nonces
    <3>4. l[i].tx.n = x.n
      BY <1>4, <1>5, <1>8, <3>1, <3>2 DEF XDCInv, RowsOK, RowOK
    <3> QED
      BY <1>3, <3>1, <3>2, <3>3, <3>4
  <2>3. \A t \in XTransfer : XDCMainLegs(t)' = IF t = x.t THEN {n + 1} ELSE XDCMainLegs(t)
    <3>1. \A t \in XTransfer : XDCMainLegs(t)' = XDCMainLegs(t) \cup {i \in {n + 1} : x.t = t}
      BY <1>2, <1>3, <1>6, <1>8 DEF XDCMainLegs
    <3> QED
      BY <2>2, <3>1
  <2>4. \A t \in XTransfer : \A i \in P[t] : k[i] = l[i]
    BY <1>2, <1>6, <1>6a DEF XDCMainLegs
  <2>5. \A t \in XTransfer : Q[t] = IF t = x.t THEN {n + 1} ELSE P[t]
    BY <1>6a, <2>3
  <2>6. XDCPayments[x.t] = {}
    BY <1>5, <2>2 DEF XDCPayments
  <2>7. \A t \in XTransfer : XDCPayments'[t] = IF t = x.t THEN {x} ELSE XDCPayments[t]
    BY <1>6, <1>6b, <2>4, <2>5
  <2>8. XDCPayments = [t \in XTransfer |-> XDCPayments[t]] /\ XDCPayments' = [t \in XTransfer |-> XDCPayments'[t]]
    BY DEF XDCPayments
  <2> HIDE DEF XDCPayments
  <2>9. XDCPayments' = [XDCPayments EXCEPT ![x.t] = {x}]
    BY <1>5, <2>7, <2>8
  <2> QED
    BY <1>4, <1>5, <2>1, <2>6, <2>9
<1> QED
  BY <1>7, <1>8

(* Every step of the XDC settlement is one of the contract, or none.         *)
LEMMA XDCContractStep ==
  ASSUME XDCInv, [XDCNext]_xdcVars
  PROVE  [XDCContract!CNext]_(XDCContract!cvars)
<1>1. CASE UNCHANGED xdcVars
  <2>1. XDCPhase' = XDCPhase
    BY <1>1 DEF xdcVars, XDCPhase
  <2>2. XDCPayments' = XDCPayments
    BY <1>1 DEF xdcVars, XDCPayments, XDCMainLegs
  <2> QED
    BY <2>1, <2>2 DEF XDCContract!cvars
<1>2. CASE XDCNext /\ UNCHANGED ledger
  <2>1. XDCPayments' = XDCPayments
    BY <1>2 DEF XDCPayments, XDCMainLegs
  <2>2. CASE XDCPhase' = XDCPhase
    BY <2>1, <2>2 DEF XDCContract!cvars
  <2>3. ASSUME NEW t \in XTransfer, XDCPhase[t] = "absent", XDCPhase' = [XDCPhase EXCEPT ![t] = "open"]
        PROVE  XDCContract!CNext
    <3> HIDE DEF XDCPhase, XDCPayments
    <3> QED
      BY <2>1, <2>3 DEF XDCContract!CNext, XDCContract!Request
  <2> QED
    BY <1>2, <2>2, <2>3, XDCPhaseSteps
<1>3. CASE Mine
  <2>1. XDCPhase' = XDCPhase
    BY <1>3 DEF Mine, XDCPhase
  <2>2. CASE XDCPayments' = XDCPayments
    BY <2>1, <2>2 DEF XDCContract!cvars
  <2>3. ASSUME NEW t \in XTransfer, NEW x, XDCPhase[t] = "open", XDCPayments[t] = {},
               XDCPayments' = [XDCPayments EXCEPT ![t] = {x}]
        PROVE  XDCContract!CNext
    <3>1. XDCPayments'[t] = {x}
      BY <2>3 DEF XDCPayments
    <3> HIDE DEF XDCPhase, XDCPayments
    <3> QED
      BY <2>1, <2>3, <3>1 DEF XDCContract!CNext, XDCContract!Pay
  <2> QED
    BY <1>3, <2>2, <2>3, XDCPaymentSteps
<1>4. XDCNext => Mine \/ UNCHANGED ledger
  BY DEF XDCNext, XWork, XClaim, XNonce, XSend, XFail, WaitConfirmations, XSubmitted, XConfirm, FeeNonce,
         FeeSend, RecordCollection, XCut, VerifyDeposit, Bury, chainVars
<1> QED
  BY <1>1, <1>2, <1>3, <1>4

(* Settlement on XDC implements PaymentContract without any assumption on    *)
(* crashes, lost answers or retries: a transfer is paid only after a worker  *)
(* claimed it, and once (ClaimForSubmission, SubmitTransfer).                *)
THEOREM XDCKeepsContract == XDCSpec => XDCContract!CSpec
<1>1. XDCInit => XDCContract!CInit
  BY XDCContractInit
<1>2. XDCInv /\ [XDCNext]_xdcVars => [XDCContract!CNext]_(XDCContract!cvars)
  BY XDCContractStep
<1> QED
  BY <1>1, <1>2, XDCInvInit, XDCInvStep, PTL DEF XDCSpec, XDCContract!CSpec
===============================================================================
