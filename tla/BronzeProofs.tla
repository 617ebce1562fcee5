---------------------------- MODULE BronzeProofs ----------------------------
(***************************************************************************)
(* What raw_document guarantees for every number of writers, requests,     *)
(* rows and moments.  That the latest document is one is not inductive by  *)
(* itself: rows that are inserted and not committed yet have to be         *)
(* included, as the unique index does.                                     *)
(***************************************************************************)
EXTENDS Bronze, FiniteSetTheorems, TLAPS

Rows == docs \cup Pending

OneOfAKey == \A d, e \in Rows : SameKey(d, e) => d = e

BronzeInv ==
  /\ BronzeTypeOK
  /\ NeverUnguarded
  /\ OneOfAKey

-----------------------------------------------------------------------------
LEMMA BronzeInitInv == BronzeInit => BronzeInv
<1> SUFFICES ASSUME BronzeInit PROVE BronzeInv
  OBVIOUS
<1>1. Rows = {} /\ Pending = {}
  BY DEF BronzeInit, Rows, Pending, NotStoring
<1>2. BronzeTypeOK
  BY <1>1, BronzeAssumption
  DEF BronzeInit, BronzeTypeOK, Empty, NoMigration, NotStoring, Stores, Moments
<1> QED
  BY <1>1, <1>2 DEF BronzeInv, OneOfAKey, NeverUnguarded, BronzeInit, Empty

\* Each statement of a migration, its end, and time: no row is touched, or all
\* are dropped.
LEMMA MigrationKeeps ==
  ASSUME BronzeInv, storing' = storing, docs' \in {docs, {}},
         schema' \in {schema, Empty, Bronzed},
         migration' \in [way : {"none", "up", "down"}, table : BOOLEAN, trigger : BOOLEAN],
         now' \in Moments
  PROVE  BronzeInv'
<1>1. Pending' = Pending
  BY DEF Pending
<1>2. Rows' \subseteq Rows
  BY <1>1 DEF Rows
<1>3. BronzeTypeOK'
  <2>1. schema' \in [table : BOOLEAN, trigger : BOOLEAN]
    <3>1. Empty \in [table : BOOLEAN, trigger : BOOLEAN]
      BY DEF Empty
    <3>2. Bronzed \in [table : BOOLEAN, trigger : BOOLEAN]
      BY DEF Bronzed
    <3> QED
      BY <3>1, <3>2 DEF BronzeInv, BronzeTypeOK
  <2>2. docs' \subseteq Documents
    BY DEF BronzeInv, BronzeTypeOK
  <2>3. \A d, e \in (docs \cup Pending)' : d.id = e.id => d = e
    BY <1>2 DEF BronzeInv, BronzeTypeOK, Rows
  <2> QED
    BY <2>1, <2>2, <2>3 DEF BronzeInv, BronzeTypeOK
<1>4. OneOfAKey'
  BY <1>2 DEF BronzeInv, OneOfAKey, SameKey
<1> QED
  BY <1>3, <1>4 DEF BronzeInv, NeverUnguarded, Empty, Bronzed

LEMMA StoreKeeps ==
  ASSUME BronzeInv, NEW w \in Writers, NEW q \in Requests, NEW c \in Contents,
         NEW at \in Moments, Store(w, q, c, at)
  PROVE  BronzeInv'
<1> DEFINE s == [at |-> "called", request |-> q, content |-> c, fetchedAt |-> at,
                 doc |-> NoDoc]
<1>1. /\ storing' = [storing EXCEPT ![w] = s] /\ storing[w].at = "out"
      /\ UNCHANGED <<schema, migration, now, docs>>
  BY DEF Store
<1>2. s \in Stores /\ s.doc = NoDoc
  BY BronzeAssumption DEF Stores, Moments
<1>3. storing'[w] = s /\ \A v \in Writers \ {w} : storing'[v] = storing[v]
  BY <1>1 DEF BronzeInv, BronzeTypeOK
<1>4. Pending' \subseteq Pending
  BY <1>2, <1>3 DEF Pending
<1>5. BronzeTypeOK'
  <2>1. storing' \in [Writers -> Stores]
    BY <1>1, <1>2 DEF BronzeInv, BronzeTypeOK
  <2>2. \A v \in Writers :
          /\ storing'[v].at = "called" => storing'[v].request # NoDoc
                                          /\ storing'[v].content # NoDoc
                                          /\ storing'[v].fetchedAt > 0
          /\ storing'[v].at = "inserted" <=> storing'[v].doc # NoDoc
    <3>1. q # NoDoc /\ c # NoDoc
      BY BronzeAssumption
    <3> QED
      BY <1>2, <1>3, <3>1, BronzeAssumption DEF BronzeInv, BronzeTypeOK, Moments
  <2> QED
    BY <1>1, <1>2, <1>3, <1>4, <2>1, <2>2 DEF BronzeInv, BronzeTypeOK
<1> QED
  BY <1>1, <1>4, <1>5 DEF BronzeInv, OneOfAKey, NeverUnguarded, Rows, SameKey

LEMMA InsertKeeps ==
  ASSUME BronzeInv, NEW w \in Writers, Insert(w)
  PROVE  BronzeInv'
<1>1. PICK id \in Ids :
        /\ storing[w].at = "called" /\ NewId(id) /\ Unique(RowFor(w, id))
        /\ storing' = [storing EXCEPT ![w].at = "inserted", ![w].doc = RowFor(w, id)]
        /\ UNCHANGED <<schema, migration, now, docs>>
  BY DEF Insert
<1> DEFINE row == RowFor(w, id)
<1>2. /\ storing[w] \in Stores /\ storing[w].doc = NoDoc
      /\ storing[w].request \in Requests /\ storing[w].content \in Contents
      /\ storing[w].fetchedAt \in Moments
  BY <1>1, BronzeAssumption DEF BronzeInv, BronzeTypeOK, Stores, Moments
<1>3. row \in Documents
  BY <1>1, <1>2 DEF RowFor, Documents
<1>4. row # NoDoc /\ row.id = id
  BY <1>3, BronzeAssumption DEF RowFor
<1> HIDE DEF row
<1>5. /\ storing'[w] = [storing[w] EXCEPT !.at = "inserted", !.doc = row]
      /\ \A v \in Writers \ {w} : storing'[v] = storing[v]
  BY <1>1 DEF row, BronzeInv, BronzeTypeOK
<1>6. storing'[w].doc = row /\ storing'[w].at = "inserted" /\ storing'[w] \in Stores
  BY <1>2, <1>3, <1>5 DEF Stores
<1>7. Rows' \subseteq Rows \cup {row}
  <2>1. \A v \in Writers : storing'[v].doc \in {storing[v].doc, row}
    BY <1>5, <1>6
  <2>2. Pending' \subseteq Pending \cup {row}
    BY <2>1 DEF Pending
  <2> QED
    BY <1>1, <2>2 DEF Rows
<1>8. \A d \in Rows : d.id # id /\ ~SameKey(d, row) /\ ~SameKey(row, d)
  BY <1>1 DEF row, Rows, NewId, Unique, SameKey
<1>9. BronzeTypeOK'
  <2>1. storing' \in [Writers -> Stores]
    BY <1>1, <1>5, <1>6 DEF BronzeInv, BronzeTypeOK
  <2>2. \A v \in Writers :
          /\ storing'[v].at = "called" => storing'[v].request # NoDoc
                                          /\ storing'[v].content # NoDoc
                                          /\ storing'[v].fetchedAt > 0
          /\ storing'[v].at = "inserted" <=> storing'[v].doc # NoDoc
    BY <1>4, <1>5, <1>6 DEF BronzeInv, BronzeTypeOK
  <2>3. \A d, e \in (docs \cup Pending)' : d.id = e.id => d = e
    BY <1>4, <1>7, <1>8 DEF BronzeInv, BronzeTypeOK, Rows
  <2>4. \A v \in Writers \ {w} : storing[v].doc # row
    <3>1. \A v \in Writers : storing[v].doc # NoDoc => storing[v].doc \in Rows
      BY DEF Rows, Pending
    <3> QED
      BY <1>4, <1>8, <3>1
  <2>5. \A u, v \in Writers :
          u # v /\ storing'[u].doc = storing'[v].doc => storing'[u].doc = NoDoc
    <3> SUFFICES ASSUME NEW u \in Writers, NEW v \in Writers, u # v,
                        storing'[u].doc = storing'[v].doc
                 PROVE  storing'[u].doc = NoDoc
      OBVIOUS
    <3>1. u # w /\ v # w
      BY <1>5, <1>6, <2>4
    <3>2. storing[u].doc = storing[v].doc /\ storing'[u].doc = storing[u].doc
      BY <1>5, <3>1
    <3> QED
      BY <3>2 DEF BronzeInv, BronzeTypeOK
  <2> QED
    BY <1>1, <2>1, <2>2, <2>3, <2>5 DEF BronzeInv, BronzeTypeOK
<1>10. OneOfAKey'
  <2>1. \A d, e \in Rows \cup {row} : SameKey(d, e) => d = e
    BY <1>8 DEF BronzeInv, OneOfAKey
  <2> QED
    BY <1>7, <2>1 DEF OneOfAKey, SameKey
<1> QED
  BY <1>1, <1>9, <1>10 DEF BronzeInv, NeverUnguarded

\* A call ends, its row committed or gone.
LEMMA EndKeeps ==
  ASSUME BronzeInv, NEW w \in Writers, Commit(w) \/ RollBack(w)
  PROVE  BronzeInv'
<1>1. /\ storing' = [storing EXCEPT ![w] = NotStoring]
      /\ UNCHANGED <<schema, migration, now>>
      /\ storing[w].at = "inserted" => storing[w].doc \in Pending /\ storing[w].doc \in Documents
      /\ docs' = docs \/ (storing[w].at = "inserted" /\ docs' = docs \cup {storing[w].doc})
  <2>1. storing[w] \in Stores /\ (storing[w].at = "inserted" => storing[w].doc # NoDoc)
    BY DEF BronzeInv, BronzeTypeOK
  <2> QED
    BY <2>1 DEF Commit, RollBack, Pending, Stores
<1>2. NotStoring \in Stores /\ NotStoring.doc = NoDoc /\ NotStoring.at = "out"
  BY BronzeAssumption DEF NotStoring, Stores
<1>3. storing'[w] = NotStoring /\ \A v \in Writers \ {w} : storing'[v] = storing[v]
  BY <1>1 DEF BronzeInv, BronzeTypeOK
<1>4. Rows' \subseteq Rows
  BY <1>1, <1>2, <1>3 DEF Rows, Pending
<1>5. BronzeTypeOK'
  <2>1. storing' \in [Writers -> Stores]
    BY <1>1, <1>2 DEF BronzeInv, BronzeTypeOK
  <2>2. docs' \subseteq Documents
    BY <1>1 DEF BronzeInv, BronzeTypeOK
  <2>3. \A d, e \in (docs \cup Pending)' : d.id = e.id => d = e
    BY <1>4 DEF BronzeInv, BronzeTypeOK, Rows
  <2> QED
    BY <1>1, <1>2, <1>3, <2>1, <2>2, <2>3 DEF BronzeInv, BronzeTypeOK
<1> QED
  BY <1>1, <1>4, <1>5 DEF BronzeInv, OneOfAKey, NeverUnguarded, SameKey

\* The trigger rejects whatever is tried while the table is there.
LEMMA TamperChangesNothing ==
  ASSUME BronzeInv, NEW d \in docs, NEW statement \in {"update", "delete"},
         Tamper(d, statement)
  PROVE  UNCHANGED bronzeVars
BY DEF BronzeInv, NeverUnguarded, Tamper, Rejects, bronzeVars

LEMMA BronzeStepInv == BronzeInv /\ [BronzeNext]_bronzeVars => BronzeInv'
<1> SUFFICES ASSUME BronzeInv, [BronzeNext]_bronzeVars PROVE BronzeInv'
  OBVIOUS
<1>1. ASSUME NEW w \in Writers, NEW q \in Requests, NEW c \in Contents,
             NEW at \in Moments, Store(w, q, c, at)
      PROVE  BronzeInv'
  BY <1>1, StoreKeeps
<1>2. ASSUME NEW w \in Writers, Insert(w) PROVE BronzeInv'
  BY <1>2, InsertKeeps
<1>3. ASSUME NEW w \in Writers, Commit(w) \/ RollBack(w) PROVE BronzeInv'
  BY <1>3, EndKeeps
<1>4. CASE \/ CreateTable \/ CreateTrigger \/ UpgradeCommits
           \/ DropTrigger \/ DropTable \/ DowngradeCommits \/ MigrationFails
  <2>1. /\ storing' = storing /\ docs' \in {docs, {}} /\ now' = now
        /\ schema' \in {schema, Empty, Bronzed}
    BY <1>4 DEF CreateTable, CreateTrigger, UpgradeCommits, DropTrigger, DropTable,
                DowngradeCommits, MigrationFails, Ddl, InTransaction
  <2>2. migration' \in [way : {"none", "up", "down"}, table : BOOLEAN, trigger : BOOLEAN]
    <3>1. CASE CreateTable \/ DropTrigger
      <4>1. PICK way \in {"up", "down"} :
              migration' = [way |-> way, table |-> TRUE, trigger |-> FALSE]
        BY <3>1 DEF CreateTable, DropTrigger, Ddl
      <4> QED
        BY <4>1
    <3>2. CASE CreateTrigger
      BY <3>2 DEF CreateTrigger, Ddl, Bronzed
    <3>3. CASE DropTable
      BY <3>3 DEF DropTable, Ddl, Empty
    <3>4. CASE UpgradeCommits \/ DowngradeCommits \/ MigrationFails
      <4>1. migration' = [way |-> "none", table |-> FALSE, trigger |-> FALSE]
        BY <3>4 DEF UpgradeCommits, DowngradeCommits, MigrationFails, NoMigration
      <4> QED
        BY <4>1
    <3> QED
      BY <1>4, <3>1, <3>2, <3>3, <3>4
  <2>3. now' \in Moments
    BY <2>1 DEF BronzeInv, BronzeTypeOK
  <2> QED
    BY <2>1, <2>2, <2>3, MigrationKeeps
<1>5. CASE Tick
  <2>1. /\ storing' = storing /\ docs' = docs /\ schema' = schema
        /\ migration' = migration /\ now' \in Moments
    BY <1>5, BronzeAssumption DEF Tick, Moments, BronzeInv, BronzeTypeOK
  <2> QED
    BY <2>1, MigrationKeeps DEF BronzeInv, BronzeTypeOK
<1>6. CASE UNCHANGED bronzeVars
  <2>1. /\ storing' = storing /\ docs' = docs /\ schema' = schema
        /\ migration' = migration /\ now' = now
    BY <1>6 DEF bronzeVars
  <2> QED
    BY <2>1, MigrationKeeps DEF BronzeInv, BronzeTypeOK
<1>7. ASSUME NEW d \in docs, NEW statement \in {"update", "delete"}, Tamper(d, statement)
      PROVE  BronzeInv'
  BY <1>6, <1>7, TamperChangesNothing
<1> QED
  BY <1>1, <1>2, <1>3, <1>4, <1>5, <1>6, <1>7 DEF BronzeNext

\* The inductive invariant holds throughout (store.py, models.py, 0002_bronze.py).
THEOREM BronzeInvariant == BronzeSpec => []BronzeInv
BY BronzeInitInv, BronzeStepInv, PTL DEF BronzeSpec

\* For every number of writers and rows: ids are unique, rows well-formed.
THEOREM BronzeTypes == BronzeSpec => []BronzeTypeOK
<1>1. BronzeInv => BronzeTypeOK
  BY DEF BronzeInv
<1> QED
  BY <1>1, BronzeInvariant, PTL

\* Nobody ever sees raw_document without its trigger, wherever migrations fail
\* (0002_bronze.py:26-33).
THEOREM BronzeIsGuarded == BronzeSpec => []NeverUnguarded
<1>1. BronzeInv => NeverUnguarded
  BY DEF BronzeInv
<1> QED
  BY <1>1, BronzeInvariant, PTL

\* However many processes store at the same moment, the latest document of a
\* request is one (models.py:92-98, store.py:102-123).
THEOREM LatestIsWellDefined == BronzeSpec => []LatestIsOne
<1>1. BronzeInv => LatestIsOne
  <2> SUFFICES ASSUME BronzeInv, NEW q \in Requests, NEW d \in Latest(q), NEW e \in Latest(q)
               PROVE  d = e
    BY DEF LatestIsOne
  <2>1. /\ d \in docs /\ e \in docs /\ d.request = e.request
        /\ d.fetchedAt <= e.fetchedAt /\ e.fetchedAt <= d.fetchedAt
    BY DEF Latest
  <2>2. d.fetchedAt \in Nat /\ e.fetchedAt \in Nat
    BY <2>1, BronzeAssumption DEF BronzeInv, BronzeTypeOK, Documents, Moments
  <2>3. SameKey(d, e)
    BY <2>1, <2>2 DEF SameKey
  <2> QED
    BY <2>1, <2>3 DEF BronzeInv, OneOfAKey, Rows
<1> QED
  BY <1>1, BronzeInvariant, PTL

LEMMA DocumentsStay ==
  ASSUME BronzeInv, [BronzeNext]_bronzeVars, schema' # Empty
  PROVE  docs \subseteq docs'
<1>1. ASSUME NEW d \in docs, NEW statement \in {"update", "delete"}, Tamper(d, statement)
      PROVE  UNCHANGED bronzeVars
  BY <1>1, TamperChangesNothing
<1> QED
  BY <1>1 DEF BronzeNext, Store, Insert, Commit, RollBack, CreateTable, CreateTrigger,
              UpgradeCommits, DropTrigger, DropTable, DowngradeCommits, MigrationFails, Tick,
              bronzeVars

\* Short of a downgrade, no step takes a document away or changes it: whoever
\* tries meets the trigger (models.py:57-59).
THEOREM BronzeIsAppendOnly ==
  BronzeSpec => [][schema' # Empty => docs \subseteq docs']_bronzeVars
<1>1. BronzeInv /\ [BronzeNext]_bronzeVars =>
        [schema' # Empty => docs \subseteq docs']_bronzeVars
  BY DocumentsStay
<1> QED
  BY <1>1, BronzeInvariant, PTL DEF BronzeSpec

-----------------------------------------------------------------------------
\* Replays.

\* Ids tell rows apart, and there are only so many.
LEMMA DocumentsAreFinite ==
  ASSUME NEW D, D \subseteq Documents, \A d, e \in D : d.id = e.id => d = e
  PROVE  IsFiniteSet(D)
<1> DEFINE f == [d \in D |-> d.id]
<1>1. f \in Injection(D, Ids)
  BY DEF Injection, IsInjective, Documents
<1>2. IsFiniteSet(Ids)
  BY FS_Interval, BronzeAssumption DEF Ids
<1> QED
  BY <1>1, <1>2, FS_Injection

Before(d, e) == d # e /\ Precedes(d, e)

\* Fetch time and id put rows into one order only.
LEMMA OneOrder ==
  ASSUME NEW d \in Documents, NEW e \in Documents, d.id = e.id => d = e
  PROVE  ~(Before(d, e) /\ Before(e, d))
<1>1. /\ d.id \in Nat /\ e.id \in Nat
      /\ d.fetchedAt \in Nat /\ e.fetchedAt \in Nat
  BY BronzeAssumption DEF Documents, Ids, Moments
<1> QED
  BY <1>1 DEF Before, Precedes

\* An answer that has as many places as there are rows lists each row once, and
\* places agree with the order of the rows.
LEMMA PlacesAreOrder ==
  ASSUME NEW D, D \subseteq Documents, \A d, e \in D : d.id = e.id => d = e,
         NEW answer \in [1..Cardinality(D) -> D],
         \A d \in D : \E i \in 1..Cardinality(D) : answer[i] = d,
         \A i, j \in 1..Cardinality(D) : i < j => Precedes(answer[i], answer[j])
  PROVE  \A i, j \in 1..Cardinality(D) : i < j <=> Before(answer[i], answer[j])
<1> DEFINE n == Cardinality(D)
<1>1. IsFiniteSet(D) /\ n \in Nat
  BY DocumentsAreFinite, FS_CardinalityType
<1>2. IsFiniteSet(1..n) /\ Cardinality(1..n) = n
  BY <1>1, FS_Interval
<1>3. answer \in Surjection(1..n, D)
  BY DEF Surjection
<1>4. answer \in Injection(1..n, D)
  BY <1>2, <1>3, FS_SurjSameCardinalityImpliesInj
<1>5. \A i, j \in 1..n : answer[i] = answer[j] => i = j
  BY <1>4 DEF Injection, IsInjective
<1>6. \A i, j \in 1..n : i < j => Before(answer[i], answer[j])
  BY <1>1, <1>5 DEF Before
<1> SUFFICES ASSUME NEW i \in 1..n, NEW j \in 1..n, Before(answer[i], answer[j])
             PROVE  i < j
  BY <1>6
<1>7. ~Before(answer[j], answer[i])
  BY OneOrder
<1>8. i # j
  BY DEF Before
<1> QED
  BY <1>1, <1>6, <1>7, <1>8

\* An answer to the rows there are, and one to the rows there will be.
LEMMA AnswerContinues ==
  ASSUME BronzeInv, BronzeInv', docs \subseteq docs',
         NEW s, NEW endpoint, NEW since,
         NEW one \in Replays(s, endpoint, since), NEW other \in Replays(s, endpoint, since)'
  PROVE  Continues(one, other)
<1> DEFINE D == Selected(s, endpoint, since)
           E == Selected(s, endpoint, since)'
<1>1. /\ D \subseteq docs /\ E \subseteq docs'
      /\ D = docs \cap E
  BY DEF Selected
<1>2. /\ docs \subseteq Documents /\ docs' \subseteq Documents
      /\ \A d, e \in docs : d.id = e.id => d = e
      /\ \A d, e \in docs' : d.id = e.id => d = e
  BY DEF BronzeInv, BronzeTypeOK
<1>3. /\ one \in [1..Cardinality(D) -> D]
      /\ \A d \in D : \E i \in 1..Cardinality(D) : one[i] = d
      /\ \A i, j \in 1..Cardinality(D) : i < j => Precedes(one[i], one[j])
  BY DEF Replays
<1>4. /\ other \in [1..Cardinality(E) -> E]
      /\ \A d \in E : \E i \in 1..Cardinality(E) : other[i] = d
      /\ \A i, j \in 1..Cardinality(E) : i < j => Precedes(other[i], other[j])
  BY DEF Replays
<1> HIDE DEF D, E
<1>5. \A i, j \in 1..Cardinality(D) : i < j <=> Before(one[i], one[j])
  <2>1. D \subseteq Documents /\ \A d, e \in D : d.id = e.id => d = e
    BY <1>1, <1>2
  <2> QED
    BY <2>1, <1>3, PlacesAreOrder
<1>6. \A k, l \in 1..Cardinality(E) : k < l <=> Before(other[k], other[l])
  <2>1. E \subseteq Documents /\ \A d, e \in E : d.id = e.id => d = e
    BY <1>1, <1>2
  <2> QED
    BY <2>1, <1>4, PlacesAreOrder
<1>7. {one[i] : i \in DOMAIN one} = D /\ {other[k] : k \in DOMAIN other} = E
  BY <1>3, <1>4
<1>8. \A i, j \in DOMAIN one, k, l \in DOMAIN other :
        one[i] = other[k] /\ one[j] = other[l] => (i < j <=> k < l)
  BY <1>3, <1>4, <1>5, <1>6
<1> QED
  BY <1>1, <1>7, <1>8 DEF Continues

\* For every number of rows, writers and moments: what a replay yielded comes
\* again, in the same order, in every later one (store.py:126-160).
THEOREM ReplaysAreRepeatable == BronzeSpec => ReplaysExtend
<1>1. ASSUME BronzeInv, BronzeInv', [BronzeNext]_bronzeVars, schema' # Empty,
             NEW q \in Requests, NEW since \in Moments,
             NEW endpoint \in {AnyEndpoint, EndpointOf[q]},
             NEW one \in Replays(SourceOf[q], endpoint, since),
             NEW other \in Replays(SourceOf[q], endpoint, since)'
      PROVE  Continues(one, other)
  BY <1>1, DocumentsStay, AnswerContinues
<1>2. BronzeInv /\ BronzeInv' /\ [BronzeNext]_bronzeVars =>
        [schema' # Empty =>
           \A q \in Requests, since \in Moments :
             \A endpoint \in {AnyEndpoint, EndpointOf[q]} :
               \A one \in Replays(SourceOf[q], endpoint, since),
                  other \in Replays(SourceOf[q], endpoint, since)' :
                    Continues(one, other)]_bronzeVars
  BY <1>1
<1> QED
  BY <1>2, BronzeInvariant, PTL DEF BronzeSpec, ReplaysExtend
=============================================================================
