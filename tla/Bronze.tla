------------------------------- MODULE Bronze -------------------------------
(***************************************************************************)
(* raw_document: the append-only landing zone (bronze/store.py), the       *)
(* constraint and the trigger it rests on (db/models.py, migration 0002),  *)
(* and the migrations that create and drop them.                           *)
(*                                                                         *)
(* Several processes store documents, each in a transaction of its own:    *)
(* fetched_at is chosen first, then the row is inserted (and must be the   *)
(* only one of its request at that moment), then the transaction commits.  *)
(* Others read the table, or try to change it, or migrate, meanwhile.      *)
(*                                                                         *)
(* Queries.  PostgreSQL returns rows in any order the ORDER BY allows, so  *)
(* a query stands for the set of its possible answers.                     *)
(***************************************************************************)
EXTENDS Naturals, FiniteSets

CONSTANTS
  Writers,     \* processes that store documents
  Requests,    \* request shapes: (source, endpoint, params_hash)
  SourceOf,    \* SourceOf[q]: the source of a request
  EndpointOf,  \* EndpointOf[q]: its endpoint
  AnyEndpoint, \* iter_documents' endpoint=None
  Contents,    \* content hashes
  NoDoc,       \* no row inserted yet
  MaxDocs,     \* bound: row ids are 1..MaxDocs
  MaxTime      \* bound: moments are 1..MaxTime

Ids == 1..MaxDocs
Moments == 1..MaxTime

Documents == [id : Ids, request : Requests, content : Contents, fetchedAt : Moments]

ASSUME BronzeAssumption ==
  /\ NoDoc \notin Documents \cup Requests \cup Contents
  /\ \A q \in Requests : EndpointOf[q] # AnyEndpoint
  /\ {MaxDocs, MaxTime} \subseteq Nat
  /\ MaxTime > 0

VARIABLES
  schema,      \* which of raw_document and its trigger exist, for everybody
  migration,   \* the open migration transaction: which way, and what exists in it
  now,         \* the clock store_document reads
  docs,        \* the committed rows
  storing      \* storing[w]: the store_document call of w, with its pending row

bronzeVars == <<schema, migration, now, docs, storing>>

-----------------------------------------------------------------------------
Empty == [table |-> FALSE, trigger |-> FALSE]
Bronzed == [table |-> TRUE, trigger |-> TRUE]
NoMigration == [way |-> "none", table |-> FALSE, trigger |-> FALSE]
NotStoring == [at |-> "out", request |-> NoDoc, content |-> NoDoc, fetchedAt |-> 0,
               doc |-> NoDoc]

BronzeInit ==
  /\ schema = Empty
  /\ migration = NoMigration
  /\ now = 1
  /\ docs = {}
  /\ storing = [w \in Writers |-> NotStoring]

\* What of an open transaction's DDL others see.  Broken variant: all of it, each
\* statement committed by itself.
AutoCommitted(state) == state

InTransaction(state) == schema

\* A statement of a migration leaves raw_document and its trigger like this.
Ddl(way, state) ==
  /\ migration' = [way |-> way, table |-> state.table, trigger |-> state.trigger]
  /\ schema' = InTransaction(state)

\* upgrade(): the table, then its trigger, and the commit.
CreateTable ==
  /\ migration.way = "none" /\ ~schema.table
  /\ Ddl("up", [table |-> TRUE, trigger |-> FALSE])
  /\ UNCHANGED <<now, docs, storing>>

CreateTrigger ==
  /\ migration.way = "up" /\ ~migration.trigger
  /\ Ddl("up", Bronzed)
  /\ UNCHANGED <<now, docs, storing>>

UpgradeCommits ==
  /\ migration.way = "up" /\ migration.trigger
  /\ schema' = Bronzed
  /\ migration' = NoMigration
  /\ UNCHANGED <<now, docs, storing>>

\* A transaction that has inserted a row keeps DDL on the table waiting.
NobodyInside == \A w \in Writers : storing[w].at # "inserted"

\* downgrade(): the trigger, then the table (with all its rows), and the commit.
\* The first statement locks the table until the transaction ends.
DropTrigger ==
  /\ migration.way = "none" /\ schema.table /\ NobodyInside
  /\ Ddl("down", [table |-> TRUE, trigger |-> FALSE])
  /\ UNCHANGED <<now, docs, storing>>

DropTable ==
  /\ migration.way = "down" /\ migration.table
  /\ Ddl("down", Empty)
  /\ UNCHANGED <<now, docs, storing>>

DowngradeCommits ==
  /\ migration.way = "down" /\ ~migration.table
  /\ schema' = Empty
  /\ docs' = {}
  /\ migration' = NoMigration
  /\ UNCHANGED <<now, storing>>

\* A migration dies or fails: its transaction is rolled back.
MigrationFails ==
  /\ migration.way # "none"
  /\ migration' = NoMigration
  /\ UNCHANGED <<schema, now, docs, storing>>

Usable == migration.way # "down"

-----------------------------------------------------------------------------
\* store_document is entered: fetched_at is the caller's or the present moment.
Store(w, q, c, at) ==
  /\ storing[w].at = "out"
  /\ at <= now
  /\ storing' = [storing EXCEPT ![w] = [at |-> "called", request |-> q, content |-> c,
                                    fetchedAt |-> at, doc |-> NoDoc]]
  /\ UNCHANGED <<schema, migration, now, docs>>

Pending == {storing[w].doc : w \in Writers} \ {NoDoc}

RowFor(w, id) == [id |-> id, request |-> storing[w].request,
                  content |-> storing[w].content, fetchedAt |-> storing[w].fetchedAt]

SameKey(d, e) == d.request = e.request /\ d.fetchedAt = e.fetchedAt

\* Broken variant: a look at the committed rows instead of a constraint.
LookedUnique(row) == \A d \in docs : ~SameKey(d, row)

\* uq_raw_document_request: an insert waits for the uncommitted ones of its key
\* and fails if one of them is committed.
Unique(row) == \A d \in docs \cup Pending : ~SameKey(d, row)

\* Broken variant: ids counted by the application.
CountedId(id) == id = Cardinality(docs) + 1

\* The id comes from a sequence: it is new, and says little about the order of
\* commits.
NewId(id) == id \notin {d.id : d \in docs \cup Pending}

\* session.flush(): the row is in, for this transaction.
Insert(w) ==
  /\ storing[w].at = "called"
  /\ schema.table /\ Usable
  /\ \E id \in Ids :
       /\ NewId(id)
       /\ Unique(RowFor(w, id))
       /\ storing' = [storing EXCEPT ![w].at = "inserted", ![w].doc = RowFor(w, id)]
  /\ UNCHANGED <<schema, migration, now, docs>>

\* The transaction commits, whether or not the process lives to hear of it.
Commit(w) ==
  /\ storing[w].at = "inserted"
  /\ docs' = docs \cup {storing[w].doc}
  /\ storing' = [storing EXCEPT ![w] = NotStoring]
  /\ UNCHANGED <<schema, migration, now>>

\* No table, a row of this key, a lost connection, the end of the process:
\* session_scope rolls back, or the server does.
RollBack(w) ==
  /\ storing[w].at # "out"
  /\ storing' = [storing EXCEPT ![w] = NotStoring]
  /\ UNCHANGED <<schema, migration, now, docs>>

\* Broken variant: a trigger before update only.
RejectsUpdates(statement) == schema.trigger /\ statement = "update"

Rejects(statement) == schema.trigger

\* Somebody (psql, another program) tries to change or delete a committed row.
Tamper(d, statement) ==
  /\ schema.table /\ Usable
  /\ docs' = IF Rejects(statement) THEN docs ELSE docs \ {d}
  /\ UNCHANGED <<schema, migration, now, storing>>

Tick ==
  /\ now < MaxTime
  /\ now' = now + 1
  /\ UNCHANGED <<schema, migration, docs, storing>>

BronzeNext ==
  \/ \E w \in Writers :
       \/ \E q \in Requests, c \in Contents, at \in Moments : Store(w, q, c, at)
       \/ Insert(w)
       \/ Commit(w)
       \/ RollBack(w)
  \/ \E d \in docs, statement \in {"update", "delete"} : Tamper(d, statement)
  \/ CreateTable \/ CreateTrigger \/ UpgradeCommits
  \/ DropTrigger \/ DropTable \/ DowngradeCommits
  \/ MigrationFails
  \/ Tick

BronzeSpec == BronzeInit /\ [][BronzeNext]_bronzeVars

-----------------------------------------------------------------------------
\* The queries of store.py.

\* Broken variant: no tie-breaker.
NotLater(d, e) == d.fetchedAt <= e.fetchedAt

\* order by fetched_at, id
Precedes(d, e) ==
  d.fetchedAt < e.fetchedAt \/ (d.fetchedAt = e.fetchedAt /\ d.id <= e.id)

\* iter_documents(source, endpoint, since): what it selects, and every possible
\* answer.  since=None is the first moment.
Selected(s, endpoint, since) ==
  {d \in docs : /\ SourceOf[d.request] = s
               /\ endpoint \in {AnyEndpoint, EndpointOf[d.request]}
               /\ d.fetchedAt >= since}

Replays(s, endpoint, since) ==
  LET Of == Selected(s, endpoint, since)
      n == Cardinality(Of)
  IN {answer \in [1..n -> Of] :
        /\ \A d \in Of : \E i \in 1..n : answer[i] = d
        /\ \A i, j \in 1..n : i < j => Precedes(answer[i], answer[j])}

\* latest_document(request): every possible answer, none if there is no document.
Latest(q) ==
  LET Of == {d \in docs : d.request = q}
  IN {d \in Of : \A e \in Of : e.fetchedAt <= d.fetchedAt}

\* Broken variants: content of this moment only; content not yet committed, too.
HasFreshContent(c) == \E d \in docs : d.content = c /\ d.fetchedAt = now

HasUncommittedContent(c) == \E d \in docs \cup Pending : d.content = c

\* has_content(digest): of whichever request and moment.
HasContent(c) == \E d \in docs : d.content = c

-----------------------------------------------------------------------------
\* Properties.

Stores == [at : {"out", "called", "inserted"},
           request : Requests \cup {NoDoc}, content : Contents \cup {NoDoc},
           fetchedAt : 0..MaxTime, doc : Documents \cup {NoDoc}]

\* Type invariant: ids are unique across committed and pending rows, and only an
\* insert has a pending row.
BronzeTypeOK ==
  /\ schema \in [table : BOOLEAN, trigger : BOOLEAN]
  /\ migration \in [way : {"none", "up", "down"}, table : BOOLEAN, trigger : BOOLEAN]
  /\ now \in Moments
  /\ docs \subseteq Documents
  /\ storing \in [Writers -> Stores]
  /\ \A w \in Writers :
       /\ storing[w].at = "called" =>
            storing[w].request # NoDoc /\ storing[w].content # NoDoc /\ storing[w].fetchedAt > 0
       /\ storing[w].at = "inserted" <=> storing[w].doc # NoDoc
  /\ \A d, e \in docs \cup Pending : d.id = e.id => d = e
  /\ \A v, w \in Writers : v # w /\ storing[v].doc = storing[w].doc => storing[v].doc = NoDoc

\* However many processes store the same request at the same moment, and
\* whichever of them dies, one document of it at most is kept for a moment
\* (models.py:92-98), so that "the latest document" is one (store.py:102-123).
LatestIsOne == \A q \in Requests : \A d, e \in Latest(q) : d = e

\* At no moment does anybody see raw_document without its trigger, wherever a
\* migration fails (0002_bronze.py:26-33, 138-144).
NeverUnguarded == schema.table => schema.trigger

\* Of the documents there are now, the replay `other` has those that `one` has, and
\* has them in the same order: without the rest, `other` is `one`.
Continues(one, other) ==
  /\ {one[i] : i \in DOMAIN one} = docs \cap {other[k] : k \in DOMAIN other}
  /\ \A i, j \in DOMAIN one, k, l \in DOMAIN other :
       one[i] = other[k] /\ one[j] = other[l] => (i < j <=> k < l)

\* "So a reparse produces the same result every time" (store.py:145-147): short of
\* a downgrade, what one replay of a source yielded, whole or restricted to an
\* endpoint or a time, comes again in every later one, in the same order.  Later
\* replays may have more, also in between: a document is committed later than its
\* fetched_at.
ReplaysExtend ==
  [][schema' # Empty =>
       \A q \in Requests, since \in Moments :
         \A endpoint \in {AnyEndpoint, EndpointOf[q]} :
           \A one \in Replays(SourceOf[q], endpoint, since),
              other \in Replays(SourceOf[q], endpoint, since)' :
                Continues(one, other)]_bronzeVars
=============================================================================
