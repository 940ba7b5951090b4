----------------------------- MODULE SqlEngine ------------------------------
(***************************************************************************)
(* POST /execute-sql in the VM: which sources a statement names, which     *)
(* engine gets it, and what it answers.                                    *)
(*                                                                         *)
(* The handler runs on the event loop and gives it away only while it      *)
(* waits for Athena; meanwhile other statements run, tables change and     *)
(* time passes.  Two caches live for Ttl ticks: the tables of each Glue    *)
(* database, with one timestamp for all of them, and whole scans of        *)
(* DynamoDB tables.                                                        *)
(*                                                                         *)
(* Rows are numbers, each at most once in a table, in an order that AWS    *)
(* does not promise: tables and results are sets.  A statement names       *)
(* DynamoDB tables, at most one Athena table, and perhaps a data frame or  *)
(* file; it keeps the rows of their join, all or those above 1 ("filter"), *)
(* and may have a LIMIT, of any of them or of the least ("sort").  AWS     *)
(* returns items in pages of 1 MB, however many rows that is.  Left out:   *)
(* aliases of tables that become equal once punctuation is replaced.       *)
(***************************************************************************)
EXTENDS Naturals, FiniteSets

CONSTANTS
    Dyn,          \* DynamoDB tables
    Db,           \* Glue databases, each with one table that statements name
    DefaultDb,    \* ATHENA_DB
    Contents,     \* what a DynamoDB table can hold: sets of rows
    Other,        \* the rows of a data frame, and of an Athena table
    Asked,        \* the statements that clients send
    NoLimit,      \* the limit of a statement without LIMIT
    Pages,        \* how many rows a page of 1 MB may hold
    Slot,         \* statements in flight
    Ttl,          \* 300 s
    Patience,     \* 120 polls of Athena
    MaxChanges    \* bound: changes of tables and databases

ASSUME SqlBounds ==
    /\ DefaultDb \in Db /\ {} \in Contents
    /\ IsFiniteSet(Dyn) /\ Contents \cup {Other} \subseteq SUBSET Nat
    /\ \A c \in Contents \cup {Other} : IsFiniteSet(c)
    /\ \A q \in Asked :
        /\ q.dyn \subseteq Dyn /\ q.athena \subseteq Db /\ Cardinality(q.athena) <= 1
        /\ q.dyn # {} \/ q.athena # {} \/ q.frame
        /\ q.op \in {"all", "filter", "sort"} /\ q.limit \in Nat \cup {NoLimit}
    /\ NoLimit \notin Nat /\ Pages \subseteq Nat \ {0}
    /\ {Ttl, Patience} \subseteq Nat \ {0} /\ MaxChanges \in Nat

VARIABLES
    table,     \* what each DynamoDB table holds
    held,      \* history: ticks since it last held that, up to Ttl
    glue,      \* of each database: "absent", "empty" or, with its table, "full"
    known,     \* _glue_cache: "unknown", "empty" or "full"
    fetchAge,  \* ticks since _glue_cache_ts, up to Ttl
    knownAge,  \* history: ticks since an entry was read, up to Ttl
    renewed,   \* history: entries whose timestamp a fetch of others renewed
    broken,    \* history: did the last fetch fail?
    scan,      \* _scan_dynamodb_table._cache; {}, which is never stored, is none
    scanAge,   \* ticks since _cache_ts, up to Ttl
    job,       \* the statement in each slot
    waited,    \* ticks it has waited for Athena, plus 1
    answer,    \* "none", "error" or "rows" ...
    rows,      \* ... and these
    changes

aws == <<table, held, glue, changes>>
catalog == <<known, fetchAge, knownAge, renewed, broken>>
scanCache == <<scan, scanAge>>
slots == <<job, waited, answer, rows>>
sqlVars == <<aws, catalog, scanCache, slots>>

NoJob == [dyn |-> {}, athena |-> {}, frame |-> FALSE, op |-> "all", limit |-> NoLimit]

SqlInit ==
    /\ table \in [Dyn -> Contents]
    /\ held = [t \in Dyn |-> [c \in Contents |-> IF c = table[t] THEN 0 ELSE Ttl]]
    /\ glue \in [Db -> {"absent", "full"}] /\ glue[DefaultDb] = "full"
    /\ known = [d \in Db |-> "unknown"] /\ fetchAge = Ttl
    /\ knownAge = [d \in Db |-> Ttl] /\ renewed = {} /\ broken = FALSE
    /\ scan = [t \in Dyn |-> {}] /\ scanAge = [t \in Dyn |-> Ttl]
    /\ job = [s \in Slot |-> NoJob] /\ waited = [s \in Slot |-> 0]
    /\ answer = [s \in Slot |-> "none"] /\ rows = [s \in Slot |-> {}]
    /\ changes = 0

\* A handler that has its result answers before anything else happens.
LoopFree == \A s \in Slot : answer[s] = "none"
Waiting(s) == waited[s] > 0 /\ LoopFree

-----------------------------------------------------------------------------
(* What the engines return. *)

\* What LIMIT n may leave of some rows.
Cuts(n, R) ==
    IF n = NoLimit THEN {R}
    ELSE IF Cardinality(R) <= n THEN {R} ELSE {T \in SUBSET R : Cardinality(T) = n}

\* What it leaves after ORDER BY.
Least(n, R) == IF n = NoLimit THEN R ELSE {r \in R : Cardinality({x \in R : x < r}) < n}

Filtered(op, R) == IF op = "filter" THEN {r \in R : r > 1} ELSE R

Joined(q, content) ==
    {r \in Other \cup UNION {content[t] : t \in q.dyn} :
        /\ q.athena # {} \/ q.frame => r \in Other
        /\ \A t \in q.dyn : r \in content[t]}

\* _run_duckdb_query, and Athena: the results that SQL allows.
Run(q, content) ==
    LET all == Filtered(q.op, Joined(q, content))
    IN  IF q.op = "sort" THEN {Least(q.limit, all)} ELSE Cuts(q.limit, all)

\* "if limit": LIMIT 0 counts as none.
Limited(n) == n \notin {0, NoLimit}

\* What the requests for a table's items return: all pages, or with a Limit the first one,
\* which may end before the limit.
Requested(n, R) ==
    IF Limited(n) THEN UNION {Cuts(m, R) : m \in {n} \cup {p \in Pages : p < n}} ELSE {R}

\* _try_partiql: the LIMIT is taken off the statement, and Limit counts the items that
\* are read.
PartiQl(q, R) == {Filtered(q.op, T) : T \in Requested(q.limit, R)}
PartiQlTakes(q) == Cardinality(q.dyn) = 1 /\ q.athena = {} /\ ~q.frame /\ q.op # "sort"

\* A scan gets the LIMIT of the statement if its table is the only remote source.
ScanLimit(q) == IF Cardinality(q.dyn) = 1 /\ q.athena = {} THEN q.limit ELSE NoLimit

-----------------------------------------------------------------------------
(* The catalog. *)

\* _resolve_athena_databases: the listing, or the default if it fails.
Databases == {{d \in Db : glue[d] # "absent"}, {DefaultDb}}

Need(dbs) == {d \in dbs : fetchAge = Ttl \/ known[d] = "unknown"}

Read(done) ==
    /\ known' = [d \in Db |-> IF d \in done THEN glue[d] ELSE known[d]]
    /\ knownAge' = [d \in Db |-> IF d \in done THEN 0 ELSE knownAge[d]]

Renew(done) ==
    /\ fetchAge' = 0
    /\ renewed' = (renewed \cup {d \in Db : known[d] # "unknown"}) \ done

\* Bug: the timestamp is set although a call failed.
FetchRenewed(dbs) ==
    \E done \in SUBSET Need(dbs) :
        /\ Read(done)
        /\ broken' = (done # Need(dbs))
        /\ IF Need(dbs) # {} THEN Renew(Need(dbs)) ELSE UNCHANGED <<fetchAge, renewed>>

\* _get_athena_catalogs: what is missing or stale is read, until a call fails.  The
\* timestamp is set if none did, also for databases that were not read.
Fetch(dbs) ==
    \E done \in SUBSET Need(dbs) :
        /\ Read(done)
        /\ broken' = (done # Need(dbs))
        /\ IF Need(dbs) # {} /\ ~broken' THEN Renew(done)
           ELSE fetchAge' = fetchAge /\ renewed' = renewed \ done

-----------------------------------------------------------------------------
(* Scans of DynamoDB tables. *)

\* Bug: a cached scan is used whatever its age.
HitStale(t, limit) == scan[t] # {} /\ ~Limited(limit)
Hit(t, limit) == scan[t] # {} /\ scanAge[t] < Ttl /\ ~Limited(limit)

\* Bug: a scan with a limit is cached too.
CachesAny(t, limit) == ~Hit(t, limit)
Caches(t, limit) == ~Hit(t, limit) /\ ~Limited(limit)

\* _scan_dynamodb_table: what it may return ...
Scanned(t, limit) == IF Hit(t, limit) THEN {scan[t]} ELSE Requested(limit, table[t])
ScanResults(tables, limit) ==
    {got \in [tables -> UNION {Scanned(t, limit) : t \in tables}] :
        \A t \in tables : got[t] \in Scanned(t, limit)}

\* ... and what it leaves in the cache; a table without items is not cached, and a
\* stale entry goes.
Store(tables, limit, got) ==
    LET new(t) == t \in tables /\ Caches(t, limit)
    IN  /\ scan' = [t \in Dyn |-> IF new(t) THEN got[t] ELSE scan[t]]
        /\ scanAge' = [t \in Dyn |-> IF ~new(t) THEN scanAge[t]
                                     ELSE IF got[t] = {} THEN Ttl ELSE 0]

-----------------------------------------------------------------------------
(* execute_sql. *)

Answer(s, results) ==
    /\ answer' = [answer EXCEPT ![s] = "rows"]
    /\ \E result \in results : rows' = [rows EXCEPT ![s] = result]
Fail(s) == answer' = [answer EXCEPT ![s] = "error"] /\ UNCHANGED rows

\* The tables are scanned and DuckDB runs the statement; it fails over a table that has
\* no items, and so no columns, and over one that nobody recognized.  A scan that fails
\* ends the handler, and leaves the earlier ones in the cache.
Materialize(s, q, recognized) ==
    \E tables \in SUBSET q.dyn : \E got \in ScanResults(tables, ScanLimit(q)) :
        /\ Store(tables, ScanLimit(q), got)
        /\ IF recognized /\ tables = q.dyn /\ \A t \in tables : got[t] # {}
           THEN Answer(s, Run(q, got)) ELSE Fail(s)

\* _classify_sources: an Athena table is one if the catalog has it.
Recognized(q, dbs) == \A d \in q.athena : d \in dbs /\ known'[d] = "full"

\* The handler up to its first call of Athena, or to its end if there is none.
Execute(s, q) ==
    /\ LoopFree /\ job[s] = NoJob
    /\ job' = [job EXCEPT ![s] = q]
    /\ \E dbs \in Databases :
         /\ Fetch(dbs)
         /\ \/ /\ q.athena # {} /\ Recognized(q, dbs)
               /\ waited' = [waited EXCEPT ![s] = 1]
               /\ UNCHANGED <<scanCache, answer, rows>>
            \/ /\ PartiQlTakes(q)
               /\ Answer(s, PartiQl(q, table[CHOOSE t \in q.dyn : TRUE]))
               /\ UNCHANGED <<scanCache, waited>>
            \/ /\ q.athena = {} \/ ~Recognized(q, dbs)
               /\ Materialize(s, q, q.athena = {})
               /\ UNCHANGED waited
    /\ UNCHANGED aws

\* Athena has the result; what is scanned besides, is scanned now.
AthenaAnswers(s) ==
    /\ Waiting(s)
    /\ waited' = [waited EXCEPT ![s] = 0]
    /\ Materialize(s, job[s], TRUE)
    /\ UNCHANGED <<aws, catalog, job>>

\* Bug: there is no limit to the polls.
GiveUpNever(s) == FALSE /\ UNCHANGED sqlVars

\* The query failed, was cancelled (at any time), or was polled for long enough.
GiveUp(s) ==
    /\ Waiting(s)
    /\ waited' = [waited EXCEPT ![s] = 0]
    /\ Fail(s)
    /\ UNCHANGED <<aws, catalog, scanCache, job>>

Leave(s) ==
    /\ answer[s] # "none"
    /\ job' = [job EXCEPT ![s] = NoJob]
    /\ answer' = [answer EXCEPT ![s] = "none"] /\ rows' = [rows EXCEPT ![s] = {}]
    /\ UNCHANGED <<aws, catalog, scanCache, waited>>

-----------------------------------------------------------------------------
(* AWS and time. *)

ChangeTable(t, c) ==
    /\ LoopFree /\ changes < MaxChanges /\ c # table[t]
    /\ changes' = changes + 1
    /\ table' = [table EXCEPT ![t] = c]
    /\ held' = [held EXCEPT ![t][c] = 0]
    /\ UNCHANGED <<glue, catalog, scanCache, slots>>

ChangeDb(d, g) ==
    /\ LoopFree /\ changes < MaxChanges /\ g # glue[d]
    /\ changes' = changes + 1
    /\ glue' = [glue EXCEPT ![d] = g]
    /\ UNCHANGED <<table, held, catalog, scanCache, slots>>

Older(n) == IF n < Ttl THEN n + 1 ELSE Ttl

Tick ==
    /\ LoopFree /\ \A s \in Slot : waited[s] <= Patience
    /\ held' = [t \in Dyn |->
                   [c \in Contents |-> IF c = table[t] THEN 0 ELSE Older(held[t][c])]]
    /\ fetchAge' = Older(fetchAge)
    /\ knownAge' = [d \in Db |-> Older(knownAge[d])]
    /\ scanAge' = [t \in Dyn |-> Older(scanAge[t])]
    /\ waited' = [s \in Slot |-> IF waited[s] > 0 THEN waited[s] + 1 ELSE 0]
    /\ UNCHANGED <<table, glue, changes, known, renewed, broken, scan, job, answer, rows>>

SqlNext ==
    \/ \E s \in Slot, q \in Asked : Execute(s, q)
    \/ \E s \in Slot : AthenaAnswers(s) \/ GiveUp(s) \/ Leave(s)
    \/ \E t \in Dyn, c \in Contents : ChangeTable(t, c)
    \/ \E d \in Db \ {DefaultDb}, g \in {"absent", "empty", "full"} : ChangeDb(d, g)
    \/ Tick

\* Time passes however many statements there are, and the event loop gets round to every
\* handler that is due.
SqlSpec ==
    /\ SqlInit /\ [][SqlNext]_sqlVars
    /\ SF_sqlVars(Tick)
    /\ \A s \in Slot : WF_sqlVars(Leave(s)) /\ SF_sqlVars(waited[s] > Patience /\ GiveUp(s))

-----------------------------------------------------------------------------
(* Properties. *)

\* The type of the state; what is cached of a table is a whole table.
SqlTypeOK ==
    /\ table \in [Dyn -> Contents] /\ held \in [Dyn -> [Contents -> 0 .. Ttl]]
    /\ glue \in [Db -> {"absent", "empty", "full"}]
    /\ known \in [Db -> {"unknown", "absent", "empty", "full"}]
    /\ fetchAge \in 0 .. Ttl /\ knownAge \in [Db -> 0 .. Ttl]
    /\ renewed \subseteq Db /\ broken \in BOOLEAN
    /\ scan \in [Dyn -> Contents] /\ scanAge \in [Dyn -> 0 .. Ttl]
    /\ job \in [Slot -> Asked \cup {NoJob}] /\ waited \in [Slot -> 0 .. Patience + 1]
    /\ answer \in [Slot -> {"none", "error", "rows"}] /\ rows \in [Slot -> SUBSET Nat]
    /\ changes \in 0 .. MaxChanges

\* Contents that the tables held within the last Ttl ticks.
RecentContents == {f \in [Dyn -> Contents] : \A t \in Dyn : held[t][f[t]] < Ttl}

AnswersRight(s) ==
    answer[s] = "rows" => \E content \in RecentContents : rows[s] \in Run(job[s], content)

\* Every statement that is answered is answered with the rows it asks for, from what its
\* tables held in the last 300 s, whichever engines and caches it went through.
\* (README.md:144: "write standard SQL, engine chosen transparently".)
AnswersAreRight == \A s \in Slot : AnswersRight(s)

\* Of a statement over one DynamoDB table, PartiQL drops LIMIT 0; a greater LIMIT is applied
\* to the table before the statement selects from it, and ends with the first page.
LimitIsMisapplied(q) ==
    /\ q.limit # NoLimit /\ Cardinality(q.dyn) = 1 /\ q.athena = {}
    /\ \/ q.limit = 0 /\ PartiQlTakes(q)
       \/ q.limit # 0 /\ (q.op # "all" \/ q.frame \/ \E p \in Pages : p < q.limit)

\* The same, for the statements whose LIMIT is not lost or pushed into a request for items
\* that does not do what LIMIT does.
OtherAnswersAreRight == \A s \in Slot : LimitIsMisapplied(job[s]) \/ AnswersRight(s)

\* A statement is routed by a catalog that is not older than 300 s, unless Glue failed or
\* the timestamp was renewed for the sake of another database.
CatalogIsFresh ==
    [][\A s \in Slot : job[s] = NoJob /\ job'[s] # NoJob =>
          \A d \in job'[s].athena :
              known'[d] # "unknown" /\ ~broken' /\ d \notin renewed'
              => knownAge'[d] < Ttl]_sqlVars

\* Every statement ends, whether or not Athena ever answers.
StatementsEnd == \A s \in Slot : job[s] # NoJob ~> job[s] = NoJob
==============================================================================
