---------------------------- MODULE MCSqlEngine -----------------------------
(* Small instances of SqlEngine for the model checker. *)
EXTENDS SqlEngine

Tables == {{}, {1, 2}}

Query(dyn, athena, frame, op, limit) ==
    [dyn |-> dyn, athena |-> athena, frame |-> frame, op |-> op, limit |-> limit]

\* Each way through execute_sql, LIMIT 0 among them; three of the statements whose LIMIT is
\* misapplied: before a sort, beyond a page, and LIMIT 0 of one DynamoDB table.
Statements ==
    {Query(Dyn, {}, FALSE, "all", n) : n \in {0, 1, 2}}
    \cup {Query(Dyn, {}, FALSE, "filter", NoLimit), Query(Dyn, {}, FALSE, "sort", 1),
          Query(Dyn, {}, TRUE, "filter", NoLimit), Query(Dyn, {}, TRUE, "all", 0),
          Query(Dyn, {DefaultDb}, FALSE, "filter", 1), Query({}, {}, TRUE, "all", NoLimit)}
    \cup {Query({}, {d}, FALSE, "sort", 1) : d \in Db}
=============================================================================
