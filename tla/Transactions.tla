---------------------------- MODULE Transactions ----------------------------
(***************************************************************************)
(* One table of the database as the resource handlers use it through sqlx  *)
(* (src/src/handlers.rs, src/src/db.rs): a transaction per request at READ *)
(* COMMITTED, its statements, COMMIT, and the rollback of a transaction    *)
(* that is dropped.  PostgreSQL itself is external: a statement that meets *)
(* a row or a unique key another transaction has written waits for that    *)
(* transaction to end, and of those that wait for each other one is failed.*)
(***************************************************************************)
EXTENDS Naturals, FiniteSetsExt

CONSTANTS Client,  \* who sends requests, one at a time each
          Ext,     \* external ids
          Second,  \* values of the second unique column: a site's url, a template's name
          MaxId    \* bound on the ids a request may name

ASSUME TransactionsAssumption ==
    MaxId \in Nat \ {0} /\ Ext \cap Second = {} /\ IsFiniteSet(Client)

VARIABLES rows,    \* committed rows: id -> Row, a partial function
          writes   \* the uncommitted rows of each client's transaction

store == <<rows, writes>>

Id   == Nat \ {0}
Keys == SUBSET (Ext \cup Second)
Seed == "seed"

(* by: the last writer.  image: the upload that image_url names.           *)
Row  == [keys : Keys, by : Client \cup {Seed}, version : Nat,
         image : Client \cup {Seed}]
IsTable(t) ==
    DOMAIN t \subseteq Id /\ IsFiniteSet(DOMAIN t) /\ t \in [DOMAIN t -> Row]
NoRows == <<>>

(* The rows of s, and those of t where s has none.                         *)
Over(s, t) ==
    [i \in DOMAIN s \cup DOMAIN t |-> IF i \in DOMAIN s THEN s[i] ELSE t[i]]
Put(t, i, row) == Over([j \in {i} |-> row], t)

(* What a statement of c sees: its own writes over what is committed.      *)
Visible(c) == Over(writes[c], rows)

(* Ids come from a sequence.  One that a rolled back insert drew is drawn  *)
(* again here: nobody has seen it.                                         *)
Drawn  == DOMAIN rows \cup UNION {DOMAIN writes[c] : c \in Client}
NextId == 1 + Max({0} \cup Drawn)

(* The unique keys d's open transaction has taken or is giving up.         *)
Holds(d) == (UNION {writes[d][i].keys : i \in DOMAIN writes[d]})
            \cup (UNION {rows[i].keys : i \in DOMAIN writes[d] \cap DOMAIN rows})

KeyAwaits(c, keys) == {d \in Client \ {c} : Holds(d) \cap keys # {}}
RowAwaits(c, i)    == {d \in Client \ {c} : i \in DOMAIN writes[d] \cap DOMAIN rows}

(* Rows other than those excepted that hold one of the keys.               *)
Clashing(c, keys, except) ==
    {i \in DOMAIN Visible(c) \ except : Visible(c)[i].keys \cap keys # {}}

Write(c, i, row) ==
    /\ writes' = [writes EXCEPT ![c] = Put(writes[c], i, row)]
    /\ UNCHANGED rows

Insert(c, keys) ==
    /\ Clashing(c, keys, {}) = {}
    /\ Write(c, NextId, [keys |-> keys, by |-> c, version |-> 1, image |-> Seed])

Update(c, i, row) == Clashing(c, row.keys, {i}) = {} /\ Write(c, i, row)

(* tx.rollback(), or a Transaction dropped without commit().               *)
Rollback(c) == writes' = [writes EXCEPT ![c] = NoRows] /\ UNCHANGED rows

Commit(c) ==
    /\ rows' = Visible(c)
    /\ writes' = [writes EXCEPT ![c] = NoRows]

=============================================================================
