------------------------------- MODULE Store --------------------------------
(***************************************************************************)
(* What the write API of one resource promises its clients: a request      *)
(* takes effect at one moment and wholly, or not at all.  2xx: it did.     *)
(* 409: at that moment a row held one of its keys.  404: there was no such *)
(* row.  Any other 4xx: it did not take effect.  500, or no answer at all: *)
(* it may have.                                                            *)
(***************************************************************************)
EXTENDS Naturals, FiniteSets, Functions

CONSTANTS Client, Ext

Seed == "seed"

VARIABLES rows,   \* id -> [keys, by, version, image], a partial function
          ask,    \* what a client's request asks for
          answer  \* NoAnswer, Pending, or the status it was answered

NoAnswer == 0
Pending  == 100

NoAsk == [op |-> "none", items |-> <<>>, id |-> 0, bump |-> FALSE]

StoreInit ==
    /\ \A i \in DOMAIN rows : rows[i].by = Seed
    /\ ask = [c \in Client |-> NoAsk]
    /\ answer = [c \in Client |-> NoAnswer]

Holder(r, keys) == {i \in DOMAIN r : r[i].keys \cap keys # {}}
Unique(r) == \A i, j \in DOMAIN r : i # j => r[i].keys \cap r[j].keys = {}

Created(c, keys, old, new) ==
    /\ Holder(old, keys) = {}
    /\ \E i \in DOMAIN new \ DOMAIN old :
         new = [j \in DOMAIN old \cup {i} |->
                  IF j = i THEN [keys |-> keys, by |-> c, version |-> 1, image |-> Seed]
                  ELSE old[j]]

(* A PATCH.  Only a template has a version, and only a template's name is  *)
(* a key.                                                                  *)
Patched(c, a, old, new) ==
    /\ a.id \in DOMAIN old
    /\ Unique(new)
    /\ new = [old EXCEPT ![a.id].by = c,
                         ![a.id].version = @ + IF a.bump THEN 1 ELSE 0,
                         ![a.id].keys = IF a.items = <<>> THEN @
                                        ELSE (@ \cap Ext) \cup a.items[1]]

(* Every item has its row, by external id when it has one; nothing else    *)
(* changed.                                                                *)
Upserted(c, items, old, new) ==
    LET named == {it \cap Ext : it \in Range(items)} \ {{}}
        fresh == DOMAIN new \ DOMAIN old
    IN  /\ DOMAIN old \subseteq DOMAIN new /\ Unique(new)
        /\ \A i \in DOMAIN old :
             IF old[i].keys \cap Ext \in named
             THEN new[i].by = c /\ new[i].keys \in Range(items)
             ELSE new[i] = old[i]
        /\ \A i \in fresh : new[i].by = c /\ new[i].keys \in Range(items)
        /\ \A e \in named : \E i \in DOMAIN new : new[i].keys \cap Ext = e
        /\ Cardinality({i \in fresh : new[i].keys \cap Ext = {}})
             = Cardinality({n \in DOMAIN items : items[n] \cap Ext = {}})

Illustrated(c, i, old, new) ==
    i \in DOMAIN old /\ new = [old EXCEPT ![i].image = c]

Effect(c, old, new) ==
    LET a == ask[c] IN
    \/ a.op \in {"create", "upsert"} /\ Created(c, a.items[1], old, new)
    \/ a.op = "update" /\ Patched(c, a, old, new)
    \/ a.op = "batch"  /\ Upserted(c, a.items, old, new)
    \/ a.op = "upload" /\ Illustrated(c, a.id, old, new)

-----------------------------------------------------------------------------
Ask(c) ==
    /\ answer[c] = NoAnswer /\ answer' = [answer EXCEPT ![c] = Pending]
    /\ ask'[c].op # "none"
    /\ \A d \in Client \ {c} : ask'[d] = ask[d]
    /\ UNCHANGED rows

Answer(c, code) ==
    /\ answer' = [answer EXCEPT ![c] = code]
    /\ ask' = [ask EXCEPT ![c] = NoAsk]

Succeed(c) ==
    /\ answer[c] = Pending
    /\ Effect(c, rows, rows')
    /\ \E code \in {200, 201} : Answer(c, code)

(* upsertByUrl finds the site.                                             *)
Find(c) ==
    /\ answer[c] = Pending /\ ask[c].op = "upsert"
    /\ Holder(rows, ask[c].items[1]) # {}
    /\ Answer(c, 200) /\ UNCHANGED rows

Clash(c) ==
    /\ answer[c] = Pending /\ ask[c].op = "create"
    /\ Holder(rows, ask[c].items[1]) # {}
    /\ Answer(c, 409) /\ UNCHANGED rows

Miss(c) ==
    /\ answer[c] = Pending /\ ask[c].op \in {"update", "upload"}
    /\ ask[c].id \notin DOMAIN rows
    /\ Answer(c, 404) /\ UNCHANGED rows

Refuse(c) ==
    /\ answer[c] \in {NoAnswer, Pending}
    /\ \E code \in {400, 403, 413, 415, 422, 500} : Answer(c, code)
    /\ UNCHANGED rows

Read(c) ==
    /\ answer[c] = NoAnswer
    /\ \E code \in {200, 404} : Answer(c, code)
    /\ UNCHANGED rows

(* 500, or the client hung up.                                             *)
Lose(c) ==
    /\ answer[c] = Pending
    /\ rows' = rows \/ Effect(c, rows, rows')
    /\ \E code \in {NoAnswer, 500} : Answer(c, code)

Leave(c) ==
    /\ answer[c] \notin {NoAnswer, Pending} /\ Answer(c, NoAnswer)
    /\ UNCHANGED rows

StoreNext == \E c \in Client :
    \/ Ask(c) \/ Succeed(c) \/ Find(c) \/ Clash(c) \/ Miss(c) \/ Refuse(c)
    \/ Read(c) \/ Lose(c) \/ Leave(c)

StoreSpec == StoreInit /\ [][StoreNext]_<<rows, ask, answer>>

=============================================================================
