------------------------------ MODULE D1Editor ------------------------------
(***************************************************************************)
(* The D1 table editor (host/storage/d1.rs, called by service/storage.rs   *)
(* and api/storage.rs): a page of a table is read and shown as strings,    *)
(* and a later edit names its rows by those strings.  Each editor call     *)
(* runs several `celld d1 execute` subprocesses, the first of which reads  *)
(* the schema the others are built from; the calls of one app exclude each *)
(* other through its push guard, but the app's own worker writes rows, and *)
(* a migration rebuilds the table, between any two of them.                *)
(*                                                                         *)
(* One table with the columns "a" and "b" of one app's database.  A stored *)
(* value is null, an integer, a text or a blob, with SQLite's rules for    *)
(* what a column's declared type makes of a value it stores or is compared *)
(* with (SQLite itself is external).                                       *)
(***************************************************************************)
EXTENDS Integers, FiniteSets, FiniteSetsExt, Functions

CONSTANTS
    MaxRows,      \* rows the table ever holds at one time
    MaxChanges,   \* BOUND: writes of the app's worker, migrations that rebuild the table
    MaxCalls,     \* calls of the editor
    PageSize,     \* the clamped page size
    MaxDeleteKeys \* keys one delete_rows call carries

VARIABLES
    bSchema,      \* the table as SQLite has it: declared types and key columns
    bRows,        \* its rows: rowid -> column -> stored value
    bPage,        \* what the browser shows: rows of cells, and the total
    bCall,        \* the editor call that holds the app's push guard
    bLeft         \* what is left of the bounds

vars == <<bSchema, bRows, bPage, bCall, bLeft>>

Columns == {"a", "b"}
Decls == {"INTEGER", "TEXT", ""}

(* SQL values, and the cells the browser sees.  "0x" stands for the        *)
(* characters x'..' a blob is shown as; a text may hold the same ones.     *)
Null == [t |-> "null", v |-> ""]
IntV(s) == [t |-> "int", v |-> s]
TextV(s) == [t |-> "text", v |-> s]
Blob == [t |-> "blob", v |-> "0x"]
Nothing == "NULL"
Numerals == {"1"}
Texts == {"1", "x", "0x"}
Values == {Null, Blob} \cup {IntV(s) : s \in Numerals} \cup {TextV(s) : s \in Texts}
Cells == Texts \cup {Nothing}
Written == {"1", Nothing}

Schemas == {s \in [decl : [Columns -> Decls], pk : {{}, {"a"}, {"a", "b"}}] : s.decl["b"] = "TEXT"}
Inserted == {r \in [Columns -> Values] : r["b"] \in {TextV("1"), TextV("x")}}
Idle == [step |-> "idle"]

-----------------------------------------------------------------------------
(* SQLite, external: a declared type converts what is stored under it, and *)
(* the literal a comparison puts beside it.                                *)
Converted(decl, val) ==
    CASE decl = "INTEGER" /\ val.t = "text" /\ val.v \in Numerals -> IntV(val.v)
      [] decl = "TEXT" /\ val.t = "int" -> TextV(val.v)
      [] OTHER -> val

StoredRow(schema, row) == [c \in Columns |-> Converted(schema.decl[c], row[c])]

Equal(decl, val, lit) == val.t # "null" /\ lit.t # "null" /\ val = Converted(decl, lit)

(* A primary key is unique among the rows that have no null in it (SQLite  *)
(* lets several nulls in; an INTEGER PRIMARY KEY holds integers only, a    *)
(* null given for it being the number SQLite picks).                       *)
KeyHolds(schema, rows) ==
    schema.pk # {} =>
        /\ \A i, j \in DOMAIN rows :
             i # j /\ (\A c \in schema.pk : rows[i][c] = rows[j][c])
                => \E c \in schema.pk : rows[i][c] = Null
        /\ \A c \in Columns : schema.pk = {c} /\ schema.decl[c] = "INTEGER"
                => \A i \in DOMAIN rows : rows[i][c].t = "int"

-----------------------------------------------------------------------------
(* cell_value: NULL is null, a number is its digits, a blob x'hex'.        *)
CellValue(val) == IF val = Null THEN Nothing ELSE val.v

Shown(row) == [c \in Columns |-> CellValue(row[c])]

(* literal: a numeral stays bare under a numeric declared type, everything *)
(* else is quoted.                                                         *)
Literal(decl, cell) ==
    CASE cell = Nothing -> Null
      [] decl = "INTEGER" /\ cell \in Numerals -> IntV(cell)
      [] OTHER -> TextV(cell)

(* check_key: exactly the primary key, or every column without one.        *)
KeyColumns(schema) == IF schema.pk = {} THEN Columns ELSE schema.pk
(* Mutant: a part of the key will do.                                      *)
CheckKeyAnyPart(schema, key) == DOMAIN key # {} /\ DOMAIN key \subseteq KeyColumns(schema)
CheckKey(schema, key) == DOMAIN key # {} /\ DOMAIN key = KeyColumns(schema)

(* key_conditions, as SQLite evaluates them: the literals come from the    *)
(* schema the call loaded, the affinities from the table as it is.         *)
KeyConditions(loaded, schema, key, row) ==
    \A c \in DOMAIN key :
        IF key[c] = Nothing THEN row[c] = Null
        ELSE Equal(schema.decl[c], row[c], Literal(loaded.decl[c], key[c]))

(* where_clause: the filters are conditions on a column's value, the       *)
(* search a text match on any column.                                      *)
WhereClause(loaded, schema, filter, row) ==
    CASE filter.op = "none" -> TRUE
      [] filter.op = "eq" -> Equal(schema.decl["a"], row["a"], Literal(loaded.decl["a"], filter.cell))
      [] filter.op = "is_null" -> row["a"] = Null
      [] filter.op = "search" -> \E c \in Columns : CellValue(row[c]) = filter.cell
Filters == [op : {"none", "is_null"}, cell : {"1"}] \cup [op : {"eq", "search"}, cell : {"1"}]

(* visible_table: internals and the migration bookkeeping stay hidden.     *)
Tables == {"rows", "d1_migrations"}
Visible(table) == table # "d1_migrations"

-----------------------------------------------------------------------------
TypeOK ==
    /\ bSchema \in Schemas
    /\ DOMAIN bRows \subseteq 1..MaxRows
    /\ \A i \in DOMAIN bRows : bRows[i] \in [Columns -> Values]
    /\ bPage.total \in 0..MaxRows /\ bPage.rows \subseteq [Columns -> Cells]
    /\ bCall.step \in {"idle", "connected", "loaded", "answered"}
    /\ \A k \in DOMAIN bLeft : bLeft[k] >= 0

Init ==
    /\ bSchema = [decl |-> [c \in Columns |-> "TEXT"], pk |-> {"a", "b"}]
    /\ bRows = << >>
    /\ bPage = [rows |-> {}, total |-> 0]
    /\ bCall = Idle
    /\ bLeft = [changes |-> MaxChanges, calls |-> MaxCalls]

Spent(what) == bLeft[what] > 0 /\ bLeft' = [bLeft EXCEPT ![what] = @ - 1]

(* The app's worker, external: it inserts or deletes a row of its own.     *)
WorkerInsert(i, row) ==
    /\ Spent("changes")
    /\ i \notin DOMAIN bRows
    /\ LET after == [j \in DOMAIN bRows \cup {i} |->
                        IF j = i THEN StoredRow(bSchema, row) ELSE bRows[j]]
       IN KeyHolds(bSchema, after) /\ bRows' = after
    /\ UNCHANGED <<bSchema, bPage, bCall>>

WorkerDelete(i) ==
    /\ Spent("changes")
    /\ i \in DOMAIN bRows
    /\ bRows' = Restrict(bRows, DOMAIN bRows \ {i})
    /\ UNCHANGED <<bSchema, bPage, bCall>>

(* A migration of a deploy, external: the table is rebuilt under another   *)
(* schema, its rows copied into it.                                        *)
Migration(schema) ==
    /\ Spent("changes")
    /\ schema # bSchema
    /\ LET after == [i \in DOMAIN bRows |-> StoredRow(schema, bRows[i])]
       IN KeyHolds(schema, after) /\ bRows' = after
    /\ bSchema' = schema
    /\ UNCHANGED <<bPage, bCall>>
-----------------------------------------------------------------------------
(* service::storage takes the app's push guard for the whole call;         *)
(* D1::connect materialises the project with it.  A hidden table is        *)
(* refused before anything runs.                                           *)
Connect(op, table, ask) ==
    /\ bCall.step = "idle" /\ Spent("calls")
    /\ Visible(table)
    /\ bCall' = [step |-> "connected", op |-> op, ask |-> ask]
    /\ UNCHANGED <<bSchema, bRows, bPage>>

(* load_table: the schema the statement will be built from, and the checks *)
(* the builders make against it.                                           *)
Buildable(op, ask, schema) ==
    CASE op = "rows" -> TRUE
      [] op = "insert" -> DOMAIN ask.values # {}
      [] op = "update" -> DOMAIN ask.values # {} /\ CheckKey(schema, ask.key)
      [] op = "delete" -> /\ ask.keys # {} /\ Cardinality(ask.keys) <= MaxDeleteKeys
                          /\ \A k \in ask.keys : CheckKey(schema, k)

LoadTable ==
    /\ bCall.step = "connected"
    /\ bCall' = IF Buildable(bCall.op, bCall.ask, bSchema)
                THEN [step |-> "loaded", op |-> bCall.op, ask |-> bCall.ask, schema |-> bSchema]
                ELSE [step |-> "answered", touched |-> {}, deleted |-> 0]
    /\ UNCHANGED <<bSchema, bRows, bPage, bLeft>>

(* A subprocess that fails answers an error and its transaction left       *)
(* nothing; one that timed out after it committed is the step below with   *)
(* its answer lost, which no later step of the runner tells apart.         *)
CallFails ==
    /\ bCall.step \in {"connected", "loaded"}
    /\ bCall' = [step |-> "answered", touched |-> {}, deleted |-> 0]
    /\ UNCHANGED <<bSchema, bRows, bPage, bLeft>>

(* d1_rows: the page and its total in one batch, so of one snapshot.       *)
Found(call) == {i \in DOMAIN bRows : WhereClause(call.schema, bSchema, call.ask.filter, bRows[i])}

D1Rows ==
    /\ bCall.step = "loaded" /\ bCall.op = "rows"
    /\ LET found == Found(bCall)
           page == {i \in found : Cardinality({j \in found : j < i}) < PageSize}
       IN bPage' = [rows |-> {Shown(bRows[i]) : i \in page}, total |-> Cardinality(found)]
    /\ bCall' = [step |-> "answered", touched |-> {}, deleted |-> 0]
    /\ UNCHANGED <<bSchema, bRows, bLeft>>

(* What an edit did: the rows each key of it took, as they were shown.     *)
Taken(call, key) == {i \in DOMAIN bRows : KeyConditions(call.schema, bSchema, key, bRows[i])}
Touched(call, keys) ==
    {[key |-> k, shown |-> Shown(bRows[i]), id |-> i,
      keyed |-> call.schema.pk # {} /\ call.schema = bSchema, nulls |-> \E c \in DOMAIN k : k[c] = Nothing] : k \in keys, i \in DOMAIN bRows}
Effect(call, keys) == {e \in Touched(call, keys) : e.id \in Taken(call, e.key)}

(* build_insert.                                                           *)
D1Insert(i) ==
    /\ bCall.step = "loaded" /\ bCall.op = "insert" /\ i \in 1..MaxRows \ DOMAIN bRows
    /\ LET values == bCall.ask.values
           row == StoredRow(bSchema, [c \in Columns |->
                    IF c \in DOMAIN values THEN Literal(bCall.schema.decl[c], values[c]) ELSE Null])
           after == [j \in DOMAIN bRows \cup {i} |-> IF j = i THEN row ELSE bRows[j]]
       IN bRows' = IF KeyHolds(bSchema, after) THEN after ELSE bRows
    /\ bCall' = [step |-> "answered", touched |-> {}, deleted |-> 0]
    /\ UNCHANGED <<bSchema, bPage, bLeft>>

(* build_update: one statement, refused whole when a row would break the   *)
(* table's key.                                                            *)
D1Update ==
    /\ bCall.step = "loaded" /\ bCall.op = "update"
    /\ LET ask == bCall.ask
           taken == Taken(bCall, ask.key)
           set(row) == StoredRow(bSchema, [c \in Columns |->
                    IF c \in DOMAIN ask.values THEN Literal(bCall.schema.decl[c], ask.values[c])
                    ELSE row[c]])
           after == [i \in DOMAIN bRows |-> IF i \in taken THEN set(bRows[i]) ELSE bRows[i]]
           fits == KeyHolds(bSchema, after)
       IN /\ bRows' = IF fits THEN after ELSE bRows
          /\ bCall' = [step |-> "answered", deleted |-> 0,
                       touched |-> IF fits THEN Effect(bCall, {ask.key}) ELSE {}]
    /\ UNCHANGED <<bSchema, bPage, bLeft>>

(* build_delete and build_delete_keys: one transaction, each DELETE        *)
(* followed by its changes(), whose sum is what the caller is told.        *)
D1DeleteRows ==
    /\ bCall.step = "loaded" /\ bCall.op = "delete"
    /\ LET keys == bCall.ask.keys
           gone == UNION {Taken(bCall, k) : k \in keys}
       IN /\ bRows' = Restrict(bRows, DOMAIN bRows \ gone)
          /\ bCall' = [step |-> "answered", touched |-> Effect(bCall, keys),
                       deleted |-> Cardinality(gone)]
    /\ UNCHANGED <<bSchema, bPage, bLeft>>

Release ==
    /\ bCall.step = "answered"
    /\ bCall' = Idle
    /\ UNCHANGED <<bSchema, bRows, bPage, bLeft>>

(* A browser names a row by cells of the page it shows, over any columns.  *)
Keys == UNION {{Restrict(r, cs) : cs \in SUBSET Columns \ {{}}} : r \in bPage.rows}

Call ==
    \E table \in Tables :
        \/ \E f \in Filters : Connect("rows", table, [filter |-> f])
        \/ \E cell \in Written : Connect("insert", table, [values |-> [c \in Columns |-> cell]])
        \/ \E k \in Keys, cell \in Written, c \in Columns :
              Connect("update", table, [key |-> k, values |-> [x \in {c} |-> cell]])
        \/ \E ks \in kSubset(1, Keys) \cup kSubset(2, Keys) : Connect("delete", table, [keys |-> ks])

Next ==
    \/ \E i \in 1..MaxRows, row \in Inserted : WorkerInsert(i, row)
    \/ \E i \in 1..MaxRows : WorkerDelete(i)
    \/ \E s \in Schemas : Migration(s)
    \/ Call \/ LoadTable \/ CallFails \/ D1Rows \/ D1Update \/ D1DeleteRows \/ Release
    \/ \E i \in 1..MaxRows : D1Insert(i)

Spec == Init /\ [][Next]_vars
-----------------------------------------------------------------------------
(* An edit reaches only rows the browser could have meant: every row it    *)
(* changed or removed was shown, at that moment, with exactly the cells of *)
(* the key that named it, and a key without NULL took at most one row of   *)
(* a table whose primary key stood since the schema was read.              *)
EditTouchesShown ==
    bCall.step = "answered" =>
        \A e \in bCall.touched :
            /\ \A c \in DOMAIN e.key : e.shown[c] = e.key[c]
            /\ \A f \in bCall.touched :
                 e.key = f.key /\ ~e.nulls /\ e.keyed => e.id = f.id

(* Why: the table keeps its key, and the keys of a call that was built are *)
(* the whole key of the schema it was built from.                          *)
NamedKeys(call) ==
    CASE call.op = "update" -> {call.ask.key} [] call.op = "delete" -> call.ask.keys [] OTHER -> {}
KeyInv ==
    /\ bSchema \in Schemas /\ KeyHolds(bSchema, bRows)
    /\ bCall.step = "loaded" =>
           bCall.schema \in Schemas /\ \A k \in NamedKeys(bCall) : CheckKey(bCall.schema, k)
    /\ EditTouchesShown

(* Why the rows keep their type: what a call asks to write is a cell, until *)
(* the statement is built from it.                                         *)
Bounds == MaxRows \in Nat /\ MaxChanges \in Nat /\ MaxCalls \in Nat
AskInv ==
    /\ bLeft \in [changes : Nat, calls : Nat]
    /\ bCall.step \in {"connected", "loaded"} /\ bCall.op \in {"insert", "update"} =>
           \A c \in DOMAIN bCall.ask.values : bCall.ask.values[c] \in Written
=============================================================================
