---------------------------- MODULE PanelProofs ----------------------------
(* What the parts of MCDelivery behind the panel promise, for every value   *)
(* of their constants: commits, table edits, settings, the object browser   *)
(* and the S3 client. The types of the whole suite come last.               *)
EXTENDS StorageProofs

-----------------------------------------------------------------------------
(* Commits from the panel (WebCommit). *)
(* The invariant holds at first. *)
LEMMA WebInitL == ASSUME Web!Init PROVE Web!PassInv
  BY DEF Web!Init, Web!PassInv, Web!CommitsWhatWasAsked

(* Every step keeps the tree the one asked for, path by path. *)
LEMMA WebSteps == ASSUME Web!PassInv, [Web!Next]_webVars PROVE Web!PassInv'
  <1> DEFINE Later == {"asked", "moved", "written", "committed"}
             files == wChange.files
             deletes == wChange.deletes
  <1>i. /\ wStep \in Later => Web!Valid(wChange)
        /\ \A p \in WebPaths : wStep = "asked" => wIndex[p] = wParent[p]
        /\ \A p \in WebPaths : wStep = "moved" => wIndex[p] = Web!Moved(p)
        /\ \A p \in WebPaths : wStep = "written" => wIndex[p] = IF p \in files THEN Web!Written ELSE Web!Moved(p)
    BY DEF Web!PassInv
  <1>1. CASE Web!Ask BY <1>1 DEF Web!Ask, Web!PassInv, Web!CommitsWhatWasAsked
  <1>2. CASE Web!Moves
    <2>1. wStep = "asked" /\ wStep' = "moved" /\ wChange' = wChange /\ wParent' = wParent
      BY <1>2 DEF Web!Moves
    <2>2. \A p \in WebPaths : wIndex'[p] = Web!Moved(p)
      BY <1>2, <1>i, <2>1 DEF Web!Moves, Web!Moved
    <2>3. \A p \in WebPaths : Web!Moved(p)' = Web!Moved(p)
      BY <2>1 DEF Web!Moved, Web!Tos, Web!Froms
    <2>4. Web!Valid(wChange)' BY <2>1, <1>i DEF Web!Valid
    <2> QED BY <2>1, <2>2, <2>3, <2>4 DEF Web!PassInv, Web!CommitsWhatWasAsked
  <1>3. CASE Web!Writes
    <2>1. wStep = "moved" /\ wStep' = "written" /\ wChange' = wChange /\ wParent' = wParent
      BY <1>3 DEF Web!Writes
    <2>2. \A p \in WebPaths : wIndex'[p] = IF p \in files THEN Web!Written ELSE Web!Moved(p)
      BY <1>3, <1>i, <2>1 DEF Web!Writes
    <2>3. \A p \in WebPaths : Web!Moved(p)' = Web!Moved(p)
      BY <2>1 DEF Web!Moved, Web!Tos, Web!Froms
    <2>4. Web!Valid(wChange)' BY <2>1, <1>i DEF Web!Valid
    <2> QED BY <2>1, <2>2, <2>3, <2>4 DEF Web!PassInv, Web!CommitsWhatWasAsked
  <1>4. CASE Web!Deletes
    <2>1. wStep = "written" /\ wStep' = "committed" /\ wChange' = wChange /\ wParent' = wParent
      BY <1>4 DEF Web!Deletes
    <2>2. \A p \in WebPaths : wIndex'[p] = IF p \in deletes THEN 0 ELSE IF p \in files THEN Web!Written ELSE Web!Moved(p)
      BY <1>4, <1>i, <2>1 DEF Web!Deletes
    <2>3. Web!Valid(wChange) BY <2>1, <1>i
    <2>4. files \cap deletes = {} /\ Web!Froms(wChange) \cap files = {}
      BY <2>3 DEF Web!Valid, Web!ValidMoves, Web!Froms
    <2>5. ASSUME Web!Tos(wChange) \cap deletes = {}, NEW p \in WebPaths
          PROVE  wIndex'[p] = Web!Asked(p)
      <3>1. CASE p \in files BY <3>1, <2>2, <2>4 DEF Web!Asked
      <3>2. CASE p \in Web!Tos(wChange) \ files BY <3>2, <2>2, <2>5 DEF Web!Asked, Web!Moved
      <3>3. CASE p \in (Web!Froms(wChange) \cup deletes) \ (Web!Tos(wChange) \cup files)
        BY <3>3, <2>2 DEF Web!Asked, Web!Moved
      <3>4. CASE p \notin files \cup Web!Tos(wChange) \cup Web!Froms(wChange) \cup deletes
        BY <3>4, <2>2 DEF Web!Asked, Web!Moved
      <3> QED BY <3>1, <3>2, <3>3, <3>4
    <2>6. \A p : Web!Asked(p)' = Web!Asked(p) BY <2>1 DEF Web!Asked, Web!Tos, Web!Froms
    <2>7. Web!Tos(wChange)' = Web!Tos(wChange) BY <2>1 DEF Web!Tos
    <2>8. Web!Valid(wChange)' BY <2>1, <2>3 DEF Web!Valid
    <2> QED BY <2>1, <2>5, <2>6, <2>7, <2>8 DEF Web!PassInv, Web!CommitsWhatWasAsked
  <1>5. CASE Web!Refuse BY <1>5 DEF Web!Refuse, Web!PassInv, Web!CommitsWhatWasAsked
  <1>6. CASE UNCHANGED webVars
    <2>1. wStep' = wStep /\ wChange' = wChange /\ wParent' = wParent /\ wIndex' = wIndex
      BY <1>6 DEF webVars
    <2> QED BY <2>1
               DEF Web!PassInv, Web!CommitsWhatWasAsked, Web!Asked, Web!Moved, Web!Valid,
                   Web!Tos, Web!Froms
  <1> QED BY <1>1, <1>2, <1>3, <1>4, <1>5, <1>6 DEF Web!Next

(* The cardinality WebCommit uses is the library's. *)
LEMMA WebCardL == \A S : Web!Cardinality(S) = Cardinality(S)
  BY DEF Web!Cardinality, Cardinality

(* The finiteness WebCommit uses is the library's. *)
LEMMA WebFinL == \A S : Web!IsFiniteSet(S) <=> IsFiniteSet(S)
  BY DEF Web!IsFiniteSet, IsFiniteSet

(* The first state of a commit from the panel has its types. *)
LEMMA WebTypeInit == ASSUME Web!Bounds, Web!Init PROVE Web!TypeOK
  <1>1. Cardinality(WebPaths) \in Nat BY FS_CardinalityType, WebFinL DEF Web!Bounds
  <1>2. wParent \in [WebPaths -> 0 .. Cardinality(WebPaths)] BY <1>1 DEF Web!Init
  <1> QED BY <1>2, WebCardL DEF Web!Init, Web!TypeOK, Web!NoChange

(* A step of a commit from the panel keeps its types. *)
LEMMA WebTypeStep == ASSUME Web!Bounds, Web!TypeOK, [Web!Next]_webVars PROVE Web!TypeOK'
  <1> DEFINE Blobs == 0 .. Cardinality(WebPaths)
  <1>1. Cardinality(WebPaths) \in Nat BY FS_CardinalityType, WebFinL DEF Web!Bounds
  <1>2. 0 \in Blobs BY <1>1
  <1>3. /\ wParent \in [WebPaths -> Blobs] /\ wIndex \in [WebPaths -> Blobs \cup {Web!Written}]
        /\ wChange.files \cup wChange.deletes \subseteq WebPaths
        /\ wChange.moves \subseteq WebPaths \X WebPaths
    BY WebCardL DEF Web!TypeOK
  <1>w. ASSUME wParent' \in [WebPaths -> Blobs],
               wIndex' \in [WebPaths -> Blobs \cup {Web!Written}], 
               wChange'.files \cup wChange'.deletes \subseteq WebPaths,
               wChange'.moves \subseteq WebPaths \X WebPaths,
               wStep' \in {"idle", "asked", "moved", "written", "committed", "refused"}
        PROVE  Web!TypeOK'
    BY <1>w, WebCardL DEF Web!TypeOK
  <1> HIDE DEF Blobs
  <1>4. CASE Web!Ask
    <2>1. wParent' \in [WebPaths -> Blobs] BY <1>4, WebCardL DEF Web!Ask, Web!Trees, Blobs
    <2>2. wChange'.files \cup wChange'.deletes \subseteq WebPaths /\
          wChange'.moves \subseteq WebPaths \X WebPaths
      BY <1>4 DEF Web!Ask
    <2>3. wIndex' \in [WebPaths -> Blobs \cup {Web!Written}] BY <1>4, <2>1 DEF Web!Ask
    <2>4. wStep' \in {"asked", "refused"} BY <1>4 DEF Web!Ask
    <2> QED BY <2>1, <2>2, <2>3, <2>4, <1>w
  <1>5. CASE Web!Moves
    <2>1. \A p \in Web!Tos(wChange) : wParent[(CHOOSE m \in wChange.moves : m[2] = p)[1]] \in Blobs
      BY <1>3 DEF Web!Tos
    <2>2. wIndex' = [p \in WebPaths |-> IF p \in Web!Tos(wChange) THEN wParent[(CHOOSE m \in wChange.moves : m[2] = p)[1]]
                                     ELSE IF p \in Web!Froms(wChange) THEN 0 ELSE wIndex[p]]
      BY <1>5 DEF Web!Moves
    <2>3. wIndex' \in [WebPaths -> Blobs \cup {Web!Written}] BY <2>1, <2>2, <1>2, <1>3
    <2>4. wStep' = "moved" /\ UNCHANGED <<wParent, wChange>> BY <1>5 DEF Web!Moves
    <2> QED BY <2>3, <2>4, <1>3, <1>w
  <1>6. CASE Web!Writes
    <2>1. wIndex' \in [WebPaths -> Blobs \cup {Web!Written}] BY <1>6, <1>3 DEF Web!Writes
    <2>2. wStep' = "written" /\ UNCHANGED <<wParent, wChange>> BY <1>6 DEF Web!Writes
    <2> QED BY <2>1, <2>2, <1>3, <1>w
  <1>7. CASE Web!Deletes
    <2>1. wIndex' \in [WebPaths -> Blobs \cup {Web!Written}] BY <1>7, <1>2, <1>3 DEF Web!Deletes
    <2>2. wStep' = "committed" /\ UNCHANGED <<wParent, wChange>> BY <1>7 DEF Web!Deletes
    <2> QED BY <2>1, <2>2, <1>3, <1>w
  <1>8. CASE Web!Refuse
    <2>1. wStep' = "refused" /\ UNCHANGED <<wParent, wChange, wIndex>> BY <1>8 DEF Web!Refuse
    <2> QED BY <2>1, <1>3, <1>w
  <1>9. CASE UNCHANGED webVars BY <1>9, WebCardL DEF webVars, Web!TypeOK
  <1> QED BY <1>4, <1>5, <1>6, <1>7, <1>8, <1>9 DEF Web!Next

(* A step of the suite is a step of the web commits or leaves them alone. *)
LEMMA WebNext == [Next]_allVars => [Web!Next]_webVars
  BY DEF Next, allVars, VoidStep, ScanStep, GitStep, PrsStep, WebStep, ConfStep, MapsStep,
         ImpStep, BootStep, R2Step, D1Step, S3Step

(* The inductive invariant of the web commits. *)
LEMMA WebInductive == Spec => [](Web!PassInv)
  <1> DEFINE Inv == Web!PassInv
  <1>1. Init => Inv BY WebInitL DEF Init
  <1>2. Inv /\ [Next]_allVars => Inv' BY WebNext, WebSteps
  <1> QED BY <1>1, <1>2, PTL DEF Spec

(* Commits from the panel keep their types. *)
LEMMA WebTyped == Spec => []Web!TypeOK
  <1> DEFINE Inv == Web!TypeOK
  <1>1. Init => Inv BY WebBounds, WebTypeInit DEF Init
  <1>2. Inv /\ [Next]_allVars => Inv' BY WebBounds, WebNext, WebTypeStep DEF Web!vars, webVars
  <1> QED BY <1>1, <1>2, PTL DEF Spec


-----------------------------------------------------------------------------
(* The table editor (D1Editor). *)
(* A cell that equals its own literal after affinity is shown as that cell. *)
LEMMA D1CellL ==
  ASSUME NEW d, NEW ld, NEW cell, NEW val, cell # D1!Nothing,
         D1!Equal(d, val, D1!Literal(ld, cell))
  PROVE D1!CellValue(val) = cell /\ val # D1!Null /\ val = D1!Converted(d, D1!Literal(ld, cell))
  <1>1. D1!Literal(ld, cell) = D1!IntV(cell) \/ D1!Literal(ld, cell) = D1!TextV(cell)
    BY DEF D1!Literal
  <1>2. val = D1!Converted(d, D1!Literal(ld, cell)) /\ val.t # "null" BY DEF D1!Equal
  <1>3. D1!Literal(ld, cell).v = cell BY <1>1 DEF D1!IntV, D1!TextV
  <1>4. \A x : x.v = cell => D1!Converted(d, x).v = cell BY DEF D1!Converted, D1!IntV, D1!TextV
  <1>5. val.v = cell BY <1>2, <1>3, <1>4
  <1>6. val # D1!Null
    <2>1. D1!Null.t = "null" BY DEF D1!Null
    <2> QED BY <1>2, <2>1
  <1> QED BY <1>2, <1>5, <1>6 DEF D1!CellValue

(* A statement with a whole key reaches only rows that show its cells. *)
LEMMA D1EffectL ==
  ASSUME D1!KeyHolds(bSchema, bRows), NEW call, call.schema \in D1!Schemas, NEW keys, 
                        \A k \in keys : D1!CheckKey(call.schema, k)
  PROVE \A e \in D1!Effect(call, keys) :
          /\ \A c \in DOMAIN e.key : e.shown[c] = e.key[c]
          /\ \A f \in D1!Effect(call, keys) : e.key = f.key /\ ~e.nulls /\ e.keyed => e.id = f.id
  <1> DEFINE E(k, i) == [key |-> k, shown |-> D1!Shown(bRows[i]), id |-> i,
                         keyed |-> call.schema.pk # {} /\ call.schema = bSchema, nulls |-> \E c \in DOMAIN k : k[c] = D1!Nothing]
  <1>1. \A e \in D1!Effect(call, keys) : \E k \in keys, i \in DOMAIN bRows :
            e = E(k, i) /\ D1!KeyConditions(call.schema, bSchema, k, bRows[i])
    BY DEF D1!Effect, D1!Touched, D1!Taken
  <1>2. \A k \in keys : DOMAIN k = D1!KeyColumns(call.schema) /\ DOMAIN k \subseteq D1!Columns
    BY DEF D1!CheckKey, D1!KeyColumns, D1!Schemas, D1!Columns
  <1>3. ASSUME NEW k \in keys, NEW i \in DOMAIN bRows,
               D1!KeyConditions(call.schema, bSchema, k, bRows[i]), NEW c \in DOMAIN k
        PROVE /\ D1!Shown(bRows[i])[c] = k[c]
              /\ k[c] # D1!Nothing => bRows[i][c] # D1!Null /\ bRows[i][c] = D1!Converted(bSchema.decl[c], D1!Literal(call.schema.decl[c], k[c]))
    <2>1. D1!Shown(bRows[i])[c] = D1!CellValue(bRows[i][c]) BY <1>2 DEF D1!Shown
    <2>2. CASE k[c] = D1!Nothing BY <2>1, <2>2, <1>3 DEF D1!KeyConditions, D1!CellValue
    <2>3. CASE k[c] # D1!Nothing
      <3>1. D1!Equal(bSchema.decl[c], bRows[i][c], D1!Literal(call.schema.decl[c], k[c]))
        BY <2>3, <1>3 DEF D1!KeyConditions
      <3> QED BY <3>1, <2>1, <2>3, D1CellL
    <2> QED BY <2>2, <2>3
  <1>4. ASSUME NEW k \in keys, NEW i \in DOMAIN bRows, NEW j \in DOMAIN bRows,
               D1!KeyConditions(call.schema, bSchema, k, bRows[i]), D1!KeyConditions(call.schema, bSchema, k, bRows[j]),
               call.schema.pk # {}, call.schema = bSchema, \A c \in DOMAIN k : k[c] # D1!Nothing
        PROVE i = j
    <2>1. DOMAIN k = bSchema.pk BY <1>2, <1>4 DEF D1!KeyColumns
    <2>2. \A c \in bSchema.pk : bRows[i][c] = bRows[j][c] /\ bRows[i][c] # D1!Null
      BY <1>3, <1>4, <2>1
    <2> QED BY <2>2, <1>4 DEF D1!KeyHolds
  <1> SUFFICES ASSUME NEW e \in D1!Effect(call, keys)
               PROVE /\ \A c \in DOMAIN e.key : e.shown[c] = e.key[c]
                     /\ \A f \in D1!Effect(call, keys) : e.key = f.key /\ ~e.nulls /\ e.keyed => e.id = f.id
    OBVIOUS
  <1>5. PICK k \in keys, i \in DOMAIN bRows : e = E(k, i) /\ D1!KeyConditions(call.schema, bSchema, k, bRows[i])
    BY <1>1
  <1>6. e.key = k /\ e.shown = D1!Shown(bRows[i]) /\ e.id = i BY <1>5
  <1>7. e.keyed => call.schema.pk # {} /\ call.schema = bSchema BY <1>5
  <1>8. ~e.nulls => \A c \in DOMAIN k : k[c] # D1!Nothing BY <1>5
  <1>9. ASSUME NEW f \in D1!Effect(call, keys), e.key = f.key, ~e.nulls, e.keyed
        PROVE  e.id = f.id
    <2>1. PICK l \in keys, j \in DOMAIN bRows : f = E(l, j) /\ D1!KeyConditions(call.schema, bSchema, l, bRows[j])
      BY <1>1
    <2>2. f.key = l /\ f.id = j BY <2>1
    <2> QED BY <2>1, <2>2, <1>4, <1>5, <1>6, <1>7, <1>8, <1>9
  <1>10. \A c \in DOMAIN e.key : e.shown[c] = e.key[c] BY <1>3, <1>5, <1>6
  <1> QED BY <1>9, <1>10

(* The invariant holds at first. *)
LEMMA D1InitL == ASSUME D1!Init PROVE D1!KeyInv
  <1>1. bSchema \in D1!Schemas BY DEF D1!Init, D1!Schemas, D1!Columns, D1!Decls
  <1>2. D1!KeyHolds(bSchema, bRows) BY DEF D1!Init, D1!KeyHolds
  <1> QED BY <1>1, <1>2 DEF D1!Init, D1!KeyInv, D1!EditTouchesShown, D1!Idle

(* Every step keeps the key of the table and edits on the rows shown. *)
LEMMA D1Steps == ASSUME D1!KeyInv, [D1!Next]_d1Vars PROVE D1!KeyInv'
  <1>i. /\ bSchema \in D1!Schemas /\ D1!KeyHolds(bSchema, bRows)
        /\ bCall.step = "loaded" => bCall.schema \in D1!Schemas /\ \A k \in D1!NamedKeys(bCall) : D1!CheckKey(bCall.schema, k)
        /\ D1!EditTouchesShown
    BY DEF D1!KeyInv
  <1>a. ASSUME bCall' = bCall, bSchema' \in D1!Schemas, D1!KeyHolds(bSchema, bRows)'
        PROVE  D1!KeyInv'
    BY <1>a, <1>i DEF D1!KeyInv, D1!EditTouchesShown, D1!NamedKeys, D1!CheckKey, D1!KeyColumns
  <1>b. ASSUME bCall'.step # "loaded", bCall'.step = "answered" => bCall'.touched = {},
               bSchema' = bSchema, D1!KeyHolds(bSchema, bRows)'
        PROVE D1!KeyInv'
    BY <1>b, <1>i DEF D1!KeyInv, D1!EditTouchesShown
  <1>c. bRows' = bRows /\ bSchema' = bSchema => D1!KeyHolds(bSchema, bRows)'
    BY <1>i DEF D1!KeyHolds
  <1>d. ASSUME NEW S, bRows' = [x \in DOMAIN bRows \ S |-> bRows[x]], bSchema' = bSchema
        PROVE  D1!KeyHolds(bSchema, bRows)'
    <2>2. DOMAIN bRows' = DOMAIN bRows \ S /\ \A x \in DOMAIN bRows' : x \in DOMAIN bRows /\ bRows'[x] = bRows[x]
      BY <1>d
    <2>3. D1!KeyHolds(bSchema, bRows') BY <2>2, <1>i DEF D1!KeyHolds
    <2> QED BY <2>3, <1>d DEF D1!KeyHolds
  <1>1. ASSUME NEW i, NEW row, D1!WorkerInsert(i, row) PROVE D1!KeyInv'
    <2>1. bCall' = bCall /\ bSchema' = bSchema BY <1>1 DEF D1!WorkerInsert
    <2>2. D1!KeyHolds(bSchema, bRows') BY <1>1 DEF D1!WorkerInsert
    <2>3. D1!KeyHolds(bSchema, bRows)' BY <2>1, <2>2 DEF D1!KeyHolds
    <2> QED BY <2>1, <2>3, <1>a, <1>i
  <1>2. ASSUME NEW i, D1!WorkerDelete(i) PROVE D1!KeyInv'
    <2>1. bCall' = bCall /\ bSchema' = bSchema /\ bRows' = [x \in DOMAIN bRows \ {i} |-> bRows[x]]
      BY <1>2 DEF D1!WorkerDelete, D1!Restrict
    <2> QED BY <2>1, <1>a, <1>d, <1>i
  <1>3. ASSUME NEW s \in D1!Schemas, D1!Migration(s) PROVE D1!KeyInv'
    <2>1. bCall' = bCall /\ bSchema' = s BY <1>3 DEF D1!Migration
    <2>2. D1!KeyHolds(bSchema, bRows)' BY <1>3, <2>1 DEF D1!Migration, D1!KeyHolds
    <2> QED BY <2>1, <2>2, <1>a
  <1>4. ASSUME NEW op, NEW table, NEW ask, D1!Connect(op, table, ask) PROVE D1!KeyInv'
    <2>1. bCall'.step = "connected" /\ bRows' = bRows /\ bSchema' = bSchema
      BY <1>4 DEF D1!Connect
    <2> QED BY <2>1, <1>b, <1>c
  <1>5. ASSUME D1!LoadTable PROVE D1!KeyInv'
    <2>1. bRows' = bRows /\ bSchema' = bSchema BY <1>5 DEF D1!LoadTable
    <2>2. CASE bCall' = [step |-> "answered", touched |-> {}, deleted |-> 0]
      BY <2>1, <2>2, <1>b, <1>c
    <2>3. CASE /\ D1!Buildable(bCall.op, bCall.ask, bSchema)
               /\ bCall' = [step |-> "loaded", op |-> bCall.op, ask |-> bCall.ask, schema |-> bSchema]
      <3>1. bCall'.step = "loaded" /\ bCall'.op = bCall.op /\ bCall'.ask = bCall.ask /\
            bCall'.schema = bSchema
        BY <2>3
      <3>2. \A k \in D1!NamedKeys(bCall) : D1!CheckKey(bSchema, k)
        BY <2>3 DEF D1!Buildable, D1!NamedKeys
      <3>3. D1!NamedKeys(bCall)' = D1!NamedKeys(bCall) BY <3>1 DEF D1!NamedKeys
      <3>4. D1!KeyHolds(bSchema, bRows)' BY <2>1, <1>c
      <3>5. \A k \in D1!NamedKeys(bCall)' : D1!CheckKey(bCall'.schema, k) BY <3>1, <3>2, <3>3
      <3> QED BY <2>1, <3>1, <3>4, <3>5, <1>i
                 DEF D1!KeyInv, D1!EditTouchesShown, D1!CheckKey, D1!KeyColumns
    <2> QED BY <1>5, <2>2, <2>3 DEF D1!LoadTable
  <1>6. ASSUME D1!CallFails PROVE D1!KeyInv' BY <1>6, <1>b, <1>c DEF D1!CallFails
  <1>7. ASSUME D1!D1Rows PROVE D1!KeyInv' BY <1>7, <1>b, <1>c DEF D1!D1Rows
  <1>8. ASSUME NEW i, D1!D1Insert(i) PROVE D1!KeyInv'
    <2>1. bCall' = [step |-> "answered", touched |-> {}, deleted |-> 0] /\ bSchema' = bSchema
      BY <1>8 DEF D1!D1Insert
    <2>2. bRows' = bRows \/ D1!KeyHolds(bSchema, bRows') BY <1>8 DEF D1!D1Insert
    <2>3. D1!KeyHolds(bSchema, bRows)' BY <2>1, <2>2, <1>i DEF D1!KeyHolds
    <2> QED BY <2>1, <2>3, <1>b
  <1>e. ASSUME bCall.step = "loaded", NEW keys, keys = {} \/ keys = D1!NamedKeys(bCall),
               bCall'.step = "answered", bCall'.touched = D1!Effect(bCall, keys), 
               bSchema' = bSchema, D1!KeyHolds(bSchema, bRows)'
        PROVE D1!KeyInv'
    <2>1. \A k \in keys : D1!CheckKey(bCall.schema, k) BY <1>e, <1>i
    <2>2. bCall.schema \in D1!Schemas BY <1>e, <1>i
    <2>3. \A e \in D1!Effect(bCall, keys) :
          /\ \A c \in DOMAIN e.key : e.shown[c] = e.key[c]
          /\ \A f \in D1!Effect(bCall, keys) : e.key = f.key /\ ~e.nulls /\ e.keyed => e.id = f.id
      BY <2>1, <2>2, <1>i, D1EffectL
    <2> QED BY <1>e, <2>3, <1>i DEF D1!KeyInv, D1!EditTouchesShown
  <1>9. ASSUME D1!D1Update PROVE D1!KeyInv'
    <2>1. bCall.step = "loaded" /\ bCall.op = "update" /\ bSchema' = bSchema /\ bCall'.step = "answered"
      BY <1>9 DEF D1!D1Update
    <2>2. D1!NamedKeys(bCall) = {bCall.ask.key} BY <2>1 DEF D1!NamedKeys
    <2>3. \/ bRows' = bRows /\ bCall'.touched = {}
          \/ D1!KeyHolds(bSchema, bRows') /\ bCall'.touched = D1!Effect(bCall, D1!NamedKeys(bCall))
      BY <1>9, <2>2 DEF D1!D1Update
    <2>4. D1!KeyHolds(bSchema, bRows)' BY <2>1, <2>3, <1>i DEF D1!KeyHolds
    <2>5. CASE bCall'.touched = {} BY <2>1, <2>4, <2>5, <1>b
    <2>6. CASE bCall'.touched = D1!Effect(bCall, D1!NamedKeys(bCall)) BY <2>1, <2>4, <2>6, <1>e
    <2> QED BY <2>3, <2>5, <2>6
  <1>10. ASSUME D1!D1DeleteRows PROVE D1!KeyInv'
    <2>1. bCall.step = "loaded" /\ bCall.op = "delete" /\ bSchema' = bSchema /\ bCall'.step = "answered"
      BY <1>10 DEF D1!D1DeleteRows
    <2>2. D1!NamedKeys(bCall) = bCall.ask.keys BY <2>1 DEF D1!NamedKeys
    <2>3. bCall'.touched = D1!Effect(bCall, D1!NamedKeys(bCall))
      BY <1>10, <2>2 DEF D1!D1DeleteRows
    <2>4. \E S : bRows' = [x \in DOMAIN bRows \ S |-> bRows[x]]
      BY <1>10 DEF D1!D1DeleteRows, D1!Restrict
    <2>5. D1!KeyHolds(bSchema, bRows)' BY <2>1, <2>4, <1>d
    <2> QED BY <2>1, <2>3, <2>5, <1>e
  <1>11. ASSUME D1!Release PROVE D1!KeyInv' BY <1>11, <1>b, <1>c DEF D1!Release, D1!Idle
  <1>12. ASSUME UNCHANGED d1Vars PROVE D1!KeyInv' BY <1>12, <1>a, <1>c, <1>i DEF d1Vars
  <1>13. ASSUME D1!Call PROVE D1!KeyInv' BY <1>13, <1>4 DEF D1!Call
  <1> QED BY <1>1, <1>2, <1>3, <1>5, <1>6, <1>7, <1>8, <1>9, <1>10, <1>11, <1>12, <1>13
             DEF D1!Next

(* The cardinality D1Editor uses is the library's. *)
LEMMA D1CardL == \A S : D1!Cardinality(S) = Cardinality(S)
  BY DEF D1!Cardinality, Cardinality

(* What is converted, shown or written stays a value of its kind. *)
LEMMA D1ValueL == /\ \A d : \A v \in D1!Values : D1!Converted(d, v) \in D1!Values /\ D1!CellValue(v) \in D1!Cells
                  /\ \A d : \A cell \in D1!Written : D1!Literal(d, cell) \in D1!Values
                  /\ D1!Null \in D1!Values
  <1>1. D1!Null \in D1!Values /\ D1!Blob \in D1!Values /\ D1!IntV("1") \in D1!Values /\ \A x \in D1!Texts : D1!TextV(x) \in D1!Values
    BY DEF D1!Values, D1!Numerals
  <1>2. ASSUME NEW v \in D1!Values
        PROVE  v = D1!Null \/ v = D1!Blob \/ v = D1!IntV("1") \/ (\E x \in D1!Texts : v = D1!TextV(x))
    BY DEF D1!Values, D1!Numerals
  <1>3. ASSUME NEW d, NEW v \in D1!Values PROVE D1!Converted(d, v) \in D1!Values
    <2>1. CASE v = D1!Null \/ v = D1!Blob
      <3>1. D1!Null.t = "null" /\ D1!Blob.t = "blob" BY DEF D1!Null, D1!Blob
      <3>2. v.t # "text" /\ v.t # "int" BY <2>1, <3>1
      <3>3. D1!Converted(d, v) = v BY <3>2 DEF D1!Converted
      <3> QED BY <3>3
    <2>2. CASE v = D1!IntV("1")
      <3>1. v.t = "int" /\ v.v = "1" /\ "1" \in D1!Texts BY <2>2 DEF D1!IntV, D1!Texts
      <3>2. D1!Converted(d, v) = v \/ D1!Converted(d, v) = D1!TextV("1")
        BY <3>1 DEF D1!Converted
      <3> QED BY <3>1, <3>2, <1>1
    <2>3. CASE \E x \in D1!Texts : v = D1!TextV(x)
      <3>1. v.t = "text" BY <2>3 DEF D1!TextV
      <3>2. D1!Converted(d, v) = v \/ (v.v \in D1!Numerals /\ D1!Converted(d, v) = D1!IntV(v.v))
        BY <3>1 DEF D1!Converted
      <3> QED BY <3>2, <1>1 DEF D1!Numerals
    <2> QED BY <2>1, <2>2, <2>3, <1>2
  <1>4. ASSUME NEW v \in D1!Values PROVE D1!CellValue(v) \in D1!Cells
    <2>1. CASE v = D1!Null BY <2>1 DEF D1!CellValue, D1!Cells
    <2>2. CASE v # D1!Null
      <3>1. v.v \in D1!Texts BY <2>2, <1>2 DEF D1!Blob, D1!IntV, D1!TextV, D1!Texts
      <3> QED BY <3>1, <2>2 DEF D1!CellValue, D1!Cells
    <2> QED BY <2>1, <2>2
  <1>5. ASSUME NEW d, NEW cell \in D1!Written PROVE D1!Literal(d, cell) \in D1!Values
    <2>1. CASE cell = D1!Nothing
      <3>1. cell \notin D1!Numerals BY <2>1 DEF D1!Nothing, D1!Numerals
      <3>2. D1!Literal(d, cell) = D1!Null BY <2>1, <3>1 DEF D1!Literal
      <3> QED BY <3>2, <1>1
    <2>2. CASE cell = "1" /\ cell # D1!Nothing
      <3>1. D1!Literal(d, cell) = D1!IntV("1") \/ D1!Literal(d, cell) = D1!TextV("1")
        BY <2>2 DEF D1!Literal
      <3>2. "1" \in D1!Texts BY DEF D1!Texts
      <3> QED BY <3>1, <3>2, <1>1
    <2> QED BY <2>1, <2>2 DEF D1!Written
  <1> QED BY <1>1, <1>3, <1>4, <1>5

(* A stored row holds values, a shown one cells. *)
LEMMA D1RowL == /\ \A s : \A row \in [D1!Columns -> D1!Values] : D1!StoredRow(s, row) \in [D1!Columns -> D1!Values]
                /\ \A row \in [D1!Columns -> D1!Values] : D1!Shown(row) \in [D1!Columns -> D1!Cells]
  BY D1ValueL DEF D1!StoredRow, D1!Shown

(* The first state of the table editor has its types. *)
LEMMA D1TypeInit == ASSUME D1!Bounds, D1!Init PROVE D1!TypeOK /\ D1!AskInv
  <1>1. bSchema \in D1!Schemas BY DEF D1!Init, D1!Schemas, D1!Columns, D1!Decls
  <1>2. DOMAIN bRows = {} /\ bPage.total = 0 /\ bPage.rows = {} /\ bCall.step = "idle"
    BY DEF D1!Init, D1!Idle
  <1>3. bLeft \in [changes : Nat, calls : Nat] BY DEF D1!Init, D1!Bounds
  <1>4. \A k \in DOMAIN bLeft : bLeft[k] >= 0 BY <1>3
  <1>5. 0 \in 0..D1MaxRows BY DEF D1!Bounds
  <1> QED BY <1>1, <1>2, <1>3, <1>4, <1>5 DEF D1!TypeOK, D1!AskInv

(* A step of the table editor keeps its types. *)
LEMMA D1TypeStep ==
  ASSUME D1!Bounds, D1!TypeOK, D1!AskInv, [D1!Next]_d1Vars
  PROVE  D1!TypeOK' /\ D1!AskInv'
  <1> DEFINE Row == [D1!Columns -> D1!Values]
             S(schema) == schema \in D1!Schemas
             R(rows) == DOMAIN rows \subseteq 1..D1MaxRows /\ \A i \in DOMAIN rows : rows[i] \in Row
             P(page) == page.total \in 0..D1MaxRows /\ page.rows \subseteq [D1!Columns -> D1!Cells]
             W(call) == call.step \in {"connected", "loaded"} /\ call.op \in {"insert", "update"} =>
                            \A c \in DOMAIN call.ask.values : call.ask.values[c] \in D1!Written
             C(call) == call.step \in {"idle", "connected", "loaded", "answered"} /\ W(call)
             L(left) == left \in [changes : Nat, calls : Nat]
  <1>t. S(bSchema) /\ R(bRows) /\ P(bPage) /\ C(bCall) /\ L(bLeft) BY DEF D1!TypeOK, D1!AskInv
  <1>q. ASSUME S(bSchema'), R(bRows'), P(bPage'), C(bCall'), L(bLeft')
        PROVE  D1!TypeOK' /\ D1!AskInv'
    <2>1. \A k \in DOMAIN bLeft' : bLeft'[k] >= 0 BY <1>q
    <2> QED BY <1>q, <2>1 DEF D1!TypeOK, D1!AskInv
  <1>l. ASSUME NEW what \in {"changes", "calls"}, D1!Spent(what)
        PROVE  L(bLeft') BY <1>l, <1>t DEF D1!Spent
  <1>a. ASSUME bCall'.step \in {"idle", "answered"} PROVE C(bCall') BY <1>a
  <1> HIDE DEF S, R, P, C, L
  <1>f. \A rows, keep : R(rows) => R(D1!Restrict(rows, DOMAIN rows \ keep))
    BY DEF R, D1!Restrict
  <1>p. ASSUME NEW i \in 1..D1MaxRows, NEW row \in Row,
               bRows' = [j \in DOMAIN bRows \cup {i} |-> IF j = i THEN row ELSE bRows[j]]
        PROVE  R(bRows')
    BY <1>p, <1>t DEF R
  <1>1. CASE \E i \in 1..D1MaxRows, row \in D1!Inserted : D1!WorkerInsert(i, row)
    <2>1. PICK i \in 1..D1MaxRows, row \in D1!Inserted : D1!WorkerInsert(i, row) BY <1>1
    <2>2. UNCHANGED <<bSchema, bPage, bCall>> /\ D1!Spent("changes") BY <2>1 DEF D1!WorkerInsert
    <2>3. bRows' = [j \in DOMAIN bRows \cup {i} |-> IF j = i THEN D1!StoredRow(bSchema, row) ELSE bRows[j]]
      BY <2>1 DEF D1!WorkerInsert
    <2>4. row \in Row BY DEF D1!Inserted
    <2>5. R(bRows') BY <2>3, <2>4, <1>p, D1RowL
    <2>6. L(bLeft') BY <2>2, <1>l
    <2> QED BY <2>2, <2>5, <2>6, <1>t, <1>q
  <1>2. CASE \E i \in 1..D1MaxRows : D1!WorkerDelete(i)
    <2>1. UNCHANGED <<bSchema, bPage, bCall>> /\ D1!Spent("changes") BY <1>2 DEF D1!WorkerDelete
    <2>2. R(bRows') BY <1>2, <1>t, <1>f DEF D1!WorkerDelete
    <2>3. L(bLeft') BY <2>1, <1>l
    <2> QED BY <2>1, <2>2, <2>3, <1>t, <1>q
  <1>3. CASE \E s \in D1!Schemas : D1!Migration(s)
    <2>1. PICK s \in D1!Schemas : D1!Migration(s) BY <1>3
    <2>2. UNCHANGED <<bPage, bCall>> /\ D1!Spent("changes") /\ bSchema' = s
      BY <2>1 DEF D1!Migration
    <2>3. bRows' = [i \in DOMAIN bRows |-> D1!StoredRow(s, bRows[i])] BY <2>1 DEF D1!Migration
    <2>4. R(bRows') BY <2>3, <1>t, D1RowL DEF R
    <2>5. L(bLeft') /\ S(bSchema') BY <2>2, <1>l DEF S
    <2> QED BY <2>2, <2>4, <2>5, <1>t, <1>q
  <1>c. ASSUME NEW op, NEW table, NEW ask, D1!Connect(op, table, ask),
               op \in {"insert", "update"} => \A c \in DOMAIN ask.values : ask.values[c] \in D1!Written
        PROVE  D1!TypeOK' /\ D1!AskInv'
    <2>1. UNCHANGED <<bSchema, bRows, bPage>> /\ D1!Spent("calls") /\
          bCall' = [step |-> "connected", op |-> op, ask |-> ask]
      BY <1>c DEF D1!Connect
    <2>2. L(bLeft') BY <2>1, <1>l
    <2>3. bCall'.step = "connected" /\ bCall'.op = op /\ bCall'.ask = ask BY <2>1
    <2>4. C(bCall') BY <2>3, <1>c DEF C
    <2> QED BY <2>1, <2>2, <2>4, <1>t, <1>q
  <1>4. CASE D1!Call
    <2>1. ASSUME NEW table \in D1!Tables, NEW f \in D1!Filters,
                 D1!Connect("rows", table, [filter |-> f])
          PROVE  D1!TypeOK' /\ D1!AskInv'
      BY <2>1, <1>c
    <2>2. ASSUME NEW table \in D1!Tables, NEW cell \in D1!Written,
                 D1!Connect("insert", table, [values |-> [c \in D1!Columns |-> cell]])
          PROVE  D1!TypeOK' /\ D1!AskInv'
      <3> DEFINE ask == [values |-> [c \in D1!Columns |-> cell]]
      <3>1. \A c \in DOMAIN ask.values : ask.values[c] \in D1!Written OBVIOUS
      <3> HIDE DEF ask
      <3>2. D1!Connect("insert", table, ask) BY <2>2 DEF ask
      <3> QED BY <3>1, <3>2, <1>c
    <2>3. ASSUME NEW table \in D1!Tables, NEW k \in D1!Keys, NEW cell \in D1!Written,
                 NEW c \in D1!Columns, 
                 D1!Connect("update", table, [key |-> k, values |-> [x \in {c} |-> cell]])
          PROVE  D1!TypeOK' /\ D1!AskInv'
      <3> DEFINE ask == [key |-> k, values |-> [x \in {c} |-> cell]]
      <3>1. \A x \in DOMAIN ask.values : ask.values[x] \in D1!Written OBVIOUS
      <3> HIDE DEF ask
      <3>2. D1!Connect("update", table, ask) BY <2>3 DEF ask
      <3> QED BY <3>1, <3>2, <1>c
    <2>4. ASSUME NEW table \in D1!Tables, NEW ks, D1!Connect("delete", table, [keys |-> ks])
          PROVE  D1!TypeOK' /\ D1!AskInv'
      BY <2>4, <1>c
    <2> QED BY <1>4, <2>1, <2>2, <2>3, <2>4 DEF D1!Call
  <1>5. CASE D1!LoadTable
    <2>1. UNCHANGED <<bSchema, bRows, bPage, bLeft>> /\ bCall.step = "connected"
      BY <1>5 DEF D1!LoadTable
    <2>2. CASE D1!Buildable(bCall.op, bCall.ask, bSchema)
      <3>1. bCall' = [step |-> "loaded", op |-> bCall.op, ask |-> bCall.ask, schema |-> bSchema]
        BY <1>5, <2>2 DEF D1!LoadTable
      <3>2. bCall'.step = "loaded" /\ bCall'.op = bCall.op /\ bCall'.ask = bCall.ask BY <3>1
      <3>3. C(bCall') BY <3>2, <2>1, <1>t DEF C
      <3> QED BY <2>1, <3>3, <1>t, <1>q
    <2>3. CASE ~D1!Buildable(bCall.op, bCall.ask, bSchema)
      <3>1. bCall'.step = "answered" BY <1>5, <2>3 DEF D1!LoadTable
      <3> QED BY <2>1, <3>1, <1>a, <1>t, <1>q
    <2> QED BY <2>2, <2>3
  <1>6. CASE D1!CallFails
    <2>1. UNCHANGED <<bSchema, bRows, bPage, bLeft>> /\ bCall'.step = "answered"
      BY <1>6 DEF D1!CallFails
    <2> QED BY <2>1, <1>a, <1>t, <1>q
  <1>7. CASE D1!D1Rows
    <2>1. UNCHANGED <<bSchema, bRows, bLeft>> /\ bCall'.step = "answered" BY <1>7 DEF D1!D1Rows
    <2> DEFINE found == D1!Found(bCall)
               page == {i \in found : Cardinality({j \in found : j < i}) < D1PageSize}
    <2>2. bPage' = [rows |-> {D1!Shown(bRows[i]) : i \in page}, total |-> Cardinality(found)]
      BY <1>7, D1CardL DEF D1!D1Rows
    <2>3. found \subseteq DOMAIN bRows /\ page \subseteq found BY DEF D1!Found
    <2> HIDE DEF found, page
    <2>4. found \subseteq 1..D1MaxRows BY <2>3, <1>t DEF R
    <2>5. IsFiniteSet(1..D1MaxRows) /\ Cardinality(1..D1MaxRows) = D1MaxRows
      BY FS_Interval DEF D1!Bounds
    <2>6. IsFiniteSet(found) /\ Cardinality(found) <= Cardinality(1..D1MaxRows)
      BY <2>4, <2>5, FS_Subset
    <2>7. Cardinality(found) \in Nat BY <2>6, FS_CardinalityType
    <2>8. bPage'.total = Cardinality(found) /\ bPage'.rows = {D1!Shown(bRows[i]) : i \in page}
      BY <2>2
    <2>9. Cardinality(found) \in 0..D1MaxRows BY <2>5, <2>6, <2>7 DEF D1!Bounds
    <2>10. \A i \in page : D1!Shown(bRows[i]) \in [D1!Columns -> D1!Cells]
      BY <2>3, <1>t, D1RowL DEF R
    <2>11. P(bPage') BY <2>8, <2>9, <2>10 DEF P
    <2> QED BY <2>1, <2>11, <1>a, <1>t, <1>q
  <1>v. ASSUME bCall.step = "loaded", bCall.op \in {"insert", "update"}
        PROVE  \A c \in DOMAIN bCall.ask.values : D1!Literal(bCall.schema.decl[c], bCall.ask.values[c]) \in D1!Values
    BY <1>v, <1>t, D1ValueL DEF C
  <1>8. CASE \E i \in 1..D1MaxRows : D1!D1Insert(i)
    <2>1. PICK i \in 1..D1MaxRows : D1!D1Insert(i) BY <1>8
    <2>2. UNCHANGED <<bSchema, bPage, bLeft>> /\ bCall'.step = "answered" /\ bCall.step = "loaded" /\
          bCall.op = "insert"
      BY <2>1 DEF D1!D1Insert
    <2> DEFINE values == bCall.ask.values
               given == [c \in D1!Columns |-> IF c \in DOMAIN values THEN D1!Literal(bCall.schema.decl[c], values[c]) ELSE D1!Null]
               row == D1!StoredRow(bSchema, given)
    <2>3. given \in Row BY <2>2, <1>v, D1ValueL
    <2>4. bRows' = bRows \/ bRows' = [j \in DOMAIN bRows \cup {i} |-> IF j = i THEN row ELSE bRows[j]]
      BY <2>1 DEF D1!D1Insert
    <2> HIDE DEF given
    <2>5. row \in Row BY <2>3, D1RowL
    <2> HIDE DEF row
    <2>6. R(bRows') BY <2>4, <2>5, <1>p, <1>t
    <2> QED BY <2>2, <2>6, <1>a, <1>t, <1>q
  <1>9. CASE D1!D1Update
    <2>1. UNCHANGED <<bSchema, bPage, bLeft>> /\ bCall'.step = "answered" /\ bCall.step = "loaded" /\
          bCall.op = "update"
      BY <1>9 DEF D1!D1Update
    <2> DEFINE ask == bCall.ask
               given(row) == [c \in D1!Columns |-> IF c \in DOMAIN ask.values THEN D1!Literal(bCall.schema.decl[c], ask.values[c]) ELSE row[c]]
               set(row) == D1!StoredRow(bSchema, given(row))
               taken == D1!Taken(bCall, ask.key)
    <2>2. bRows' = bRows \/ bRows' = [i \in DOMAIN bRows |-> IF i \in taken THEN set(bRows[i]) ELSE bRows[i]]
      BY <1>9 DEF D1!D1Update
    <2>3. \A row \in Row : given(row) \in Row BY <2>1, <1>v
    <2> HIDE DEF given, taken
    <2>4. \A row \in Row : set(row) \in Row BY <2>3, D1RowL
    <2> HIDE DEF set
    <2>5. R(bRows') BY <2>2, <2>4, <1>t DEF R
    <2> QED BY <2>1, <2>5, <1>a, <1>t, <1>q
  <1>10. CASE D1!D1DeleteRows
    <2>1. UNCHANGED <<bSchema, bPage, bLeft>> /\ bCall'.step = "answered"
      BY <1>10 DEF D1!D1DeleteRows
    <2>2. R(bRows') BY <1>10, <1>t, <1>f DEF D1!D1DeleteRows
    <2> QED BY <2>1, <2>2, <1>a, <1>t, <1>q
  <1>11. CASE D1!Release
    <2>1. UNCHANGED <<bSchema, bRows, bPage, bLeft>> /\ bCall'.step = "idle"
      BY <1>11 DEF D1!Release, D1!Idle
    <2> QED BY <2>1, <1>a, <1>t, <1>q
  <1>12. CASE UNCHANGED d1Vars BY <1>12, <1>t, <1>q DEF d1Vars
  <1> QED BY <1>1, <1>2, <1>3, <1>4, <1>5, <1>6, <1>7, <1>8, <1>9, <1>10, <1>11, <1>12
             DEF D1!Next

(* A step of the suite is a step of the editor or leaves it alone. *)
LEMMA D1Next == [Next]_allVars => [D1!Next]_d1Vars
  BY DEF Next, allVars, VoidStep, ScanStep, GitStep, PrsStep, WebStep, ConfStep, MapsStep,
         ImpStep, BootStep, R2Step, D1Step, S3Step

(* The inductive invariant of the table editor. *)
LEMMA D1Inductive == Spec => [](D1!KeyInv)
  <1> DEFINE Inv == D1!KeyInv
  <1>1. Init => Inv BY D1InitL DEF Init
  <1>2. Inv /\ [Next]_allVars => Inv' BY D1Next, D1Steps
  <1> QED BY <1>1, <1>2, PTL DEF Spec

(* What a member edits in the panel is what changes, for every set of       *)
(* paths, moves and rows: the committed tree is the one that was asked for  *)
(* (web_commit.rs build_commit), and an edit of a table reaches only rows   *)
(* that show the cells it was named by (d1.rs key_conditions, check_key).   *)
THEOREM PanelEditsAreApplied == Spec => []PanelEditsApply
  <1>1. Web!PassInv => Web!CommitsWhatWasAsked BY DEF Web!PassInv
  <1>2. D1!KeyInv => D1!EditTouchesShown BY DEF D1!KeyInv
  <1>3. Web!PassInv /\ D1!KeyInv => PanelEditsApply BY <1>1, <1>2 DEF PanelEditsApply
  <1> QED BY <1>3, WebInductive, D1Inductive, PTL

(* The table editor keeps its types. *)
LEMMA D1Typed == Spec => []D1!TypeOK
  <1> DEFINE Inv == D1!TypeOK /\ D1!AskInv
  <1>1. Init => Inv BY D1Bounds, D1TypeInit DEF Init
  <1>2. Inv /\ [Next]_allVars => Inv' BY D1Bounds, D1Next, D1TypeStep DEF D1!vars, d1Vars
  <1> QED BY <1>1, <1>2, PTL DEF Spec


-----------------------------------------------------------------------------
(* Settings and secrets of a deploy (DeployConfig). *)
(* A deploy at rest is well formed and holds no value. *)
LEMMA ConfIdleL == Conf!Idle \in Conf!Deploys /\ Conf!Idle.pc = "idle" /\ Conf!Idle.token = 0 /\ \A n \in Conf!Names : Conf!Idle.got[n] = 0
  <1>1. Conf!NoTree \in Conf!Trees BY DEF Conf!NoTree, Conf!Trees, Conf!Outputs, Conf!Required
  <1>2. Conf!NoValues \in [Conf!Names -> Nat] /\ \A n \in Conf!Names : Conf!NoValues[n] = 0
    BY DEF Conf!NoValues
  <1>3. {} \in Conf!Required /\ "app" \in Conf!Fleets BY DEF Conf!Required, Conf!Fleets
  <1> QED BY <1>1, <1>2, <1>3 DEF Conf!Idle, Conf!Deploys

(* A deploy that moves to another step changes nothing else. *)
LEMMA ConfGoL ==
  ASSUME dDep \in Conf!Deploys,
         NEW p \in {"idle", "build", "root", "release", "back"} \cup Conf!InRoot, Conf!Go(p)
  PROVE /\ dDep' \in Conf!Deploys /\ dDep'.pc = p /\ dDep'.fleet = dDep.fleet
        /\ dDep'.tree = dDep.tree /\ dDep'.void = dDep.void
        /\ dDep'.req = dDep.req /\ dDep'.own = dDep.own /\ dDep'.got = dDep.got
        /\ dDep'.token = dDep.token
  BY DEF Conf!Go, Conf!Deploys

(* What a config requires are names. *)
LEMMA ConfReqL == \A r \in Conf!Required : r \subseteq Conf!Names
  BY DEF Conf!Required, Conf!Names

(* No value was minted as no value. *)
LEMMA ConfZeroL == ASSUME Conf!SecretInv PROVE Conf!MintedFor(0) = {}
  <1>1. \A p \in dMinted : p.val # 0 BY DEF Conf!SecretInv
  <1> QED BY <1>1 DEF Conf!MintedFor, Conf!Holders

(* The invariant holds at first. *)
LEMMA ConfInitL == ASSUME Conf!Init PROVE Conf!StateOK /\ Conf!VetInv /\ Conf!SecretInv
  <1>1. Conf!NoRow \in Conf!Rows /\ Conf!NoRow.val = 0 /\ Conf!NoRow.src = "none"
    BY DEF Conf!NoRow, Conf!Rows, Conf!Sources
  <1>2. \A f \in Conf!Fleets, n \in Conf!Names : dRows[f][n] = Conf!NoRow BY DEF Conf!Init
  <1>3. /\ Conf!Shipped \in Conf!Ships /\ ~Conf!Shipped.done /\ Conf!Shipped.vars = Conf!NoValues
        /\ Conf!Shipped.proxy = Conf!NoValues
    <2>1. Conf!NoValues \in [Conf!Names -> Nat] /\ {} \in Conf!Required
      BY DEF Conf!NoValues, Conf!Required
    <2> QED BY <2>1 DEF Conf!Shipped, Conf!Ships
  <1>4. \A f \in Conf!Fleets : dShip[f] = Conf!Shipped BY DEF Conf!Init
  <1>5. \A n \in Conf!Names : Conf!NoValues[n] = 0 BY DEF Conf!NoValues
  <1>6. "TOKEN" \in Conf!Names BY DEF Conf!Names
  <1>7. \A v : Conf!MintedFor(v) = {} BY DEF Conf!Init, Conf!MintedFor, Conf!Holders
  <1>8. Conf!StateOK
    <2>1. dRows \in [Conf!Fleets -> [Conf!Names -> Conf!Rows]] BY <1>1 DEF Conf!Init
    <2>2. dShip \in [Conf!Fleets -> Conf!Ships] BY <1>3 DEF Conf!Init
    <2> QED BY <2>1, <2>2, ConfIdleL DEF Conf!Init, Conf!StateOK
  <1>9. Conf!VetInv
    <2>1. dDep.pc = "idle" BY ConfIdleL DEF Conf!Init
    <2>2. Conf!ShipsVetted BY <1>3, <1>4 DEF Conf!ShipsVetted
    <2> QED BY <2>1, <2>2, <1>1, <1>2 DEF Conf!VetInv, Conf!InRoot, Conf!Checked, Conf!Tokening
  <1>10. Conf!SecretInv
    <2>1. dNext = 0 /\ dMinted = {} /\ dDep = Conf!Idle BY DEF Conf!Init
    <2>2. \A f \in Conf!Fleets, n \in Conf!Names : dRows[f][n].val = 0 /\ dRows[f][n].src = "none"
      BY <1>1, <1>2
    <2>3. \A f \in Conf!Fleets, n \in Conf!Names : dShip[f].vars[n] = 0 /\ dShip[f].proxy[n] = 0
      BY <1>3, <1>4, <1>5
    <2> QED BY <2>1, <2>2, <2>3, <1>6, <1>7, ConfIdleL DEF Conf!SecretInv, Conf!Tokening
  <1> QED BY <1>8, <1>9, <1>10

(* Every step keeps what ships vetted and secrets with their fleet. *)
LEMMA ConfSteps ==
  ASSUME ConfEdited \subseteq Conf!Names, Conf!StateOK, Conf!VetInv, Conf!SecretInv,
         [Conf!Next]_confVars
  PROVE  Conf!StateOK' /\ Conf!VetInv' /\ Conf!SecretInv'
  <1> DEFINE Pcs == {"idle", "build", "root", "release", "back"} \cup Conf!InRoot
             Tokened == Conf!Checked \ Conf!Tokening
             M(v) == Conf!Holders(dMinted', v)
             Has(d) == {n \in Conf!Names : d.got[n] # 0}
             Met(d) == d.req \subseteq Has(d) \cup (IF d.void THEN {"TOKEN"} ELSE {})
             Merge(d) == ((IF d.void THEN Has(d) \ {"KEY"} ELSE Has(d)) \cup d.own) \cap Conf!WorkerReserved = {}
             VetD(d) == /\ d.pc \in Conf!InRoot => ~d.tree.link
                        /\ d.pc \in Conf!Checked => Met(d) /\ Merge(d)
                        /\ d.void /\ d.pc \in Tokened => d.token # 0
             SecD(d) == /\ \A n \in Conf!Names : d.got[n] <= dNext' /\ M(d.got[n]) \subseteq {d.fleet}
                        /\ (d.pc \in Conf!Tokening => d.void) /\ (d.pc = "loadown" => d.fleet = "env")
                        /\ d.token <= dNext'
                        /\ d.token # 0 => d.void /\ d.pc \in Conf!Checked /\ M(d.token) = {d.fleet}
             RowR(r, f) == /\ r.val <= dNext' /\ M(r.val) \subseteq {f}
                           /\ r.src = "user" => M(r.val) = {}
                           /\ r.src = "token" => M(r.val) = {f} /\ r.val # 0
             ShipR(s, f) == /\ \A n \in Conf!Names : s.vars[n] <= dNext' /\ M(s.vars[n]) \subseteq {f}
                            /\ s.vars["TOKEN"] = s.proxy["TOKEN"]
                            /\ s.vars["TOKEN"] # 0 => M(s.vars["TOKEN"]) = {f}
                            /\ s.done => ~s.link /\ \A n \in s.req : s.vars[n] # 0 \/ s.proxy[n] # 0
             Given == \/ dMinted' = dMinted /\ dNext' \in {dNext, dNext + 1}
                      \/ dNext' = dNext + 1 /\ \E f \in Conf!Fleets : dMinted' = dMinted \cup {[val |-> dNext + 1, fleet |-> f]}
             MintT == dNext' \in Nat /\ \A p \in dMinted' : p.val \in 1 .. dNext'
             RowT == dRows' \in [Conf!Fleets -> [Conf!Names -> Conf!Rows]] /\ \A f \in Conf!Fleets, n \in Conf!Names : RowR(dRows'[f][n], f)
             ShipT == dShip' \in [Conf!Fleets -> Conf!Ships] /\ \A f \in Conf!Fleets : ShipR(dShip'[f], f)
             DepT == dDep' \in Conf!Deploys /\ VetD(dDep') /\ SecD(dDep')
             Goal == Conf!StateOK' /\ Conf!VetInv' /\ Conf!SecretInv'
  <1>t. /\ dRows \in [Conf!Fleets -> [Conf!Names -> Conf!Rows]] /\ dNext \in Nat
        /\ dDep \in Conf!Deploys /\ dShip \in [Conf!Fleets -> Conf!Ships]
    BY DEF Conf!StateOK
  <1>v. VetD(dDep)
    BY DEF Conf!VetInv, Conf!RequiredMet, Conf!Mergeable, Conf!Have, Conf!AppNames,
           Conf!Provisioned
  <1>q. ASSUME MintT, RowT, ShipT, DepT PROVE Goal
    <2>1. Conf!StateOK' BY <1>q DEF Conf!StateOK
    <2>2. Conf!ShipsVetted' BY <1>q DEF Conf!ShipsVetted
    <2>3. Conf!VetInv'
      BY <1>q, <2>2
         DEF Conf!VetInv, Conf!RequiredMet, Conf!Mergeable, Conf!Have, Conf!AppNames,
             Conf!Provisioned
    <2>4. Conf!SecretInv' BY <1>q DEF Conf!SecretInv, Conf!MintedFor
    <2> QED BY <2>1, <2>3, <2>4
  <1>n. /\ \A d \in Conf!Deploys : d.token \in Nat /\ \A n \in Conf!Names : d.got[n] \in Nat
        /\ \A r \in Conf!Rows : r.val \in Nat
        /\ \A s \in Conf!Ships : \A n \in Conf!Names : s.vars[n] \in Nat
        /\ "TOKEN" \in Conf!Names
    BY DEF Conf!Deploys, Conf!Rows, Conf!Ships, Conf!Names
  <1>o. ASSUME Given PROVE /\ MintT /\ \A v \in Nat : v <= dNext => M(v) = Conf!MintedFor(v)
    <2>1. \A p \in dMinted : p.val \in 1 .. dNext BY DEF Conf!SecretInv
    <2>2. MintT BY <2>1, <1>o, <1>t
    <2>3. ASSUME NEW v \in Nat, v <= dNext PROVE M(v) = Conf!MintedFor(v)
      <3>1. \A p \in dMinted' : p.val = v => p \in dMinted BY <2>3, <1>o, <1>t
      <3>2. \A p \in dMinted : p \in dMinted' BY <1>o
      <3> QED BY <3>1, <3>2 DEF Conf!MintedFor, Conf!Holders
    <2> QED BY <2>2, <2>3
  <1>up. ASSUME Given PROVE dNext' \in Nat /\ dNext <= dNext'  BY <1>up, <1>t
  <1>a. ASSUME Given PROVE SecD(dDep)
    <2>1. \A n \in Conf!Names : dDep.got[n] \in Nat /\ dDep.got[n] <= dNext /\ Conf!MintedFor(dDep.got[n]) \subseteq {dDep.fleet}
      BY <1>t, <1>n DEF Conf!SecretInv
    <2>2. /\ dDep.token \in Nat /\ dDep.token <= dNext /\ (dDep.pc \in Conf!Tokening => dDep.void)
          /\ (dDep.pc = "loadown" => dDep.fleet = "env")
          /\ dDep.token # 0 => dDep.void /\ dDep.pc \in Conf!Checked /\ Conf!MintedFor(dDep.token) = {dDep.fleet}
      BY <1>t, <1>n DEF Conf!SecretInv
    <2>3. dNext <= dNext' /\ dNext' \in Nat BY <1>a, <1>up
    <2>4. \A v \in Nat : v <= dNext => M(v) = Conf!MintedFor(v) BY <1>a, <1>o
    <2>5. \A n \in Conf!Names : dDep.got[n] <= dNext' /\ M(dDep.got[n]) \subseteq {dDep.fleet}
      <3> TAKE n \in Conf!Names
      <3>1. M(dDep.got[n]) = Conf!MintedFor(dDep.got[n]) BY <2>1, <2>4
      <3> DEFINE g == dDep.got[n]
      <3>2. g \in Nat /\ g <= dNext BY <2>1
      <3> HIDE DEF g
      <3>3. g <= dNext' BY <2>3, <3>2, <1>t
      <3> QED BY <2>1, <3>1, <3>3 DEF g
    <2>6. dDep.token <= dNext' BY <2>2, <2>3, <1>t
    <2>7. M(dDep.token) = Conf!MintedFor(dDep.token) BY <2>2, <2>4
    <2> QED BY <2>2, <2>5, <2>6, <2>7
  <1>b. ASSUME Given, NEW f \in Conf!Fleets, NEW n \in Conf!Names PROVE RowR(dRows[f][n], f)
    <2> DEFINE r == dRows[f][n]
    <2>1. r \in Conf!Rows BY <1>t
    <2>2. /\ r.val \in Nat /\ r.val <= dNext /\ Conf!MintedFor(r.val) \subseteq {f}
          /\ (r.src = "token" => r.val # 0)
          /\ (r.src = "user" => Conf!MintedFor(r.val) = {})
          /\ (r.src = "token" => Conf!MintedFor(r.val) = {f})
      BY <2>1, <1>n DEF Conf!SecretInv, Conf!VetInv
    <2>3. dNext <= dNext' /\ dNext' \in Nat BY <1>b, <1>up
    <2>4. M(r.val) = Conf!MintedFor(r.val) BY <2>2, <1>b, <1>o
    <2> HIDE DEF r
    <2>5. r.val <= dNext' BY <2>2, <2>3, <1>t
    <2> QED BY <2>2, <2>4, <2>5 DEF r
  <1>c. ASSUME Given, NEW f \in Conf!Fleets PROVE ShipR(dShip[f], f)
    <2> DEFINE s == dShip[f]
    <2>1. s \in Conf!Ships BY <1>t
    <2>2. \A n \in Conf!Names : s.vars[n] \in Nat /\ s.vars[n] <= dNext /\ Conf!MintedFor(s.vars[n]) \subseteq {f}
      BY <2>1, <1>n DEF Conf!SecretInv
    <2>3. s.vars["TOKEN"] = s.proxy["TOKEN"] /\
          (s.vars["TOKEN"] # 0 => Conf!MintedFor(s.vars["TOKEN"]) = {f})
      BY DEF Conf!SecretInv
    <2>4. s.done => ~s.link /\ \A n \in s.req : s.vars[n] # 0 \/ s.proxy[n] # 0
      BY DEF Conf!VetInv, Conf!ShipsVetted
    <2>5. dNext <= dNext' /\ dNext' \in Nat BY <1>c, <1>up
    <2>6. \A n \in Conf!Names : M(s.vars[n]) = Conf!MintedFor(s.vars[n]) BY <2>2, <1>c, <1>o
    <2> HIDE DEF s
    <2>7. \A n \in Conf!Names : s.vars[n] <= dNext' BY <2>2, <2>5, <1>t
    <2> QED BY <2>2, <2>3, <2>4, <2>6, <2>7, <1>n DEF s
  <1>z. ASSUME Given PROVE M(0) = {}
    <2>1. Conf!MintedFor(0) = {} BY ConfZeroL
    <2> QED BY <2>1, <1>z, <1>o, <1>t
  <1> HIDE DEF M, RowR, ShipR, SecD, VetD, Given
  <1>d. ASSUME Given, dShip' = dShip PROVE ShipT BY <1>d, <1>c, <1>t
  <1>e. ASSUME Given, dRows' = dRows PROVE RowT BY <1>e, <1>b, <1>t
  <1>f. ASSUME Given, dDep' = dDep PROVE DepT BY <1>f, <1>a, <1>v, <1>t
  <1>g. ASSUME Given, Conf!Ends PROVE DepT
    <2>1. dDep' = Conf!Idle BY <1>g DEF Conf!Ends
    <2>2. dNext' \in Nat BY <1>g, <1>up
    <2>3. Conf!Idle \in Conf!Deploys /\ Conf!Idle.pc \notin Conf!InRoot /\
          Conf!Idle.pc \notin Conf!Checked /\ Conf!Idle.pc \notin Conf!Tokening /\
          Conf!Idle.pc # "loadown"
      BY ConfIdleL DEF Conf!InRoot, Conf!Checked, Conf!Tokening
    <2>4. VetD(Conf!Idle) BY <2>3 DEF VetD
    <2>5. M(0) = {} BY <1>g, <1>z
    <2>6. SecD(Conf!Idle) BY <2>2, <2>3, <2>5, ConfIdleL DEF SecD
    <2> QED BY <2>1, <2>3, <2>4, <2>6
  <1> HIDE DEF Met, Merge, MintT, RowT, ShipT, Goal
  <1>h. ASSUME Given, NEW p \in Pcs, Conf!Go(p), p \in Conf!InRoot => dDep.pc \in Conf!InRoot,
               p \in Conf!Checked => dDep.pc \in Conf!Checked \/ (Conf!RequiredMet /\ Conf!Mergeable),
               dDep.pc \in Conf!Checked => p \in Conf!Checked,
               p \in Conf!Tokening => dDep.void, p # "loadown",
               dDep.void /\ p \in Tokened => dDep.pc \in Tokened
        PROVE DepT
    <2>1. /\ dDep' \in Conf!Deploys /\ dDep'.pc = p /\ dDep'.fleet = dDep.fleet
          /\ dDep'.tree = dDep.tree /\ dDep'.void = dDep.void
          /\ dDep'.req = dDep.req /\ dDep'.own = dDep.own /\ dDep'.got = dDep.got
          /\ dDep'.token = dDep.token
      BY <1>h, <1>t, ConfGoL
    <2>2. SecD(dDep') BY <2>1, <1>h, <1>a DEF SecD
    <2>3. (Conf!RequiredMet => Met(dDep)) /\ (Conf!Mergeable => Merge(dDep))
      BY DEF Met, Merge, Conf!RequiredMet, Conf!Mergeable, Conf!Have, Conf!AppNames,
             Conf!Provisioned
    <2>4. Met(dDep') = Met(dDep) /\ Merge(dDep') = Merge(dDep) BY <2>1 DEF Met, Merge
    <2>5. VetD(dDep') BY <2>1, <2>3, <2>4, <1>h, <1>v DEF VetD
    <2> QED BY <2>1, <2>2, <2>5
  <1>y. ASSUME UNCHANGED <<dNext, dMinted>> PROVE Given BY <1>y DEF Given
  <1>i. ASSUME DepT, UNCHANGED <<dRows, dNext, dMinted, dShip>> PROVE Goal
    <2>1. Given BY <1>i, <1>y
    <2> QED BY <1>i, <2>1, <1>d, <1>e, <1>o, <1>q
  <1>r. ASSUME NEW f \in Conf!Fleets, NEW n \in Conf!Names, NEW r \in Conf!Rows, Given,
               RowR(r, f), 
               dRows' = [dRows EXCEPT ![f] = [@ EXCEPT ![n] = r]]
        PROVE RowT
    <2>1. dRows' \in [Conf!Fleets -> [Conf!Names -> Conf!Rows]] BY <1>r, <1>t
    <2>2. \A g \in Conf!Fleets, m \in Conf!Names : dRows'[g][m] = IF g = f /\ m = n THEN r ELSE dRows[g][m]
      BY <1>r, <1>t
    <2>3. \A g \in Conf!Fleets, m \in Conf!Names : RowR(dRows'[g][m], g) BY <2>2, <1>r, <1>b
    <2> QED BY <2>1, <2>3 DEF RowT
  <1>w. ASSUME NEW src \in Conf!Sources
        PROVE  LET r == [val |-> dNext + 1, src |-> src] IN r \in Conf!Rows /\ r.val = dNext + 1 /\ r.src = src
    BY <1>t DEF Conf!Rows
  <1>x. ASSUME NEW f \in Conf!Fleets, dNext' = dNext + 1,
               dMinted' = dMinted \cup {[val |-> dNext + 1, fleet |-> f]}
        PROVE Given /\ M(dNext + 1) = {f}
    <2>1. Given BY <1>x DEF Given
    <2>2. \A p \in dMinted : p.val # dNext + 1 BY <1>t DEF Conf!SecretInv
    <2> DEFINE k == [val |-> dNext + 1, fleet |-> f]
    <2>3. k.val = dNext + 1 /\ k.fleet = f OBVIOUS
    <2>4. dMinted' = dMinted \cup {k} BY <1>x
    <2> HIDE DEF k
    <2>5. {q \in dMinted' : q.val = dNext + 1} = {k} BY <2>2, <2>3, <2>4
    <2>6. {p.fleet : p \in {k}} = {f} BY <2>3
    <2>7. M(dNext + 1) = {f} BY <2>5, <2>6 DEF M, Conf!Holders
    <2> QED BY <2>1, <2>7
  <1>u. ASSUME dNext' = dNext + 1, dMinted' = dMinted PROVE Given /\ M(dNext + 1) = {}
    <2>1. \A p \in dMinted : p.val # dNext + 1 BY <1>t DEF Conf!SecretInv
    <2>2. Given BY <1>u, <1>t DEF Given
    <2>3. M(dNext + 1) = {} BY <1>u, <2>1 DEF M, Conf!Holders
    <2> QED BY <2>2, <2>3
  <1>p. ASSUME NEW n \in Conf!Names, NEW src \in {"auth", "token", "adm"}, Conf!Insert(n, src),
               dShip' = dShip
        PROVE Given /\ RowT /\ ShipT /\ MintT
    <2> DEFINE r == [val |-> dNext + 1, src |-> src]
               f == dDep.fleet
    <2>0. f \in Conf!Fleets BY <1>t DEF Conf!Deploys
    <2>1. dNext' = dNext + 1 /\ dMinted' = dMinted \cup {[val |-> dNext + 1, fleet |-> f]}
      BY <1>p DEF Conf!Insert
    <2>2. Given /\ M(dNext + 1) = {f} BY <2>0, <2>1, <1>x
    <2>3. r \in Conf!Rows /\ r.val = dNext + 1 /\ r.src = src
      <3>1. src \in Conf!Sources BY DEF Conf!Sources
      <3> QED BY <3>1, <1>w
    <2>4. dRows' = dRows \/ dRows' = [dRows EXCEPT ![f] = [@ EXCEPT ![n] = r]]
      BY <1>p DEF Conf!Insert
    <2> HIDE DEF r, f
    <2>5. RowR(r, f) BY <2>1, <2>2, <2>3, <1>t DEF RowR
    <2>6. RowT
      <3>1. CASE dRows' = dRows BY <3>1, <2>2, <1>e
      <3>2. CASE dRows' = [dRows EXCEPT ![f] = [@ EXCEPT ![n] = r]]
        BY <3>2, <2>0, <2>2, <2>3, <2>5, <1>r
      <3> QED BY <2>4, <3>1, <3>2
    <2> QED BY <1>p, <2>2, <2>6, <1>d, <1>o
  <1>j. ASSUME NEW d \in Conf!Deploys, dDep' = d, Given, dDep.pc \notin Conf!Checked,
               d.pc \notin Conf!Checked, d.pc \in Conf!InRoot => ~d.tree.link, 
               d.fleet = dDep.fleet, d.token = dDep.token, d.pc = "loadown" => d.fleet = "env",
               \A n \in Conf!Names : d.got[n] <= dNext' /\ M(d.got[n]) \subseteq {d.fleet}
        PROVE DepT
    <2>1. d.pc \notin Tokened /\ d.pc \notin Conf!Tokening
      BY <1>j DEF Conf!Tokening, Conf!Checked
    <2>2. VetD(d) BY <1>j, <2>1 DEF VetD
    <2>3. SecD(dDep) BY <1>j, <1>a
    <2>4. SecD(d) BY <1>j, <2>1, <2>3 DEF SecD
    <2> QED BY <1>j, <2>2, <2>4
  <1>same. ASSUME Given
           PROVE  \A n \in Conf!Names : dDep.got[n] <= dNext' /\ M(dDep.got[n]) \subseteq {dDep.fleet}
    BY <1>same, <1>a DEF SecD
  <1>1. ASSUME NEW f \in Conf!Fleets, NEW n \in Conf!Names, Conf!SetRow(f, n) PROVE Goal
    <2> DEFINE r == [val |-> dNext + 1, src |-> "user"]
    <2>1. /\ dNext' = dNext + 1 /\ dRows' = [dRows EXCEPT ![f] = [@ EXCEPT ![n] = r]]
          /\ dMinted' = dMinted
          /\ dDep' = dDep /\ dShip' = dShip
      BY <1>1 DEF Conf!SetRow
    <2>2. Given /\ M(dNext + 1) = {} BY <2>1, <1>u
    <2>3. r \in Conf!Rows /\ r.val = dNext + 1 /\ r.src = "user"
      <3>1. "user" \in Conf!Sources BY DEF Conf!Sources
      <3> QED BY <3>1, <1>w
    <2> HIDE DEF r
    <2>4. RowR(r, f) BY <2>1, <2>2, <2>3, <1>t DEF RowR
    <2>5. RowT BY <2>1, <2>2, <2>3, <2>4, <1>r
    <2> QED BY <2>1, <2>2, <2>5, <1>d, <1>f, <1>o, <1>q
  <1>2. ASSUME NEW f \in Conf!Fleets, NEW n \in Conf!Names, Conf!DeleteRow(f, n) PROVE Goal
    <2>1. /\ dRows' = [dRows EXCEPT ![f] = [@ EXCEPT ![n] = Conf!NoRow]] /\ dMinted' = dMinted
          /\ dNext' = dNext
          /\ dDep' = dDep /\ dShip' = dShip
      BY <1>2 DEF Conf!DeleteRow
    <2>2. Given BY <2>1, <1>y
    <2>3. Conf!NoRow \in Conf!Rows /\ Conf!NoRow.val = 0 /\ Conf!NoRow.src = "none"
      BY DEF Conf!NoRow, Conf!Rows, Conf!Sources
    <2>4. RowR(Conf!NoRow, f) BY <2>1, <2>2, <2>3, <1>t, <1>z DEF RowR
    <2>5. RowT BY <2>1, <2>2, <2>3, <2>4, <1>r
    <2> QED BY <2>1, <2>2, <2>5, <1>d, <1>f, <1>o, <1>q
  <1>3. ASSUME NEW f \in Conf!Fleets, Conf!Rotate(f) PROVE Goal
    <2> DEFINE r == [val |-> dNext + 1, src |-> "token"]
    <2>1. /\ dNext' = dNext + 1 /\ dRows' = [dRows EXCEPT ![f] = [@ EXCEPT !["TOKEN"] = r]]
          /\ dMinted' = dMinted \cup {[val |-> dNext + 1, fleet |-> f]} /\ dDep' = dDep
          /\ dShip' = dShip
      BY <1>3 DEF Conf!Rotate
    <2>2. Given /\ M(dNext + 1) = {f} BY <2>1, <1>x
    <2>3. r \in Conf!Rows /\ r.val = dNext + 1 /\ r.src = "token"
      <3>1. "token" \in Conf!Sources BY DEF Conf!Sources
      <3> QED BY <3>1, <1>w
    <2> HIDE DEF r
    <2>4. RowR(r, f) BY <2>1, <2>2, <2>3, <1>t DEF RowR
    <2>5. RowT BY <2>1, <2>2, <2>3, <2>4, <1>n, <1>r
    <2> QED BY <2>1, <2>2, <2>5, <1>d, <1>f, <1>o, <1>q
  <1>4. ASSUME NEW f \in Conf!Fleets, Conf!Begin(f) PROVE Goal
    <2> DEFINE d == [Conf!Idle EXCEPT !.pc = "build", !.fleet = f]
    <2>1. dDep' = d /\ UNCHANGED <<dRows, dNext, dMinted, dShip>> BY <1>4 DEF Conf!Begin
    <2>2. d \in Conf!Deploys /\ d.pc = "build" /\ d.token = 0 /\ \A n \in Conf!Names : d.got[n] = 0
      BY ConfIdleL DEF Conf!Deploys
    <2> HIDE DEF d
    <2>3. d.pc \notin Conf!InRoot /\ d.pc \notin Conf!Checked /\ d.pc \notin Conf!Tokening
      BY <2>2 DEF Conf!InRoot, Conf!Checked, Conf!Tokening
    <2>4. M(0) = {} /\ dNext' \in Nat BY <2>1, <1>y, <1>z, <1>t
    <2>5. VetD(d) /\ SecD(d) BY <2>2, <2>3, <2>4 DEF VetD, SecD
    <2> QED BY <2>1, <2>2, <2>5, <1>i
  <1>5. ASSUME Conf!Build PROVE Goal
    <2>1. UNCHANGED <<dRows, dNext, dMinted, dShip>> /\ dDep.pc \notin Conf!Checked
      BY <1>5 DEF Conf!Build, Conf!At, Conf!Checked
    <2>y. Given BY <2>1, <1>y
    <2>2. CASE Conf!Ends BY <2>1, <2>2, <2>y, <1>g, <1>i
    <2>3. CASE \E tree \in Conf!Trees, built \in BOOLEAN : dDep' = [dDep EXCEPT !.pc = "root", !.tree = tree, !.built = built]
      <3>1. PICK tree \in Conf!Trees, built \in BOOLEAN : dDep' = [dDep EXCEPT !.pc = "root", !.tree = tree, !.built = built]
        BY <2>3
      <3> DEFINE d == [dDep EXCEPT !.pc = "root", !.tree = tree, !.built = built]
      <3>2. d \in Conf!Deploys /\ d.pc = "root" /\ d.fleet = dDep.fleet /\ d.got = dDep.got /\
            d.token = dDep.token
        BY <1>t DEF Conf!Deploys
      <3>3. dDep' = d BY <3>1
      <3> HIDE DEF d
      <3>4. d.pc \notin Conf!Checked /\ d.pc \notin Conf!InRoot
        BY <3>2 DEF Conf!Checked, Conf!InRoot
      <3>5. \A n \in Conf!Names : d.got[n] <= dNext' /\ M(d.got[n]) \subseteq {d.fleet}
        BY <3>2, <2>y, <1>same
      <3>6. DepT BY <2>1, <2>y, <3>2, <3>3, <3>4, <3>5, <1>j
      <3> QED BY <2>1, <3>6, <1>i
    <2> QED BY <1>5, <2>2, <2>3 DEF Conf!Build
  <1>6. ASSUME Conf!ChooseRoot PROVE Goal
    <2>1. UNCHANGED <<dRows, dNext, dMinted, dShip>> /\ dDep.pc \notin Conf!Checked
      BY <1>6 DEF Conf!ChooseRoot, Conf!At, Conf!Checked
    <2>y. Given BY <2>1, <1>y
    <2>2. CASE Conf!Ends BY <2>1, <2>2, <2>y, <1>g, <1>i
    <2>3. CASE \E b \in BOOLEAN, t \in Conf!Trees, r \in Conf!Required :
                 dDep' = [dDep EXCEPT !.pc = "release", !.void = b, !.tree = t, !.built = FALSE, !.req = r]
      <3>1. PICK b \in BOOLEAN, t \in Conf!Trees, r \in Conf!Required :
                 dDep' = [dDep EXCEPT !.pc = "release", !.void = b, !.tree = t, !.built = FALSE, !.req = r]
        BY <2>3
      <3> DEFINE d == [dDep EXCEPT !.pc = "release", !.void = b, !.tree = t, !.built = FALSE, !.req = r]
      <3>2. d \in Conf!Deploys /\ d.pc = "release" /\ d.fleet = dDep.fleet /\ d.got = dDep.got /\
            d.token = dDep.token
        BY <1>t DEF Conf!Deploys
      <3>3. dDep' = d BY <3>1
      <3> HIDE DEF d
      <3>4. d.pc \notin Conf!Checked /\ d.pc \notin Conf!InRoot
        BY <3>2 DEF Conf!Checked, Conf!InRoot
      <3>5. \A n \in Conf!Names : d.got[n] <= dNext' /\ M(d.got[n]) \subseteq {d.fleet}
        BY <3>2, <2>y, <1>same
      <3>6. DepT BY <2>1, <2>y, <3>2, <3>3, <3>4, <3>5, <1>j
      <3> QED BY <2>1, <3>6, <1>i
    <2> DEFINE built == IF dDep.built THEN Conf!BuiltRoot(dDep.tree) ELSE "none"
               config == Conf!Rewritten(built, dDep.tree)
               t0 == [Conf!NoTree EXCEPT !.link = dDep.tree.link]
    <2>4. dDep.tree \in Conf!Trees /\ dDep.tree.link \in BOOLEAN /\ dDep.tree.req \in Conf!Required
      BY <1>t DEF Conf!Deploys, Conf!Trees
    <2>5. config.req \in Conf!Required
      <3>1. {} \in Conf!Required BY DEF Conf!Required
      <3> QED BY <2>4, <3>1 DEF Conf!Rewritten
    <2>6. t0 \in Conf!Trees
      <3>1. {} \in Conf!Required /\ {} \in Conf!Outputs BY DEF Conf!Required, Conf!Outputs
      <3> QED BY <2>4, <3>1 DEF Conf!NoTree, Conf!Trees
    <2>7. Conf!Ends \/ dDep' = [dDep EXCEPT !.pc = "release", !.void = (built = "void"), !.tree = t0, !.built = FALSE, !.req = config.req]
      BY <1>6 DEF Conf!ChooseRoot
    <2>8. (built = "void") \in BOOLEAN OBVIOUS
    <2> HIDE DEF built, config, t0
    <2> QED BY <2>2, <2>3, <2>5, <2>6, <2>7, <2>8
  <1>7. ASSUME Conf!Release PROVE Goal
    <2>1. UNCHANGED <<dRows, dNext, dMinted, dShip>> /\ dDep.pc \notin Conf!Checked
      BY <1>7 DEF Conf!Release, Conf!At, Conf!Checked
    <2>y. Given BY <2>1, <1>y
    <2>2. dDep.tree \in Conf!Trees /\ dDep.tree.link \in BOOLEAN
      BY <1>t DEF Conf!Deploys, Conf!Trees
    <2>3. PICK link \in {dDep.tree.link, TRUE, FALSE} : dDep' = [dDep EXCEPT !.pc = "back", !.tree = [@ EXCEPT !.link = link]]
      BY <1>7 DEF Conf!Release
    <2> DEFINE t == [dDep.tree EXCEPT !.link = link]
    <2>4. t \in Conf!Trees
      <3>1. link \in BOOLEAN BY <2>2
      <3> QED BY <3>1, <2>2 DEF Conf!Trees
    <2> DEFINE d == [dDep EXCEPT !.pc = "back", !.tree = t]
    <2>5. dDep' = d BY <2>3
    <2> HIDE DEF t
    <2>6. d \in Conf!Deploys /\ d.pc = "back" /\ d.fleet = dDep.fleet /\ d.got = dDep.got /\
          d.token = dDep.token
      BY <2>4, <1>t DEF Conf!Deploys
    <2> HIDE DEF d
    <2>7. d.pc \notin Conf!Checked /\ d.pc \notin Conf!InRoot
      BY <2>6 DEF Conf!Checked, Conf!InRoot
    <2>8. \A n \in Conf!Names : d.got[n] <= dNext' /\ M(d.got[n]) \subseteq {d.fleet}
      BY <2>6, <2>y, <1>same
    <2>9. DepT BY <2>1, <2>y, <2>5, <2>6, <2>7, <2>8, <1>j
    <2> QED BY <2>1, <2>9, <1>i
  <1>8. ASSUME Conf!TakeBack PROVE Goal
    <2>1. UNCHANGED <<dRows, dNext, dMinted, dShip>> /\ dDep.pc \notin Conf!Checked
      BY <1>8 DEF Conf!TakeBack, Conf!At, Conf!Checked
    <2>y. Given BY <2>1, <1>y
    <2>2. CASE Conf!Ends BY <2>1, <2>2, <2>y, <1>g, <1>i
    <2>3. CASE ~dDep.tree.link /\ Conf!Taken(dDep)
      <3>1. PICK own \in {{}, {"ADM"}, {"KEY"}}, sandbox \in BOOLEAN :
                 /\ sandbox => dDep.void
                 /\ dDep' = [dDep EXCEPT !.pc = IF dDep.void THEN "auth" ELSE "load", !.own = own, !.sandbox = sandbox]
        BY <2>3 DEF Conf!Taken
      <3> DEFINE p == IF dDep.void THEN "auth" ELSE "load"
      <3> DEFINE d == [dDep EXCEPT !.pc = p, !.own = own, !.sandbox = sandbox]
      <3>2. dDep' = d BY <3>1
      <3>3. own \in SUBSET Conf!Names BY DEF Conf!Names
      <3>4. p \in Conf!InRoot /\ p \notin Conf!Checked /\ p # "loadown"
        BY DEF Conf!InRoot, Conf!Checked
      <3> HIDE DEF p
      <3>5. d \in Conf!Deploys /\ d.pc = p /\ d.fleet = dDep.fleet /\ d.got = dDep.got /\
            d.token = dDep.token /\ d.tree = dDep.tree
        BY <3>3, <3>4, <1>t DEF Conf!Deploys
      <3> HIDE DEF d
      <3>6. \A n \in Conf!Names : d.got[n] <= dNext' /\ M(d.got[n]) \subseteq {d.fleet}
        BY <3>5, <2>y, <1>same
      <3>7. DepT BY <2>1, <2>3, <2>y, <3>2, <3>4, <3>5, <3>6, <1>j
      <3> QED BY <2>1, <3>7, <1>i
    <2> QED BY <1>8, <2>2, <2>3 DEF Conf!TakeBack, Conf!Contained
  <1>9. ASSUME Conf!AuthRead PROVE Goal
    <2>1. UNCHANGED <<dRows, dNext, dMinted, dShip>> /\ dDep.pc = "auth"
      BY <1>9 DEF Conf!AuthRead, Conf!At
    <2>y. Given BY <2>1, <1>y
    <2>2. CASE Conf!Ends BY <2>1, <2>2, <2>y, <1>g, <1>i
    <2>3. CASE Conf!Go("load")
      <3>1. DepT BY <2>1, <2>3, <2>y, <1>h DEF Pcs, Conf!InRoot, Conf!Checked, Conf!Tokening
      <3> QED BY <2>1, <3>1, <1>i
    <2>4. CASE Conf!Go("authapp")
      <3>1. DepT BY <2>1, <2>4, <2>y, <1>h DEF Pcs, Conf!InRoot, Conf!Checked, Conf!Tokening
      <3> QED BY <2>1, <3>1, <1>i
    <2>5. CASE Conf!Go("authmint")
      <3>1. DepT BY <2>1, <2>5, <2>y, <1>h DEF Pcs, Conf!InRoot, Conf!Checked, Conf!Tokening
      <3> QED BY <2>1, <3>1, <1>i
    <2> QED BY <1>9, <2>3, <2>4, <2>5 DEF Conf!AuthRead
  <1>10. ASSUME Conf!AuthApp PROVE Goal
    <2>1. UNCHANGED <<dRows, dNext, dMinted, dShip>> /\ dDep.pc = "authapp"
      BY <1>10 DEF Conf!AuthApp, Conf!At
    <2>y. Given BY <2>1, <1>y
    <2>2. CASE Conf!Ends BY <2>1, <2>2, <2>y, <1>g, <1>i
    <2>3. CASE Conf!Go("load")
      <3>1. DepT BY <2>1, <2>3, <2>y, <1>h DEF Pcs, Conf!InRoot, Conf!Checked, Conf!Tokening
      <3> QED BY <2>1, <3>1, <1>i
    <2>5. CASE Conf!Go("authmint")
      <3>1. DepT BY <2>1, <2>5, <2>y, <1>h DEF Pcs, Conf!InRoot, Conf!Checked, Conf!Tokening
      <3> QED BY <2>1, <3>1, <1>i
    <2> QED BY <1>10, <2>3, <2>5 DEF Conf!AuthApp
  <1>11. ASSUME Conf!AuthMint PROVE Goal
    <2>1. dDep.pc = "authmint" /\ Conf!Insert("AUTH", "auth") /\ Conf!Go("load") /\ dShip' = dShip
      BY <1>11 DEF Conf!AuthMint, Conf!At
    <2>2. "AUTH" \in Conf!Names BY DEF Conf!Names
    <2>3. Given /\ RowT /\ ShipT /\ MintT BY <2>1, <2>2, <1>p
    <2>v. dDep.pc \in Conf!Tokening => dDep.void BY DEF Conf!SecretInv
    <2>4. DepT BY <2>1, <2>3, <2>v, <1>h DEF Pcs, Conf!InRoot, Conf!Checked, Conf!Tokening
    <2> QED BY <2>3, <2>4, <1>q
  <1>s. ASSUME NEW f \in Conf!Fleets, NEW n \in Conf!Names, Given
        PROVE LET v == dRows[f][n].val IN
              /\ v \in Nat /\ v <= dNext' /\ M(v) \subseteq {f}
              /\ (dRows[f][n].src = "user" => M(v) = {})
              /\ dRows[f][n].src = "token" => M(v) = {f} /\ v # 0
    <2>1. dRows[f][n] \in Conf!Rows BY <1>t
    <2> QED BY <2>1, <1>s, <1>b, <1>n DEF RowR
  <1>12. ASSUME Conf!Load PROVE Goal
    <2>1. UNCHANGED <<dRows, dNext, dMinted, dShip>> /\ dDep.pc = "load"
      BY <1>12 DEF Conf!Load, Conf!At
    <2>y. Given BY <2>1, <1>y
    <2>z. M(0) = {} /\ dNext' \in Nat BY <2>y, <1>z, <1>up
    <2>f. "app" \in Conf!Fleets /\ dDep.fleet \in Conf!Fleets
      BY <1>t DEF Conf!Fleets, Conf!Deploys
    <2>2. CASE \E p \in {"loadown", "check"}, g \in [Conf!Names -> Nat] :
                 /\ p = "loadown" => dDep.fleet = "env"
                 /\ \A n \in Conf!Names : g[n] <= dNext' /\ M(g[n]) \subseteq {dDep.fleet}
                 /\ dDep' = [dDep EXCEPT !.pc = p, !.got = g]
      <3>1. PICK p \in {"loadown", "check"}, g \in [Conf!Names -> Nat] :
                 /\ p = "loadown" => dDep.fleet = "env"
                 /\ \A n \in Conf!Names : g[n] <= dNext' /\ M(g[n]) \subseteq {dDep.fleet}
                 /\ dDep' = [dDep EXCEPT !.pc = p, !.got = g]
        BY <2>2
      <3> DEFINE d == [dDep EXCEPT !.pc = p, !.got = g]
      <3>2. dDep' = d BY <3>1
      <3>3. p \in Conf!InRoot /\ p \notin Conf!Checked /\ dDep.pc \in Conf!InRoot /\
            dDep.pc \notin Conf!Checked
        BY <2>1 DEF Conf!InRoot, Conf!Checked
      <3>4. d \in Conf!Deploys /\ d.pc = p /\ d.fleet = dDep.fleet /\ d.got = g /\
            d.token = dDep.token /\ d.tree = dDep.tree
        BY <3>3, <1>t DEF Conf!Deploys
      <3> HIDE DEF d
      <3>5. ~d.tree.link BY <3>3, <3>4, <1>v DEF VetD
      <3>6. DepT BY <2>y, <3>1, <3>2, <3>3, <3>4, <3>5, <1>j
      <3> QED BY <2>1, <3>6, <1>i
    <2>3. CASE dDep.fleet = "env" /\ dDep' = [dDep EXCEPT !.pc = "loadown", !.got = Conf!Inherited]
      <3>1. \A n \in Conf!Names : dRows["app"][n].src = "user" => dRows["app"][n].val <= dNext' /\ M(dRows["app"][n].val) = {} /\ dRows["app"][n].val \in Nat
        BY <2>f, <2>y, <1>s
      <3>2. Conf!Inherited \in [Conf!Names -> Nat] /\ \A n \in Conf!Names : Conf!Inherited[n] <= dNext' /\ M(Conf!Inherited[n]) \subseteq {dDep.fleet}
        BY <3>1, <2>z DEF Conf!Inherited
      <3> QED BY <2>2, <2>3, <3>2
    <2>4. CASE dDep.fleet # "env" /\ dDep' = [dDep EXCEPT !.pc = "check", !.got = Conf!Own("app")]
      <3>1. \A n \in Conf!Names : dRows["app"][n].val <= dNext' /\ M(dRows["app"][n].val) \subseteq {"app"} /\ dRows["app"][n].val \in Nat
        BY <2>f, <2>y, <1>s
      <3>2. dDep.fleet = "app" BY <2>f, <2>4 DEF Conf!Fleets
      <3>3. Conf!Own("app") \in [Conf!Names -> Nat] /\ \A n \in Conf!Names : Conf!Own("app")[n] <= dNext' /\ M(Conf!Own("app")[n]) \subseteq {dDep.fleet}
        BY <3>1, <3>2, <2>z DEF Conf!Own
      <3> QED BY <2>2, <2>4, <3>3
    <2> QED BY <1>12, <2>3, <2>4 DEF Conf!Load
  <1>13. ASSUME Conf!LoadOwn PROVE Goal
    <2>1. UNCHANGED <<dRows, dNext, dMinted, dShip>> /\ dDep.pc = "loadown"
      BY <1>13 DEF Conf!LoadOwn, Conf!At
    <2>y. Given BY <2>1, <1>y
    <2>z. M(0) = {} /\ dNext' \in Nat BY <2>y, <1>z, <1>up
    <2>f. "env" \in Conf!Fleets /\ dDep.fleet \in Conf!Fleets
      BY <1>t DEF Conf!Fleets, Conf!Deploys
    <2>e. dDep.fleet = "env" BY <2>1 DEF Conf!SecretInv
    <2> DEFINE g == Conf!Over(dDep.got, Conf!Own("env"))
    <2>2. \A n \in Conf!Names : dRows["env"][n].val <= dNext' /\ M(dRows["env"][n].val) \subseteq {"env"} /\ dRows["env"][n].val \in Nat
      BY <2>f, <2>y, <1>s
    <2>3. Conf!Own("env") \in [Conf!Names -> Nat] /\ \A n \in Conf!Names : Conf!Own("env")[n] <= dNext' /\ M(Conf!Own("env")[n]) \subseteq {"env"}
      BY <2>2, <2>z DEF Conf!Own
    <2>4. \A n \in Conf!Names : dDep.got[n] <= dNext' /\ M(dDep.got[n]) \subseteq {dDep.fleet}
      BY <2>y, <1>same
    <2>5. \A n \in Conf!Names : dDep.got[n] \in Nat BY <1>n, <1>t
    <2>6. g \in [Conf!Names -> Nat] /\ \A n \in Conf!Names : g[n] <= dNext' /\ M(g[n]) \subseteq {dDep.fleet}
      BY <2>3, <2>4, <2>5, <2>e DEF Conf!Over
    <2> DEFINE d == [dDep EXCEPT !.pc = "check", !.got = g]
    <2>7. dDep' = d BY <1>13 DEF Conf!LoadOwn
    <2> HIDE DEF g
    <2>8. "check" \in Conf!InRoot /\ "check" \notin Conf!Checked /\ dDep.pc \in Conf!InRoot /\
          dDep.pc \notin Conf!Checked
      BY <2>1 DEF Conf!InRoot, Conf!Checked
    <2>9. d \in Conf!Deploys /\ d.pc = "check" /\ d.fleet = dDep.fleet /\ d.got = g /\
          d.token = dDep.token /\ d.tree = dDep.tree
      BY <2>6, <2>8, <1>t DEF Conf!Deploys
    <2> HIDE DEF d
    <2>10. ~d.tree.link BY <2>8, <2>9, <1>v DEF VetD
    <2>11. DepT BY <2>y, <2>6, <2>7, <2>8, <2>9, <2>10, <1>j
    <2> QED BY <2>1, <2>11, <1>i
  <1>14. ASSUME Conf!CheckAndMerge PROVE Goal
    <2>1. UNCHANGED <<dRows, dNext, dMinted, dShip>> /\ dDep.pc = "check"
      BY <1>14 DEF Conf!CheckAndMerge, Conf!At
    <2>y. Given BY <2>1, <1>y
    <2>2. CASE Conf!Ends BY <2>1, <2>2, <2>y, <1>g, <1>i
    <2>3. CASE Conf!Go("token") /\ Conf!RequiredMet /\ Conf!Mergeable /\ dDep.void
      <3>1. DepT BY <2>1, <2>3, <2>y, <1>h DEF Pcs, Conf!InRoot, Conf!Checked, Conf!Tokening
      <3> QED BY <2>1, <3>1, <1>i
    <2>4. CASE Conf!Go("plan") /\ Conf!RequiredMet /\ Conf!Mergeable /\ ~dDep.void
      <3>1. DepT BY <2>1, <2>4, <2>y, <1>h DEF Pcs, Conf!InRoot, Conf!Checked, Conf!Tokening
      <3> QED BY <2>1, <3>1, <1>i
    <2> QED BY <1>14, <2>2, <2>3, <2>4 DEF Conf!CheckAndMerge
  <1>k. ASSUME dDep.pc \in Conf!Tokening, UNCHANGED <<dRows, dNext, dMinted, dShip>>,
               Conf!Row("TOKEN").src = "token", 
               dDep' = [dDep EXCEPT !.pc = "owned", !.token = Conf!Row("TOKEN").val]
        PROVE Goal
    <2>y. Given BY <1>k, <1>y
    <2> DEFINE v == Conf!Row("TOKEN").val
    <2>f. dDep.fleet \in Conf!Fleets BY <1>t DEF Conf!Deploys
    <2>1. v \in Nat /\ v <= dNext' /\ M(v) = {dDep.fleet} /\ v # 0
      BY <1>k, <2>f, <2>y, <1>n, <1>s DEF Conf!Row
    <2>2. dDep.void BY <1>k DEF Conf!SecretInv
    <2>3. dDep.pc \in Conf!Checked /\ "owned" \in Conf!InRoot /\ "owned" \in Conf!Checked /\
          "owned" \notin Conf!Tokening /\ dDep.pc \in Conf!InRoot
      BY <1>k DEF Conf!Checked, Conf!InRoot, Conf!Tokening
    <2> DEFINE d == [dDep EXCEPT !.pc = "owned", !.token = v]
    <2>4. dDep' = d BY <1>k
    <2> HIDE DEF v
    <2>5. /\ d \in Conf!Deploys /\ d.pc = "owned" /\ d.fleet = dDep.fleet /\ d.got = dDep.got
          /\ d.token = v /\ d.tree = dDep.tree
          /\ d.void = dDep.void /\ d.req = dDep.req /\ d.own = dDep.own
      BY <2>1, <2>3, <1>t DEF Conf!Deploys
    <2> HIDE DEF d
    <2>6. \A n \in Conf!Names : d.got[n] <= dNext' /\ M(d.got[n]) \subseteq {d.fleet}
      BY <2>5, <2>y, <1>same
    <2>7. SecD(d) BY <2>1, <2>2, <2>3, <2>5, <2>6 DEF SecD
    <2>8. Met(d) = Met(dDep) /\ Merge(d) = Merge(dDep) BY <2>5 DEF Met, Merge
    <2>9. VetD(d) BY <2>1, <2>3, <2>5, <2>8, <1>v DEF VetD
    <2>10. DepT BY <2>4, <2>5, <2>7, <2>9
    <2> QED BY <1>k, <2>10, <1>i
  <1>15. ASSUME Conf!TokenRead PROVE Goal
    <2>1. UNCHANGED <<dRows, dNext, dMinted, dShip>> /\ dDep.pc = "token"
      BY <1>15 DEF Conf!TokenRead, Conf!At
    <2>y. Given BY <2>1, <1>y
    <2>2. CASE Conf!Ends BY <2>1, <2>2, <2>y, <1>g, <1>i
    <2>v. dDep.void BY <2>1 DEF Conf!SecretInv, Conf!Tokening
    <2>3. CASE Conf!Go("tokenmint")
      <3>1. DepT
        BY <2>1, <2>3, <2>y, <2>v, <1>h DEF Pcs, Conf!InRoot, Conf!Checked, Conf!Tokening
      <3> QED BY <2>1, <3>1, <1>i
    <2>4. CASE Conf!Row("TOKEN").src = "token" /\
               dDep' = [dDep EXCEPT !.pc = "owned", !.token = Conf!Row("TOKEN").val]
      BY <2>1, <2>4, <1>k DEF Conf!Tokening
    <2> QED BY <1>15, <2>2, <2>3, <2>4 DEF Conf!TokenRead
  <1>16. ASSUME Conf!TokenMint PROVE Goal
    <2>1. dDep.pc = "tokenmint" /\ Conf!Insert("TOKEN", "token") /\ Conf!Go("tokenread") /\
          dShip' = dShip
      BY <1>16 DEF Conf!TokenMint, Conf!At
    <2>2. "TOKEN" \in Conf!Names BY DEF Conf!Names
    <2>3. Given /\ RowT /\ ShipT /\ MintT BY <2>1, <2>2, <1>p
    <2>v. dDep.pc \in Conf!Tokening => dDep.void BY DEF Conf!SecretInv
    <2>4. DepT BY <2>1, <2>3, <2>v, <1>h DEF Pcs, Conf!InRoot, Conf!Checked, Conf!Tokening
    <2> QED BY <2>3, <2>4, <1>q
  <1>17. ASSUME Conf!TokenReread PROVE Goal
    <2>1. UNCHANGED <<dRows, dNext, dMinted, dShip>> /\ dDep.pc = "tokenread"
      BY <1>17 DEF Conf!TokenReread, Conf!At
    <2>y. Given BY <2>1, <1>y
    <2>2. CASE Conf!Ends BY <2>1, <2>2, <2>y, <1>g, <1>i
    <2>4. CASE Conf!Row("TOKEN").src = "token" /\
               dDep' = [dDep EXCEPT !.pc = "owned", !.token = Conf!Row("TOKEN").val]
      BY <2>1, <2>4, <1>k DEF Conf!Tokening
    <2> QED BY <1>17, <2>2, <2>4 DEF Conf!TokenReread
  <1>18. ASSUME Conf!MergeOwned PROVE Goal
    <2>1. UNCHANGED <<dRows, dNext, dMinted, dShip>> /\ dDep.pc = "owned"
      BY <1>18 DEF Conf!MergeOwned, Conf!At
    <2>y. Given BY <2>1, <1>y
    <2>2. CASE Conf!Ends BY <2>1, <2>2, <2>y, <1>g, <1>i
    <2>3. CASE Conf!Go("adm")
      <3>1. DepT BY <2>1, <2>3, <2>y, <1>h DEF Pcs, Conf!InRoot, Conf!Checked, Conf!Tokening
      <3> QED BY <2>1, <3>1, <1>i
    <2>4. CASE Conf!Go("plan")
      <3>1. DepT BY <2>1, <2>4, <2>y, <1>h DEF Pcs, Conf!InRoot, Conf!Checked, Conf!Tokening
      <3> QED BY <2>1, <3>1, <1>i
    <2> QED BY <1>18, <2>2, <2>3, <2>4 DEF Conf!MergeOwned
  <1>l. ASSUME dDep.pc \in {"adm", "admread"}, UNCHANGED <<dRows, dNext, dMinted, dShip>>,
               dDep' = [dDep EXCEPT !.pc = "plan", !.mine = Conf!Row("ADM").val]
        PROVE Goal
    <2>y. Given BY <1>l, <1>y
    <2> DEFINE v == Conf!Row("ADM").val
    <2>f. dDep.fleet \in Conf!Fleets /\ "ADM" \in Conf!Names
      BY <1>t DEF Conf!Deploys, Conf!Names
    <2>1. v \in Nat BY <2>f, <2>y, <1>s DEF Conf!Row
    <2>3. /\ dDep.pc \in Conf!Checked \ Conf!Tokening /\ dDep.pc \in Conf!InRoot
          /\ "plan" \in Conf!InRoot /\ "plan" \in Conf!Checked /\ "plan" \notin Conf!Tokening
      BY <1>l DEF Conf!Checked, Conf!InRoot, Conf!Tokening
    <2> DEFINE d == [dDep EXCEPT !.pc = "plan", !.mine = v]
    <2>4. dDep' = d BY <1>l
    <2> HIDE DEF v
    <2>5. /\ d \in Conf!Deploys /\ d.pc = "plan" /\ d.fleet = dDep.fleet /\ d.got = dDep.got
          /\ d.token = dDep.token /\ d.tree = dDep.tree
          /\ d.void = dDep.void /\ d.req = dDep.req /\ d.own = dDep.own
      BY <2>1, <2>3, <1>t DEF Conf!Deploys
    <2> HIDE DEF d
    <2>7. SecD(d) BY <2>3, <2>5, <2>y, <1>a DEF SecD
    <2>8. Met(d) = Met(dDep) /\ Merge(d) = Merge(dDep) BY <2>5 DEF Met, Merge
    <2>9. VetD(d) BY <2>3, <2>5, <2>8, <1>v DEF VetD
    <2>10. DepT BY <2>4, <2>5, <2>7, <2>9
    <2> QED BY <1>l, <2>10, <1>i
  <1>19. ASSUME Conf!AdmRead PROVE Goal
    <2>1. UNCHANGED <<dRows, dNext, dMinted, dShip>> /\ dDep.pc = "adm"
      BY <1>19 DEF Conf!AdmRead, Conf!At
    <2>y. Given BY <2>1, <1>y
    <2>2. CASE Conf!Ends BY <2>1, <2>2, <2>y, <1>g, <1>i
    <2>3. CASE Conf!Go("admmint")
      <3>1. DepT BY <2>1, <2>3, <2>y, <1>h DEF Pcs, Conf!InRoot, Conf!Checked, Conf!Tokening
      <3> QED BY <2>1, <3>1, <1>i
    <2>4. CASE dDep' = [dDep EXCEPT !.pc = "plan", !.mine = Conf!Row("ADM").val]
      BY <2>1, <2>4, <1>l
    <2> QED BY <1>19, <2>2, <2>3, <2>4 DEF Conf!AdmRead
  <1>20. ASSUME Conf!AdmMint PROVE Goal
    <2>1. dDep.pc = "admmint" /\ Conf!Insert("ADM", "adm") /\ Conf!Go("admread") /\ dShip' = dShip
      BY <1>20 DEF Conf!AdmMint, Conf!At
    <2>2. "ADM" \in Conf!Names BY DEF Conf!Names
    <2>3. Given /\ RowT /\ ShipT /\ MintT BY <2>1, <2>2, <1>p
    <2>v. dDep.pc \in Conf!Tokening => dDep.void BY DEF Conf!SecretInv
    <2>4. DepT BY <2>1, <2>3, <2>v, <1>h DEF Pcs, Conf!InRoot, Conf!Checked, Conf!Tokening
    <2> QED BY <2>3, <2>4, <1>q
  <1>21. ASSUME Conf!AdmReread PROVE Goal
    <2>1. UNCHANGED <<dRows, dNext, dMinted, dShip>> /\ dDep.pc = "admread"
      BY <1>21 DEF Conf!AdmReread, Conf!At
    <2>y. Given BY <2>1, <1>y
    <2>2. CASE Conf!Ends BY <2>1, <2>2, <2>y, <1>g, <1>i
    <2>4. CASE dDep' = [dDep EXCEPT !.pc = "plan", !.mine = Conf!Row("ADM").val]
      BY <2>1, <2>4, <1>l
    <2> QED BY <1>21, <2>2, <2>4 DEF Conf!AdmReread
  <1>22. ASSUME NEW p \in Conf!Checked \ Conf!Tokening, NEW q \in Conf!Checked \ Conf!Tokening,
                Conf!Refusable(p, q)
         PROVE  Goal
    <2>1. UNCHANGED <<dRows, dNext, dMinted, dShip>> /\ dDep.pc = p /\ q # "loadown"
      BY <1>22 DEF Conf!Refusable, Conf!At, Conf!Checked
    <2>y. Given BY <2>1, <1>y
    <2>2. CASE Conf!Ends BY <2>1, <2>2, <2>y, <1>g, <1>i
    <2>3. CASE Conf!Go(q)
      <3>1. p \in Conf!InRoot /\ q \in Conf!InRoot BY DEF Conf!InRoot
      <3>2. DepT BY <2>1, <2>3, <2>y, <3>1, <1>h DEF Pcs
      <3> QED BY <2>1, <3>2, <1>i
    <2> QED BY <1>22, <2>2, <2>3 DEF Conf!Refusable
  <1>23. ASSUME Conf!Ship PROVE Goal
    <2>1. UNCHANGED <<dRows, dNext, dMinted>> /\ dDep.pc = "ship" /\ Conf!Ends
      BY <1>23 DEF Conf!Ship, Conf!At
    <2>y. Given BY <2>1, <1>y
    <2>z. M(0) = {} /\ dNext' \in Nat BY <2>y, <1>z, <1>up
    <2> DEFINE f == dDep.fleet
               s == [done |-> TRUE, vars |-> Conf!AppVars, proxy |-> Conf!ProxyVars, adm |-> dDep.mine, req |-> dDep.req, link |-> dDep.tree.link]
    <2>2. /\ f \in Conf!Fleets /\ dDep.mine \in Nat /\ dDep.req \in Conf!Required
          /\ dDep.tree.link \in BOOLEAN /\ dDep.token \in Nat
          /\ dDep.void \in BOOLEAN
      BY <1>t DEF Conf!Deploys, Conf!Trees
    <2>3. \A n \in Conf!Names : dDep.got[n] \in Nat BY <1>n, <1>t
    <2>4. dShip' = [dShip EXCEPT ![f] = s] BY <1>23 DEF Conf!Ship
    <2>5. Conf!AppVars \in [Conf!Names -> Nat] /\ Conf!ProxyVars \in [Conf!Names -> Nat]
      BY <2>2, <2>3 DEF Conf!AppVars, Conf!ProxyVars
    <2>6. /\ s \in Conf!Ships /\ s.vars = Conf!AppVars /\ s.proxy = Conf!ProxyVars
          /\ s.req = dDep.req /\ s.link = dDep.tree.link
      BY <2>2, <2>5 DEF Conf!Ships
    <2> HIDE DEF s
    <2>7. dDep.pc \in Conf!Checked /\ dDep.pc \in Conf!InRoot /\ dDep.pc \notin Conf!Tokening
      BY <2>1 DEF Conf!Checked, Conf!InRoot, Conf!Tokening
    <2>8. ~dDep.tree.link /\ Met(dDep) /\ Merge(dDep) /\ (dDep.void => dDep.token # 0)
      BY <2>7, <1>v DEF VetD
    <2>9. SecD(dDep) BY <2>y, <1>a
    <2>10. \A n \in Conf!Names : Conf!AppVars[n] \in {0, dDep.token, dDep.got[n]}
      BY DEF Conf!AppVars
    <2>11. M(dDep.token) \subseteq {f} BY <2>9, <2>z DEF SecD
    <2>12. \A n \in Conf!Names : Conf!AppVars[n] <= dNext' /\ M(Conf!AppVars[n]) \subseteq {f}
      BY <2>9, <2>10, <2>11, <2>z DEF SecD
    <2>13. Conf!AppVars["TOKEN"] = dDep.token /\
           Conf!ProxyVars["TOKEN"] = (IF dDep.void THEN dDep.token ELSE 0)
      BY <1>n DEF Conf!AppVars, Conf!ProxyVars
    <2>14. dDep.token # 0 => dDep.void /\ M(dDep.token) = {f} BY <2>9 DEF SecD
    <2>15. \A n \in dDep.req : Conf!AppVars[n] # 0 \/ Conf!ProxyVars[n] # 0
      <3>1. SUFFICES ASSUME NEW n \in dDep.req PROVE Conf!AppVars[n] # 0 \/ Conf!ProxyVars[n] # 0 OBVIOUS
      <3>2. n \in Conf!Names BY <2>2, ConfReqL
      <3>3. n \in Has(dDep) \/ (dDep.void /\ n = "TOKEN") BY <2>8 DEF Met
      <3>4. CASE dDep.void /\ n = "TOKEN" BY <3>4, <2>8, <2>13
      <3>5. CASE n \in Has(dDep) /\ dDep.void /\ n = "KEY" BY <3>2, <3>5 DEF Conf!ProxyVars
      <3>6. CASE n \in Has(dDep) /\ n # "TOKEN" /\ ~(dDep.void /\ n = "KEY")
        <4>1. n \in Conf!AppNames BY <3>2, <3>6 DEF Conf!AppNames, Conf!Have
        <4> QED BY <3>2, <3>6, <4>1 DEF Conf!AppVars
      <3>7. CASE n \in Has(dDep) /\ n = "TOKEN" /\ ~dDep.void
        BY <2>8, <3>7 DEF Merge, Conf!WorkerReserved
      <3> QED BY <3>3, <3>4, <3>5, <3>6, <3>7
    <2>16. ShipR(s, f) BY <2>6, <2>8, <2>12, <2>13, <2>14, <2>15 DEF ShipR
    <2>17. dShip' \in [Conf!Fleets -> Conf!Ships] /\ \A g \in Conf!Fleets : dShip'[g] = IF g = f THEN s ELSE dShip[g]
      BY <2>2, <2>4, <2>6, <1>t
    <2>18. ShipT
      <3>1. \A g \in Conf!Fleets : ShipR(dShip'[g], g) BY <2>16, <2>17, <2>y, <1>c
      <3> QED BY <2>17, <3>1 DEF ShipT
    <2>19. RowT /\ DepT /\ MintT BY <2>1, <2>y, <1>e, <1>g, <1>o
    <2> QED BY <2>18, <2>19, <1>q
  <1>24. ASSUME UNCHANGED confVars PROVE Goal
    <2>1. UNCHANGED <<dRows, dNext, dMinted, dShip>> /\ dDep' = dDep BY <1>24 DEF confVars
    <2>2. Given BY <2>1, <1>y
    <2>3. DepT BY <2>1, <2>2, <1>f
    <2> QED BY <2>1, <2>3, <1>i
  <1>25. ASSUME Conf!DeployStep PROVE Goal
    <2>1. "plan" \in Conf!Checked \ Conf!Tokening /\ "context" \in Conf!Checked \ Conf!Tokening /\
          "dockerfile" \in Conf!Checked \ Conf!Tokening
          /\ "vet" \in Conf!Checked \ Conf!Tokening /\ "ship" \in Conf!Checked \ Conf!Tokening
      BY DEF Conf!Checked, Conf!Tokening
    <2>2. CASE Conf!PlanContainers BY <2>1, <2>2, <1>22 DEF Conf!PlanContainers
    <2>3. CASE Conf!PrepareImage BY <2>1, <2>3, <1>22 DEF Conf!PrepareImage
    <2>4. CASE Conf!CheckDockerfile BY <2>1, <2>4, <1>22 DEF Conf!CheckDockerfile
    <2>5. CASE Conf!VetImages BY <2>1, <2>5, <1>22 DEF Conf!VetImages
    <2> QED BY <1>25, <2>2, <2>3, <2>4, <2>5, <1>5, <1>6, <1>7, <1>8, <1>9, <1>10, <1>11, <1>12,
               <1>13, <1>14, <1>15, <1>16, <1>17, 
               <1>18, <1>19, <1>20, <1>21, <1>23 DEF Conf!DeployStep
  <1>26. Goal
    <2>1. CASE \E f \in Conf!Fleets : Conf!Begin(f) \/ Conf!Rotate(f) BY <2>1, <1>3, <1>4
    <2>2. CASE \E f \in Conf!Fleets, n \in ConfEdited : Conf!SetRow(f, n) \/ Conf!DeleteRow(f, n)
      BY <2>2, <1>1, <1>2
    <2>3. Conf!Next \/ UNCHANGED confVars OBVIOUS
    <2> QED BY <2>1, <2>2, <2>3, <1>24, <1>25 DEF Conf!Next
  <1> QED BY <1>26 DEF Goal

(* The invariant says that secrets stay with their fleet. *)
LEMMA ConfVetted == ASSUME Conf!StateOK, Conf!SecretInv PROVE Conf!SecretsStayInFleet
  <1>1. ASSUME NEW f \in Conf!Fleets, NEW n \in Conf!Names
        PROVE  Conf!MintedFor(Conf!TenantEnv(f)[n]) = {} /\ Conf!TenantEnv(f)[n] \in Nat
    <2>1. dRows[f][n] \in Conf!Rows /\ dRows[f][n].val \in Nat BY DEF Conf!StateOK, Conf!Rows
    <2>2. dRows[f][n].src = "user" => Conf!MintedFor(dRows[f][n].val) = {} BY DEF Conf!SecretInv
    <2>3. Conf!TenantEnv(f)[n] = 0 \/ (dRows[f][n].src = "user" /\ Conf!TenantEnv(f)[n] = dRows[f][n].val)
      BY DEF Conf!TenantEnv
    <2> QED BY <2>1, <2>2, <2>3, ConfZeroL
  <1>2. ASSUME NEW f \in Conf!Fleets, NEW n \in Conf!Names
        PROVE  Conf!MintedFor(Conf!FleetEnv(f)[n]) = {}
    <2>1. "app" \in Conf!Fleets /\ "env" \in Conf!Fleets BY DEF Conf!Fleets
    <2>2. Conf!FleetEnv(f)[n] = Conf!TenantEnv("app")[n] \/ Conf!FleetEnv(f)[n] = Conf!TenantEnv("env")[n]
      BY DEF Conf!FleetEnv, Conf!Over
    <2> QED BY <2>1, <2>2, <1>1
  <1> QED BY <1>2 DEF Conf!SecretsStayInFleet, Conf!SecretInv

(* The secrets a deploy has still to mint, at each of its steps. *)
LEMMA ConfMintsL == \A pc : Conf!MintsLeft(pc) \in 0 .. 3
  BY DEF Conf!MintsLeft

(* In the first state no value is past those that were handed out. *)
LEMMA ConfValueInit == ASSUME Conf!Bounds, Conf!Init PROVE Conf!ValueInv
  <1>1. dDep.pc = "idle" /\ dDep.mine = 0 /\ dNext = 0 /\ dMinted = {}
    BY DEF Conf!Init, Conf!Idle
  <1>2. dLeft.edits = ConfMaxEdits /\ dLeft.deploys = ConfMaxDeploys BY DEF Conf!Init
  <1>3. \A f \in Conf!Fleets, n \in Conf!Names : dShip[f].proxy[n] = 0
    BY DEF Conf!Init, Conf!Shipped, Conf!NoValues
  <1>4. Conf!MintsLeft(dDep.pc) = 0 BY <1>1 DEF Conf!MintsLeft
  <1> QED BY <1>1, <1>2, <1>3, <1>4 DEF Conf!ValueInv, Conf!Bounds

(* No value is past those that were handed out, and enough are left for what may still be written. *)
LEMMA ConfValueStep ==
  ASSUME Conf!Bounds, Conf!StateOK, Conf!SecretInv, Conf!ValueInv, [Conf!Next]_confVars
  PROVE  Conf!ValueInv'
  <1> DEFINE Same == dLeft'.edits = dLeft.edits /\ dLeft'.deploys = dLeft.deploys
             M(pc) == Conf!MintsLeft(pc)
  <1>t. /\ dNext \in Nat /\ dDep \in Conf!Deploys /\ dDep.mine \in Nat /\ dDep.fleet \in Conf!Fleets
        /\ \A f \in Conf!Fleets, n \in Conf!Names : dShip[f].proxy[n] \in Nat
        /\ \A f \in Conf!Fleets, n \in Conf!Names : dRows[f][n].val \in Nat
    BY DEF Conf!StateOK, Conf!Deploys, Conf!Ships, Conf!Rows
  <1>i. /\ dLeft.edits \in Nat /\ dLeft.deploys \in Nat /\ ConfMaxEdits \in Nat
        /\ ConfMaxDeploys \in Nat
        /\ dNext + dLeft.edits + 3 * dLeft.deploys + M(dDep.pc) <= ConfMaxEdits + 3 * ConfMaxDeploys
        /\ dDep.mine <= dNext /\ \A f \in Conf!Fleets, n \in Conf!Names : dShip[f].proxy[n] <= dNext
        /\ \A p \in dMinted : p.fleet \in Conf!Fleets
    BY DEF Conf!ValueInv, Conf!Bounds
  <1>m. \A pc : M(pc) \in 0 .. 3 BY ConfMintsL
  <1>r. \A n \in Conf!Names : Conf!Row(n).val \in Nat /\ Conf!Row(n).val <= dNext
    BY <1>t DEF Conf!Row, Conf!SecretInv
  <1>d. Conf!Idle.mine = 0 /\ Conf!Idle.pc = "idle" BY DEF Conf!Idle
  <1>k. ASSUME dNext' = dNext, dMinted' = dMinted, dShip' = dShip, Same, dDep'.mine <= dNext,
               M(dDep'.pc) <= M(dDep.pc)
        PROVE  Conf!ValueInv'
    <2>1. dNext' + dLeft'.edits + 3 * dLeft'.deploys + M(dDep'.pc) <= ConfMaxEdits + 3 * ConfMaxDeploys
      BY <1>k, <1>i, <1>m, <1>t
    <2> QED BY <2>1, <1>k, <1>i DEF Conf!ValueInv
  <1>e. ASSUME dNext' = dNext, dMinted' = dMinted, dShip' = dShip, Same, dDep' = Conf!Idle
        PROVE  Conf!ValueInv'
    <2>1. M("idle") = 0 BY DEF Conf!MintsLeft
    <2> QED BY <1>e, <1>d, <2>1, <1>k, <1>m, <1>t
  <1>g. ASSUME NEW pc, Conf!Go(pc) PROVE dDep'.pc = pc /\ dDep'.mine = dDep.mine
    BY <1>g, <1>t DEF Conf!Go, Conf!Deploys
  <1>h. ASSUME NEW pc, Conf!Go(pc), dNext' = dNext, dMinted' = dMinted, dShip' = dShip, Same,
               M(pc) <= M(dDep.pc)
        PROVE  Conf!ValueInv'
    BY <1>h, <1>g, <1>k, <1>i
  <1>n. ASSUME NEW n \in Conf!Names, NEW src, Conf!Insert(n, src), NEW pc, Conf!Go(pc),
               UNCHANGED <<dShip, dLeft>>, 
               M(pc) + 1 <= M(dDep.pc)
        PROVE  Conf!ValueInv'
    <2>1. dNext' = dNext + 1 /\ dMinted' = dMinted \cup {[val |-> dNext + 1, fleet |-> dDep.fleet]}
      BY <1>n DEF Conf!Insert
    <2>2. dDep'.pc = pc /\ dDep'.mine = dDep.mine BY <1>n, <1>g
    <2>3. dNext' + dLeft'.edits + 3 * dLeft'.deploys + M(dDep'.pc) <= ConfMaxEdits + 3 * ConfMaxDeploys
      BY <1>n, <2>1, <2>2, <1>i, <1>m, <1>t
    <2>4. \A p \in dMinted' : p.fleet \in Conf!Fleets BY <2>1, <1>i, <1>t
    <2>5. dDep'.mine <= dNext' BY <2>1, <2>2, <1>i, <1>t
    <2>6. \A f \in Conf!Fleets, x \in Conf!Names : dShip'[f].proxy[x] <= dNext'
      BY <1>n, <2>1, <1>i, <1>t
    <2> QED BY <1>n, <2>3, <2>4, <2>5, <2>6, <1>i DEF Conf!ValueInv
  <1>x. Conf!Edit => dLeft'.edits = dLeft.edits - 1 /\ dLeft.edits > 0 /\ dLeft'.deploys = dLeft.deploys
    BY DEF Conf!Edit
  <1>z. ASSUME dLeft' = [dLeft EXCEPT !.faults = @ - 1] PROVE Same BY <1>z
  <1>y. ASSUME NEW f \in Conf!Fleets, dLeft'.edits = dLeft.edits - 1, dLeft.edits > 0,
               dLeft'.deploys = dLeft.deploys, 
               dNext' \in {dNext, dNext + 1}, UNCHANGED <<dDep, dShip>>,
               dMinted' \subseteq dMinted \cup {[val |-> dNext + 1, fleet |-> f]}
        PROVE  Conf!ValueInv'
    <2>1. dLeft'.edits \in Nat /\ dNext' \in Nat /\ dNext' >= dNext BY <1>y, <1>i, <1>t
    <2>2. dNext' + dLeft'.edits + 3 * dLeft'.deploys + M(dDep'.pc) <= ConfMaxEdits + 3 * ConfMaxDeploys
      BY <1>y, <1>i, <1>m, <1>t
    <2>3. dDep'.mine <= dNext' BY <1>y, <2>1, <1>i, <1>t
    <2>4. \A g \in Conf!Fleets, n \in Conf!Names : dShip'[g].proxy[n] <= dNext'
      BY <1>y, <2>1, <1>i, <1>t
    <2>5. \A p \in dMinted' : p.fleet \in Conf!Fleets BY <1>y, <1>i
    <2> QED BY <1>y, <2>1, <2>2, <2>3, <2>4, <2>5, <1>i DEF Conf!ValueInv
  <1> HIDE DEF M
  <1>1. ASSUME NEW f \in Conf!Fleets, Conf!Rotate(f) PROVE Conf!ValueInv'
    <2>1. Conf!Edit /\ dNext' = dNext + 1 /\ UNCHANGED <<dDep, dShip>>
          /\ dMinted' = dMinted \cup {[val |-> dNext + 1, fleet |-> f]}
      BY <1>1 DEF Conf!Rotate
    <2> QED BY <2>1, <1>x, <1>y
  <1>2. ASSUME NEW f \in Conf!Fleets, NEW n \in ConfEdited,
               Conf!SetRow(f, n) \/ Conf!DeleteRow(f, n)
        PROVE  Conf!ValueInv'
    <2>1. Conf!Edit /\ dNext' \in {dNext, dNext + 1} /\ UNCHANGED <<dDep, dShip, dMinted>>
      BY <1>2 DEF Conf!SetRow, Conf!DeleteRow
    <2> QED BY <2>1, <1>x, <1>y
  <1>3. ASSUME NEW f \in Conf!Fleets, Conf!Begin(f) PROVE Conf!ValueInv'
    <2>1. dDep'.pc = "build" /\ dDep'.mine = 0 BY <1>3 DEF Conf!Begin, Conf!Idle
    <2>2. dLeft'.edits = dLeft.edits /\ dLeft'.deploys = dLeft.deploys - 1 /\ dLeft.deploys > 0
          /\ UNCHANGED <<dNext, dMinted, dShip>>
      BY <1>3 DEF Conf!Begin
    <2>3. M("build") = 3 BY DEF M, Conf!MintsLeft
    <2>4. dNext' + dLeft'.edits + 3 * dLeft'.deploys + M(dDep'.pc) <= ConfMaxEdits + 3 * ConfMaxDeploys
      BY <2>1, <2>2, <2>3, <1>i, <1>m, <1>t
    <2>5. dLeft'.deploys \in Nat BY <2>2, <1>i
    <2> QED BY <2>1, <2>2, <2>4, <2>5, <1>i, <1>t DEF Conf!ValueInv, M
  <1>4. CASE Conf!Build
    <2>a. dLeft' = dLeft \/ dLeft' = [dLeft EXCEPT !.faults = @ - 1] BY <1>4 DEF Conf!Build
    <2>b. UNCHANGED <<dNext, dMinted, dShip>> BY <1>4 DEF Conf!Build
    <2>c. Same BY <2>a, <1>z
    <2>0. Same /\ UNCHANGED <<dNext, dMinted, dShip>> BY <2>b, <2>c
    <2>1. CASE Conf!Ends BY <2>0, <2>1, <1>e DEF Conf!Ends
    <2>2. CASE ~Conf!Ends
      <3>1. PICK tree \in Conf!Trees, built \in BOOLEAN :
                dDep' = [dDep EXCEPT !.pc = "root", !.tree = tree, !.built = built]
        BY <1>4, <2>2 DEF Conf!Build
      <3>2. dDep'.pc = "root" /\ dDep'.mine = dDep.mine BY <3>1, <1>t DEF Conf!Deploys
      <3>a. dDep.pc = "build" BY <1>4 DEF Conf!Build, Conf!At
      <3>3. M("root") <= M(dDep.pc) BY <3>a DEF M, Conf!MintsLeft
      <3> QED BY <2>0, <3>2, <3>3, <1>k, <1>i
    <2> QED BY <2>1, <2>2
  <1>5. CASE Conf!ChooseRoot
    <2>0. Same /\ UNCHANGED <<dNext, dMinted, dShip>> BY <1>5 DEF Conf!ChooseRoot
    <2>1. CASE Conf!Ends BY <2>0, <2>1, <1>e DEF Conf!Ends
    <2>2. CASE ~Conf!Ends
      <3>1. dDep'.pc = "release" /\ dDep'.mine = dDep.mine
        BY <1>5, <2>2, <1>t DEF Conf!ChooseRoot, Conf!Deploys
      <3>2. M("release") <= M(dDep.pc) BY <1>5 DEF Conf!ChooseRoot, Conf!At, M, Conf!MintsLeft
      <3> QED BY <2>0, <3>1, <3>2, <1>k, <1>i
    <2> QED BY <2>1, <2>2
  <1>6. CASE Conf!Release
    <2>0. Same /\ UNCHANGED <<dNext, dMinted, dShip>> BY <1>6 DEF Conf!Release
    <2>1. dDep'.pc = "back" /\ dDep'.mine = dDep.mine
      BY <1>6, <1>t DEF Conf!Release, Conf!Deploys
    <2>2. M("back") <= M(dDep.pc) BY <1>6 DEF Conf!Release, Conf!At, M, Conf!MintsLeft
    <2> QED BY <2>0, <2>1, <2>2, <1>k, <1>i
  <1>7. CASE Conf!TakeBack
    <2>0. Same /\ UNCHANGED <<dNext, dMinted, dShip>> BY <1>7 DEF Conf!TakeBack
    <2>1. CASE Conf!Ends BY <2>0, <2>1, <1>e DEF Conf!Ends
    <2>2. CASE ~Conf!Ends
      <3>1. dDep'.pc \in {"auth", "load"} /\ dDep'.mine = dDep.mine
        BY <1>7, <2>2, <1>t DEF Conf!TakeBack, Conf!Taken, Conf!Deploys
      <3>2. M(dDep'.pc) <= M(dDep.pc)
        BY <1>7, <3>1 DEF Conf!TakeBack, Conf!At, M, Conf!MintsLeft
      <3> QED BY <2>0, <3>1, <3>2, <1>k, <1>i
    <2> QED BY <2>1, <2>2
  <1>8. CASE Conf!AuthRead \/ Conf!AuthApp
    <2>0. Same /\ UNCHANGED <<dNext, dMinted, dShip>> BY <1>8 DEF Conf!AuthRead, Conf!AuthApp
    <2>1. PICK pc \in {"load", "authapp", "authmint"} : Conf!Go(pc)
      BY <1>8 DEF Conf!AuthRead, Conf!AuthApp
    <2>2. M(pc) <= M(dDep.pc)
      BY <1>8, <2>1 DEF Conf!AuthRead, Conf!AuthApp, Conf!At, M, Conf!MintsLeft
    <2> QED BY <2>0, <2>1, <2>2, <1>h
  <1>9. CASE Conf!AuthMint
    <2>1. Conf!Insert("AUTH", "auth") /\ Conf!Go("load") /\ UNCHANGED <<dShip, dLeft>>
      BY <1>9 DEF Conf!AuthMint
    <2>2. M("load") + 1 <= M(dDep.pc) BY <1>9 DEF Conf!AuthMint, Conf!At, M, Conf!MintsLeft
    <2> QED BY <2>1, <2>2, <1>n DEF Conf!Names
  <1>10. CASE Conf!Load \/ Conf!LoadOwn
    <2>0. Same /\ UNCHANGED <<dNext, dMinted, dShip>> BY <1>10 DEF Conf!Load, Conf!LoadOwn
    <2>1. dDep'.pc \in {"loadown", "check"} /\ dDep'.mine = dDep.mine
      BY <1>10, <1>t DEF Conf!Load, Conf!LoadOwn, Conf!Deploys
    <2>2. M(dDep'.pc) <= M(dDep.pc)
      BY <1>10, <2>1 DEF Conf!Load, Conf!LoadOwn, Conf!At, M, Conf!MintsLeft
    <2> QED BY <2>0, <2>1, <2>2, <1>k, <1>i
  <1>11. CASE Conf!CheckAndMerge
    <2>0. Same /\ UNCHANGED <<dNext, dMinted, dShip>> BY <1>11 DEF Conf!CheckAndMerge
    <2>1. CASE Conf!Ends BY <2>0, <2>1, <1>e DEF Conf!Ends
    <2>2. CASE ~Conf!Ends
      <3>1. PICK pc \in {"token", "plan"} : Conf!Go(pc) BY <1>11, <2>2 DEF Conf!CheckAndMerge
      <3>2. M(pc) <= M(dDep.pc)
        BY <1>11, <3>1 DEF Conf!CheckAndMerge, Conf!At, M, Conf!MintsLeft
      <3> QED BY <2>0, <3>1, <3>2, <1>h
    <2> QED BY <2>1, <2>2
  <1>12. CASE Conf!TokenRead \/ Conf!TokenReread
    <2>0. Same /\ UNCHANGED <<dNext, dMinted, dShip>>
      BY <1>12 DEF Conf!TokenRead, Conf!TokenReread
    <2>1. CASE Conf!Ends BY <2>0, <2>1, <1>e DEF Conf!Ends
    <2>2. CASE Conf!Go("tokenmint") /\ Conf!TokenRead
      <3>1. M("tokenmint") <= M(dDep.pc) BY <2>2 DEF Conf!TokenRead, Conf!At, M, Conf!MintsLeft
      <3> QED BY <2>0, <2>2, <3>1, <1>h
    <2>3. CASE dDep' = [dDep EXCEPT !.pc = "owned", !.token = Conf!Row("TOKEN").val]
      <3>1. dDep'.pc = "owned" /\ dDep'.mine = dDep.mine BY <2>3, <1>t DEF Conf!Deploys
      <3>2. M("owned") <= M(dDep.pc)
        BY <1>12 DEF Conf!TokenRead, Conf!TokenReread, Conf!At, M, Conf!MintsLeft
      <3> QED BY <2>0, <3>1, <3>2, <1>k, <1>i
    <2> QED BY <1>12, <2>1, <2>2, <2>3 DEF Conf!TokenRead, Conf!TokenReread
  <1>13. CASE Conf!TokenMint
    <2>1. Conf!Insert("TOKEN", "token") /\ Conf!Go("tokenread") /\ UNCHANGED <<dShip, dLeft>>
      BY <1>13 DEF Conf!TokenMint
    <2>2. M("tokenread") + 1 <= M(dDep.pc)
      BY <1>13 DEF Conf!TokenMint, Conf!At, M, Conf!MintsLeft
    <2> QED BY <2>1, <2>2, <1>n DEF Conf!Names
  <1>14. CASE Conf!MergeOwned
    <2>0. Same /\ UNCHANGED <<dNext, dMinted, dShip>> BY <1>14 DEF Conf!MergeOwned
    <2>1. CASE Conf!Ends BY <2>0, <2>1, <1>e DEF Conf!Ends
    <2>2. CASE ~Conf!Ends
      <3>1. PICK pc \in {"adm", "plan"} : Conf!Go(pc) BY <1>14, <2>2 DEF Conf!MergeOwned
      <3>2. M(pc) <= M(dDep.pc) BY <1>14, <3>1 DEF Conf!MergeOwned, Conf!At, M, Conf!MintsLeft
      <3> QED BY <2>0, <3>1, <3>2, <1>h
    <2> QED BY <2>1, <2>2
  <1>15. CASE Conf!AdmRead \/ Conf!AdmReread
    <2>0. Same /\ UNCHANGED <<dNext, dMinted, dShip>> BY <1>15 DEF Conf!AdmRead, Conf!AdmReread
    <2>1. CASE Conf!Ends BY <2>0, <2>1, <1>e DEF Conf!Ends
    <2>2. CASE Conf!Go("admmint") /\ Conf!AdmRead
      <3>1. M("admmint") <= M(dDep.pc) BY <2>2 DEF Conf!AdmRead, Conf!At, M, Conf!MintsLeft
      <3> QED BY <2>0, <2>2, <3>1, <1>h
    <2>3. CASE dDep' = [dDep EXCEPT !.pc = "plan", !.mine = Conf!Row("ADM").val]
      <3>1. dDep'.pc = "plan" /\ dDep'.mine = Conf!Row("ADM").val BY <2>3, <1>t DEF Conf!Deploys
      <3>2. M("plan") = 0 BY DEF M, Conf!MintsLeft
      <3>3. Conf!Row("ADM").val <= dNext BY <1>r DEF Conf!Names
      <3> QED BY <2>0, <3>1, <3>2, <3>3, <1>k, <1>m
    <2> QED BY <1>15, <2>1, <2>2, <2>3 DEF Conf!AdmRead, Conf!AdmReread
  <1>16. CASE Conf!AdmMint
    <2>1. Conf!Insert("ADM", "adm") /\ Conf!Go("admread") /\ UNCHANGED <<dShip, dLeft>>
      BY <1>16 DEF Conf!AdmMint
    <2>2. M("admread") + 1 <= M(dDep.pc) BY <1>16 DEF Conf!AdmMint, Conf!At, M, Conf!MintsLeft
    <2> QED BY <2>1, <2>2, <1>n DEF Conf!Names
  <1>17. ASSUME NEW pc \in {"plan", "context", "dockerfile", "vet"},
                NEW next \in {"context", "dockerfile", "vet", "ship"}, Conf!Refusable(pc, next)
         PROVE  Conf!ValueInv'
    <2>a. dLeft' = dLeft \/ dLeft' = [dLeft EXCEPT !.faults = @ - 1] BY <1>17 DEF Conf!Refusable
    <2>b. UNCHANGED <<dNext, dMinted, dShip>> BY <1>17 DEF Conf!Refusable
    <2>c. Same BY <2>a, <1>z
    <2>0. Same /\ UNCHANGED <<dNext, dMinted, dShip>> BY <2>b, <2>c
    <2>1. CASE Conf!Ends BY <2>0, <2>1, <1>e DEF Conf!Ends
    <2>2. CASE Conf!Go(next)
      <3>1. M(next) = 0 BY DEF M, Conf!MintsLeft
      <3> QED BY <2>0, <2>2, <3>1, <1>h, <1>m
    <2> QED BY <1>17, <2>1, <2>2 DEF Conf!Refusable
  <1>18. CASE Conf!Ship
    <2>1. dDep' = Conf!Idle /\ UNCHANGED <<dNext, dMinted, dLeft>>
      BY <1>18 DEF Conf!Ship, Conf!Ends
    <2>2. M("idle") = 0 BY DEF M, Conf!MintsLeft
    <2>3. dNext' + dLeft'.edits + 3 * dLeft'.deploys + M(dDep'.pc) <= ConfMaxEdits + 3 * ConfMaxDeploys
      BY <2>1, <2>2, <1>d, <1>i, <1>m, <1>t
    <2>4. ASSUME NEW f \in Conf!Fleets, NEW n \in Conf!Names PROVE dShip'[f].proxy[n] <= dNext
      <3>1. dShip' = [dShip EXCEPT ![dDep.fleet] = [done |-> TRUE, vars |-> Conf!AppVars, proxy |-> Conf!ProxyVars,
                       adm |-> dDep.mine, req |-> dDep.req, link |-> dDep.tree.link]]
        BY <1>18 DEF Conf!Ship
      <3>2. dShip \in [Conf!Fleets -> Conf!Ships] BY DEF Conf!StateOK
      <3>3. Conf!ProxyVars[n] <= dNext
        <4>1. dDep.token <= dNext /\ dDep.got[n] <= dNext BY DEF Conf!SecretInv
        <4>2. 0 <= dNext BY <1>t
        <4> QED BY <4>1, <4>2 DEF Conf!ProxyVars
      <3>4. dShip'[f].proxy = Conf!ProxyVars \/ dShip'[f] = dShip[f] BY <3>1, <3>2
      <3> QED BY <3>3, <3>4, <1>i
    <2>5. dDep'.mine <= dNext' BY <2>1, <1>d, <1>t
    <2> QED BY <2>1, <2>3, <2>4, <2>5, <1>i DEF Conf!ValueInv, M
  <1>19. CASE UNCHANGED confVars BY <1>19 DEF confVars, Conf!ValueInv
  <1> QED BY <1>1, <1>2, <1>3, <1>4, <1>5, <1>6, <1>7, <1>8, <1>9, <1>10, <1>11, <1>12, <1>13,
             <1>14, 
             <1>15, <1>16, <1>17, <1>18, <1>19
          DEF Conf!Next, Conf!DeployStep, Conf!PlanContainers, Conf!PrepareImage, Conf!CheckDockerfile, Conf!VetImages

(* The types of the settings follow from what their values keep. *)
LEMMA ConfTypes ==
  ASSUME Conf!Bounds, Conf!StateOK, Conf!SecretInv, Conf!ValueInv
  PROVE  Conf!TypeOK
  <1>1. dNext \in Nat /\ dLeft.edits \in Nat /\ dLeft.deploys \in Nat /\ ConfMaxEdits \in Nat /\
        ConfMaxDeploys \in Nat
        /\ dNext + dLeft.edits + 3 * dLeft.deploys + Conf!MintsLeft(dDep.pc) <= ConfMaxEdits + 3 * ConfMaxDeploys
        /\ Conf!MintsLeft(dDep.pc) \in 0 .. 3
    BY ConfMintsL DEF Conf!StateOK, Conf!ValueInv, Conf!Bounds
  <1>2. \A v \in Nat : v <= dNext => v \in Conf!Values BY <1>1 DEF Conf!Values
  <1>3. dNext \in Conf!Values BY <1>1, <1>2
  <1>4. dRows \in [Conf!Fleets -> [Conf!Names -> [val : Conf!Values, src : Conf!Sources]]]
    <2>1. \A f \in Conf!Fleets, n \in Conf!Names : dRows[f][n] \in [val : Conf!Values, src : Conf!Sources]
      <3> SUFFICES ASSUME NEW f \in Conf!Fleets, NEW n \in Conf!Names PROVE dRows[f][n] \in [val : Conf!Values, src : Conf!Sources]
        OBVIOUS
      <3>1. dRows[f][n] \in Conf!Rows BY DEF Conf!StateOK
      <3>2. dRows[f][n].val \in Conf!Values BY <3>1, <1>2 DEF Conf!SecretInv, Conf!Rows
      <3> QED BY <3>1, <3>2 DEF Conf!Rows
    <2> QED BY <2>1 DEF Conf!StateOK
  <1>5. \A p \in dMinted : p.val \in Conf!Values /\ p.fleet \in Conf!Fleets
    BY <1>1, <1>2 DEF Conf!SecretInv, Conf!ValueInv
  <1>6. dDep \in Conf!Deploys BY DEF Conf!StateOK
  <1>7. dDep.tree \in Conf!Trees /\ dDep.token \in Nat /\ dDep.mine \in Nat /\
        dDep.got \in [Conf!Names -> Nat]
    BY <1>6 DEF Conf!Deploys
  <1>8. dDep.token \in Conf!Values /\ dDep.mine \in Conf!Values
    BY <1>2, <1>7 DEF Conf!SecretInv, Conf!ValueInv
  <1>9. dDep.got \in [Conf!Names -> Conf!Values] BY <1>2, <1>7 DEF Conf!SecretInv
  <1>10. ASSUME NEW f \in Conf!Fleets
         PROVE  dShip[f].vars \in [Conf!Names -> Conf!Values] /\
                dShip[f].proxy \in [Conf!Names -> Conf!Values]
    <2>1. dShip[f].vars \in [Conf!Names -> Nat] /\ dShip[f].proxy \in [Conf!Names -> Nat]
      BY DEF Conf!StateOK, Conf!Ships
    <2>2. \A n \in Conf!Names : dShip[f].vars[n] <= dNext /\ dShip[f].proxy[n] <= dNext
      BY DEF Conf!SecretInv, Conf!ValueInv
    <2> QED BY <2>1, <2>2, <1>2
  <1> QED BY <1>3, <1>4, <1>5, <1>7, <1>8, <1>9, <1>10 DEF Conf!TypeOK

(* A step of the suite is a step of the deploy or leaves it alone. *)
LEMMA ConfNext == [Next]_allVars => [Conf!Next]_confVars
  BY DEF Next, allVars, VoidStep, ScanStep, GitStep, PrsStep, WebStep, ConfStep, MapsStep,
         ImpStep, BootStep, R2Step, D1Step, S3Step

(* The inductive invariant of the deploy's settings. *)
LEMMA ConfInductive == Spec => [](Conf!StateOK /\ Conf!VetInv /\ Conf!SecretInv)
  <1> DEFINE Inv == Conf!StateOK /\ Conf!VetInv /\ Conf!SecretInv
  <1>1. Init => Inv BY ConfInitL DEF Init
  <1>2. Inv /\ [Next]_allVars => Inv' BY ConfBounds, ConfNext, ConfSteps DEF Conf!Bounds
  <1> QED BY <1>1, <1>2, PTL DEF Spec

(* What celld is handed lies inside the worktree and has a value for every  *)
(* secret the built config required, though tenant code ran after the root  *)
(* was chosen and owners rewrote rows after the check (deploy.rs            *)
(* contained_deploy_root, worker_vars.rs check_required).                   *)
THEOREM DeploysShipVetted == Spec => []ShipsVetted
  <1>1. Conf!VetInv => ShipsVetted BY DEF ShipsVetted, Conf!VetInv
  <1> QED BY ConfInductive, <1>1, PTL

(* A secret minted for one fleet is neither shipped to the other nor put in  *)
(* a process env, and app and proxy of a deploy hold the one token           *)
(* (void_deploy.rs ensure_auth_secret, ensure_proxy_token; db/env.rs).       *)
THEOREM SecretsAreKept == Spec => []Conf!SecretsStayInFleet
  BY ConfInductive, ConfVetted, PTL

(* Settings and secrets keep their types. *)
LEMMA ConfTyped == Spec => []Conf!TypeOK
  <1> DEFINE Ok == Conf!StateOK /\ Conf!SecretInv
             Inv == Conf!ValueInv
  <1>1. Init => Inv BY ConfBounds, ConfValueInit DEF Init
  <1>2. Ok /\ Inv /\ [Next]_allVars => Inv'
    BY ConfBounds, ConfNext, ConfValueStep DEF Conf!vars, confVars
  <1>3. Ok /\ Inv => Conf!TypeOK BY ConfBounds, ConfTypes
  <1> QED BY <1>1, <1>2, <1>3, ConfInductive, PTL DEF Spec


-----------------------------------------------------------------------------
(* The object browser (R2Browser). *)
(* Both names of Cardinality mean the same. *)
LEMMA R2CardL == \A S : R2!Cardinality(S) = Cardinality(S)
  BY DEF R2!Cardinality, Cardinality

(* An entry is the key itself, or a folder above it that is one segment longer. *)
LEMMA R2RollL ==
  ASSUME NEW p \in Seq(STRING), NEW k \in Seq(STRING), R2!Below(p, k), NEW e,
         e = R2!Rolled(p, k)
  PROVE /\ e.path \in Seq(STRING) /\ Len(e.path) = Len(p) + 1 /\ Len(e.path) >= 1
        /\ \A i \in 1 .. Len(e.path) : i \in 1 .. Len(k) /\ e.path[i] = k[i]
        /\ e.file => e.path = k
        /\ ~e.file => R2!Below(e.path, k)
  <1> DEFINE n == Len(p) + 1
             q == SubSeq(k, 1, n)
  <1>1. e.path = q /\ (e.file <=> Len(k) = n) BY DEF R2!Rolled
  <1>2. Len(k) \in Nat /\ Len(p) \in Nat /\ Len(k) > Len(p) BY DEF R2!Below
  <1>3. n \in Nat /\ n >= 1 /\ n <= Len(k) BY <1>2
  <1> HIDE DEF n
  <1>4. q \in Seq(STRING) /\ Len(q) = n /\ \A i \in 1 .. n : q[i] = k[i] BY <1>2, <1>3
  <1>5. Len(k) = n => q = k BY <1>2, <1>3, <1>4
  <1>6. Len(k) # n => R2!Below(q, k)
    <2> SUFFICES ASSUME Len(k) # n PROVE R2!Below(q, k) OBVIOUS
    <2>1. Len(k) > Len(q) BY <1>2, <1>3, <1>4
    <2>2. SubSeq(q, 1, Len(q)) = SubSeq(k, 1, Len(q)) BY <1>2, <1>3, <1>4
    <2> HIDE DEF q
    <2> QED BY <1>2, <1>3, <1>4, <2>1, <2>2 DEF R2!Below, R2!IsPrefix
  <1>7. \A i \in 1 .. n : i \in 1 .. Len(k) BY <1>2, <1>3
  <1> HIDE DEF q
  <1> QED BY <1>1, <1>3, <1>4, <1>5, <1>6, <1>7 DEF n

(* An entry that stands for a key ends at a place of the store's order. *)
LEMMA R2EndL ==
  ASSUME R2!Bounds, NEW p, NEW k \in R2!Universe, R2!Below(p, k), NEW e, e = R2!Rolled(p, k)
  PROVE R2!EndOf(p, e) \in Nat /\ R2!EndOf(p, e) > 0 /\ R2!EndOf(p, e) <= Len(R2Keys)
  <1> DEFINE J == {i \in DOMAIN R2Keys : R2!Below(p, R2Keys[i]) /\ R2!Rolled(p, R2Keys[i]) = e}
  <1>1. Len(R2Keys) \in Nat /\ DOMAIN R2Keys = 1 .. Len(R2Keys) BY DEF R2!Bounds
  <1>2. PICK i \in DOMAIN R2Keys : k = R2Keys[i] BY DEF R2!Universe, R2!ToSet
  <1>3. i \in J /\ J \in SUBSET (0 .. Len(R2Keys)) BY <1>1, <1>2
  <1>4. PICK j \in J : \A x \in J : x <= j BY <1>1, <1>3, NatMax
  <1>5. /\ j \in DOMAIN R2Keys /\ R2!Below(p, R2Keys[j]) /\ R2!Rolled(p, R2Keys[j]) = e
        /\ \A x \in DOMAIN R2Keys : R2!Below(p, R2Keys[x]) /\ R2!Rolled(p, R2Keys[x]) = e => x <= j
    BY <1>4
  <1> HIDE DEF J
  <1>6. R2!EndOf(p, e) \in DOMAIN R2Keys BY <1>5 DEF R2!EndOf
  <1> QED BY <1>1, <1>6

(* What a page leaves out lies beyond its cursor, and it says that it is truncated. *)
LEMMA R2PageL ==
  ASSUME R2!Bounds, DOMAIN hObjects \subseteq R2!Universe, NEW p \in Seq(STRING), NEW c \in Nat, NEW pg, pg = R2!CelldPage(p, c)
  PROVE /\ pg.entries \subseteq R2!Entries(p, c) /\ pg.cursor \in Nat
        /\ \A e \in R2!Entries(p, c) : e \notin pg.entries => pg.truncated /\ R2!EndOf(p, e) > pg.cursor
  <1> DEFINE all == R2!Entries(p, c)
             U == {x \in DOMAIN hObjects : R2!Below(p, x)}
             B(e) == {f \in all : R2!EndOf(p, f) < R2!EndOf(p, e)}
             page == {e \in all : Cardinality(B(e)) < R2PageLimit}
             C == {0} \cup {R2!EndOf(p, e) : e \in page}
  <1>1. /\ pg.entries = page /\ pg.truncated = (page # all)
        /\ pg.cursor = CHOOSE i \in C : \A e \in page : R2!EndOf(p, e) <= i
    BY R2CardL DEF R2!CelldPage
  <1>2. ASSUME NEW e \in all
        PROVE  R2!EndOf(p, e) \in Nat /\ R2!EndOf(p, e) > 0 /\ R2!EndOf(p, e) <= Len(R2Keys)
    <2>1. PICK k \in U : e = R2!Rolled(p, k) BY DEF R2!Entries
    <2> QED BY <2>1, R2EndL
  <1>3. IsFiniteSet(all)
    <2> DEFINE D == {i \in DOMAIN R2Keys : R2Keys[i] \in U}
               R == {R2!Rolled(p, R2Keys[i]) : i \in D}
               f == [i \in D |-> R2!Rolled(p, R2Keys[i])]
    <2>1. Len(R2Keys) \in Nat /\ DOMAIN R2Keys = 1 .. Len(R2Keys) BY DEF R2!Bounds
    <2>2. IsFiniteSet(1 .. Len(R2Keys)) BY <2>1, FS_Interval
    <2>3. IsFiniteSet(D) BY <2>1, <2>2, FS_Subset
    <2>4. f \in Surjection(D, R) BY DEF Surjection
    <2>5. IsFiniteSet(R) BY <2>3, <2>4, FS_Surjection
    <2>6. all \subseteq R
      <3> SUFFICES ASSUME NEW e \in all PROVE e \in R OBVIOUS
      <3>1. PICK k \in U : e = R2!Rolled(p, k) BY DEF R2!Entries
      <3>2. PICK i \in DOMAIN R2Keys : k = R2Keys[i] BY DEF R2!Universe, R2!ToSet
      <3> QED BY <3>1, <3>2
    <2> QED BY <2>5, <2>6, FS_Subset
  <1> HIDE DEF all
  <1>4. \A e : IsFiniteSet(B(e)) /\ Cardinality(B(e)) \in Nat
    <2> TAKE e
    <2>1. B(e) \in SUBSET all OBVIOUS
    <2>2. IsFiniteSet(B(e)) BY <1>3, <2>1, FS_Subset
    <2> QED BY <2>2, FS_CardinalityType
  <1>5. pg.cursor \in C /\ pg.cursor \in Nat
    <2>1. Len(R2Keys) \in Nat BY DEF R2!Bounds
    <2>2. \A e \in page : R2!EndOf(p, e) \in 0 .. Len(R2Keys) BY <1>2, <2>1
    <2>a. 0 \in C /\ 0 \in 0 .. Len(R2Keys) BY <2>1
    <2>b. ASSUME NEW x \in C PROVE x \in 0 .. Len(R2Keys) BY <2>a, <2>2
    <2>3. C \in SUBSET (0 .. Len(R2Keys)) /\ C # {} BY <2>a, <2>b
    <2>4. PICK j \in C : \A x \in C : x <= j BY <2>1, <2>3, NatMax
    <2>5. \A e \in page : R2!EndOf(p, e) <= j BY <2>4
    <2>6. pg.cursor \in C BY <1>1, <2>5
    <2>7. pg.cursor \in 0 .. Len(R2Keys) BY <2>b, <2>6
    <2>8. pg.cursor \in Nat BY <2>1, <2>7
    <2> QED BY <2>6, <2>8
  <1>6. ASSUME NEW e \in all, e \notin page PROVE pg.truncated /\ R2!EndOf(p, e) > pg.cursor
    <2>1. pg.truncated BY <1>1, <1>6
    <2>2. R2!EndOf(p, e) \in Nat /\ R2!EndOf(p, e) > 0 BY <1>2
    <2>3. ASSUME NEW g \in page PROVE R2!EndOf(p, g) < R2!EndOf(p, e)
      <3>1. SUFFICES ASSUME ~(R2!EndOf(p, g) < R2!EndOf(p, e)) PROVE FALSE OBVIOUS
      <3>2. g \in all /\ Cardinality(B(g)) < R2PageLimit /\ ~(Cardinality(B(e)) < R2PageLimit)
        BY <1>6
      <3>3. R2!EndOf(p, g) \in Nat BY <1>2, <3>2
      <3>4. \A f \in all : R2!EndOf(p, f) \in Nat BY <1>2
      <3>5. B(e) \in SUBSET B(g) BY <2>2, <3>1, <3>3, <3>4
      <3> HIDE DEF B
      <3>6. Cardinality(B(e)) <= Cardinality(B(g)) BY <1>4, <3>5, FS_Subset
      <3> QED BY <1>4, <3>2, <3>6 DEF R2!Bounds
    <2> QED BY <1>5, <2>1, <2>2, <2>3
  <1> QED BY <1>1, <1>5, <1>6 DEF all

(* Initially the bucket is empty and nobody walks. *)
LEMMA R2InitL == ASSUME R2!Init PROVE R2!StateOK /\ R2!WalkInv
  <1>1. hWalk = [step |-> "none", todo |-> {}, seen |-> {}] /\ hObjects = << >> /\ hSteady = {} /\
        hSpool = R2!None
    BY DEF R2!Init
  <1>2. DOMAIN hObjects = {} BY <1>1
  <1>3. hSpool.step # "spooled" BY <1>1 DEF R2!None
  <1>4. hWalk \in [step : {"none", "walking"}, todo : SUBSET R2!Items, seen : SUBSET Seq(STRING)]
    BY <1>1
  <1>5. hWalk.step # "walking" BY <1>1
  <1> QED BY <1>1, <1>2, <1>3, <1>4, <1>5 DEF R2!StateOK, R2!WalkInv

(* Every step keeps the invariant. *)
LEMMA R2Steps ==
  ASSUME R2!Bounds, R2!StateOK, R2!WalkInv, R2!Next
  PROVE  R2!StateOK' /\ R2!WalkInv'
  <1> DEFINE Walks == [step : {"none", "walking"}, todo : SUBSET R2!Items, seen : SUBSET Seq(STRING)]
             M(objects, steady) == DOMAIN objects \subseteq R2!Universe /\
                                   steady \subseteq DOMAIN objects
             W(walk) == walk \in Walks
             P(spool) == spool.step = "spooled" => spool.key \in R2!Universe
             Reach(walk, k) == k \in walk.seen \/ \E item \in walk.todo : R2!Ahead(item, k)
             N(walk, steady) == walk.step = "walking" => \A k \in steady : R2!KeyOk(k) /\ ~R2!Marker(k) => Reach(walk, k)
             Inv == R2!StateOK' /\ R2!WalkInv'
  <1>t. M(hObjects, hSteady) /\ W(hWalk) /\ P(hSpool) /\ N(hWalk, hSteady)
    BY DEF R2!StateOK, R2!WalkInv
  <1>q. ASSUME M(hObjects', hSteady'), W(hWalk'), P(hSpool'), N(hWalk', hSteady')
        PROVE  Inv BY <1>q DEF R2!StateOK, R2!WalkInv
  <1>k. \A k \in R2!Universe : k \in Seq(STRING) BY DEF R2!Universe, R2!ToSet, R2!Bounds
  <1>n. P(R2!None) BY DEF R2!None
  <1> HIDE DEF Inv
  <1>u. ASSUME NEW k \in R2!Universe, NEW rec, R2!Put(k, rec), hSteady' = hSteady
        PROVE  M(hObjects', hSteady')
    BY <1>u, <1>t DEF R2!Put
  <1>r. ASSUME NEW ks, R2!Removed(ks) PROVE M(hObjects', hSteady') /\ hSteady' \subseteq hSteady
    BY <1>r, <1>t DEF R2!Removed, R2!Restrict
  <1>v. ASSUME hWalk' = hWalk, hSteady' \subseteq hSteady
        PROVE  W(hWalk') /\ N(hWalk', hSteady') BY <1>v, <1>t
  <1>1. ASSUME NEW k \in R2!Universe, NEW rec \in R2!Records, R2!WorkerPut(k, rec) PROVE Inv
    <2>1. M(hObjects', hSteady') BY <1>1, <1>u DEF R2!WorkerPut
    <2>2. hWalk' = hWalk /\ hSteady' = hSteady /\ hSpool' = hSpool BY <1>1 DEF R2!WorkerPut
    <2>3. W(hWalk') /\ N(hWalk', hSteady') BY <2>2, <1>v
    <2>4. P(hSpool') BY <2>2, <1>t
    <2> QED BY <2>1, <2>3, <2>4, <1>q
  <1>2. ASSUME NEW k \in R2!Universe, NEW rec \in R2!Records, R2!Spool(k, rec) PROVE Inv
    <2>1. hWalk' = hWalk /\ hSteady' = hSteady /\ hObjects' = hObjects BY <1>2 DEF R2!Spool
    <2>2. hSpool' = [step |-> "spooled", key |-> k, rec |-> rec] BY <1>2 DEF R2!Spool
    <2>3. P(hSpool') BY <2>2
    <2>4. W(hWalk') /\ N(hWalk', hSteady') BY <2>1, <1>v
    <2> QED BY <2>1, <2>3, <2>4, <1>t, <1>q
  <1>3. ASSUME NEW ks, R2!Removed(ks), hWalk' = hWalk, hSpool' = hSpool PROVE Inv
    <2>1. M(hObjects', hSteady') /\ hSteady' \subseteq hSteady BY <1>3, <1>r
    <2>2. W(hWalk') /\ N(hWalk', hSteady') BY <1>3, <2>1, <1>v
    <2>3. P(hSpool') BY <1>3, <1>t
    <2> QED BY <2>1, <2>2, <2>3, <1>q
  <1>4. ASSUME R2!Open PROVE Inv
    <2> DEFINE it == [prefix |-> << >>, cursor |-> 0]
    <2>1. hWalk' = [step |-> "walking", todo |-> {it}, seen |-> {}] /\ hSteady' = DOMAIN hObjects /\
          hObjects' = hObjects /\ hSpool' = hSpool
      BY <1>4 DEF R2!Open
    <2>2. it \in R2!Items /\ it.prefix = << >> /\ it.cursor = 0 BY DEF R2!Items
    <2> HIDE DEF it
    <2>3. W(hWalk') /\ hWalk'.todo = {it} BY <2>1, <2>2
    <2>4. M(hObjects', hSteady') /\ P(hSpool') BY <2>1, <1>t
    <2>5. ASSUME NEW k \in hSteady', R2!KeyOk(k) PROVE R2!Ahead(it, k)
      <3>1. k \in R2!Universe /\ k \in Seq(STRING) BY <2>1, <1>t, <1>k
      <3>2. k # << >> BY <2>5 DEF R2!KeyOk
      <3>3. Len(k) \in Nat /\ Len(k) > 0 BY <3>1, <3>2
      <3>4. R2!Below(<< >>, k) BY <3>1, <3>3 DEF R2!Below, R2!IsPrefix
      <3>5. R2!EndOf(<< >>, R2!Rolled(<< >>, k)) > 0 BY <3>1, <3>4, R2EndL
      <3> QED BY <2>2, <3>4, <3>5 DEF R2!Ahead, R2!PrefixOk
    <2>6. N(hWalk', hSteady') BY <2>3, <2>5
    <2> QED BY <2>3, <2>4, <2>6, <1>q
  <1>5. ASSUME NEW item \in hWalk.todo, R2!List(item) PROVE Inv
    <2>1. hSteady' = hSteady /\ hObjects' = hObjects /\ hSpool' = hSpool BY <1>5 DEF R2!List
    <2>2. M(hObjects', hSteady') /\ P(hSpool') BY <2>1, <1>t
    <2>3. item \in R2!Items /\ hWalk \in Walks /\ hWalk.todo \in SUBSET R2!Items /\
          hWalk.seen \in SUBSET Seq(STRING)
      BY <1>t
    <2>4. CASE ~R2!PrefixOk(item.prefix)
      <3> DEFINE td == hWalk.todo \ {item}
      <3>1. hWalk' = [hWalk EXCEPT !.todo = td] BY <1>5, <2>4 DEF R2!List
      <3>2. td \in SUBSET R2!Items BY <2>3
      <3>3. \A x : x \in td <=> x \in hWalk.todo /\ x # item OBVIOUS
      <3> HIDE DEF td
      <3>4. W(hWalk') /\ hWalk'.todo = td /\ hWalk'.seen = hWalk.seen /\ hWalk'.step = hWalk.step
        BY <2>3, <3>1, <3>2
      <3>5. \A k : ~R2!Ahead(item, k) BY <2>4 DEF R2!Ahead
      <3>6. N(hWalk', hSteady') BY <2>1, <3>3, <3>4, <3>5, <1>t
      <3> QED BY <2>2, <3>4, <3>6, <1>q
    <2>5. CASE R2!PrefixOk(item.prefix)
      <3> DEFINE p == item.prefix
                 pg == R2!CelldPage(p, item.cursor)
                 shown == R2!ShownRows(pg)
                 folders == {[prefix |-> e.path, cursor |-> 0] : e \in {x \in shown : ~x.file}}
                 more == {[prefix |-> p, cursor |-> c] : c \in R2!NextCursor(pg, shown)}
                 td == (hWalk.todo \ {item}) \cup folders \cup more
                 files == {e.path : e \in {x \in shown : x.file}}
                 sn == hWalk.seen \cup files
      <3>1. hWalk' = [hWalk EXCEPT !.todo = td, !.seen = sn] BY <1>5, <2>5 DEF R2!List
      <3>2. p \in Seq(STRING) /\ item.cursor \in Nat BY <2>3 DEF R2!Items
      <3>3. /\ pg.entries \subseteq R2!Entries(p, item.cursor) /\ pg.cursor \in Nat
            /\ \A e \in R2!Entries(p, item.cursor) : e \notin pg.entries => pg.truncated /\ R2!EndOf(p, e) > pg.cursor
        BY <3>2, <1>t, R2PageL
      <3>4. \A e : e \in shown <=> e \in pg.entries /\ ~(e.file /\ R2!Marker(e.path))
        BY DEF R2!ShownRows
      <3>5. R2!NextCursor(pg, shown) = IF pg.truncated THEN {pg.cursor} ELSE {}
        BY DEF R2!NextCursor
      <3> HIDE DEF pg, shown
      <3>6. ASSUME NEW e \in shown PROVE e.path \in Seq(STRING)
        <4>1. e \in R2!Entries(p, item.cursor) BY <3>3, <3>4
        <4>2. PICK k \in DOMAIN hObjects : R2!Below(p, k) /\ e = R2!Rolled(p, k)
          BY <4>1 DEF R2!Entries
        <4>3. k \in Seq(STRING) BY <1>t, <1>k
        <4> QED BY <3>2, <4>2, <4>3, R2RollL
      <3>7. folders \in SUBSET R2!Items
        <4> SUFFICES ASSUME NEW f \in folders PROVE f \in R2!Items OBVIOUS
        <4>1. PICK e \in shown : f = [prefix |-> e.path, cursor |-> 0] OBVIOUS
        <4>2. e.path \in Seq(STRING) BY <3>6
        <4> QED BY <4>1, <4>2 DEF R2!Items
      <3>8. more \in SUBSET R2!Items
        <4> SUFFICES ASSUME NEW f \in more PROVE f \in R2!Items OBVIOUS
        <4>1. PICK c \in R2!NextCursor(pg, shown) : f = [prefix |-> p, cursor |-> c] OBVIOUS
        <4>2. c \in Nat BY <3>3, <3>5
        <4> QED BY <3>2, <4>1, <4>2 DEF R2!Items
      <3>9. files \in SUBSET Seq(STRING) BY <3>6
      <3>10. td \in SUBSET R2!Items /\ sn \in SUBSET Seq(STRING) BY <2>3, <3>7, <3>8, <3>9
      <3>11. /\ \A x \in hWalk.todo : x # item => x \in td
             /\ hWalk.seen \subseteq sn /\ files \subseteq sn /\ folders \subseteq td
             /\ more \subseteq td
        OBVIOUS
      <3>12. \A e \in shown : (e.file => e.path \in files) /\ (~e.file => [prefix |-> e.path, cursor |-> 0] \in folders) OBVIOUS
      <3>13. pg.truncated => [prefix |-> p, cursor |-> pg.cursor] \in more BY <3>5
      <3> HIDE DEF td, sn, files, folders, more
      <3>14. W(hWalk') /\ hWalk'.todo = td /\ hWalk'.seen = sn /\ hWalk'.step = hWalk.step
        BY <2>3, <3>1, <3>10
      <3>15. ASSUME NEW k \in hSteady, R2!KeyOk(k), ~R2!Marker(k), R2!Ahead(item, k)
             PROVE  Reach(hWalk', k)
        <4> DEFINE e == R2!Rolled(p, k)
        <4>1. k \in R2!Universe /\ k \in DOMAIN hObjects /\ k \in Seq(STRING) BY <1>t, <1>k
        <4>2. R2!Below(p, k) /\ R2!EndOf(p, e) > item.cursor BY <3>15 DEF R2!Ahead
        <4>3. e \in R2!Entries(p, item.cursor) BY <4>1, <4>2 DEF R2!Entries
        <4>4. /\ e.path \in Seq(STRING) /\ Len(e.path) >= 1
              /\ \A i \in 1 .. Len(e.path) : i \in 1 .. Len(k) /\ e.path[i] = k[i]
              /\ e.file => e.path = k
              /\ ~e.file => R2!Below(e.path, k)
          BY <3>2, <4>1, <4>2, R2RollL
        <4> HIDE DEF e
        <4>5. CASE e \in pg.entries /\ e.file
          <5>1. e \in shown /\ e.path = k BY <3>4, <3>15, <4>4, <4>5
          <5>2. k \in sn BY <3>11, <3>12, <4>5, <5>1
          <5> QED BY <3>14, <5>2
        <4>6. CASE e \in pg.entries /\ ~e.file
          <5> DEFINE f == [prefix |-> e.path, cursor |-> 0]
          <5>1. e \in shown BY <3>4, <4>6
          <5>2. f \in td BY <3>11, <3>12, <4>6, <5>1
          <5>3. f.prefix = e.path /\ f.cursor = 0 OBVIOUS
          <5> HIDE DEF f
          <5>4. R2!KeyOk(e.path)
            <6>1. DOMAIN e.path = 1 .. Len(e.path) /\ DOMAIN k = 1 .. Len(k) /\ Len(e.path) \in Nat
              BY <4>1, <4>4
            <6>2. 1 \in 1 .. Len(e.path) BY <4>4, <6>1
            <6>3. e.path # << >> BY <4>4
            <6> QED BY <3>15, <4>4, <6>1, <6>2, <6>3 DEF R2!KeyOk
          <5>5. R2!Below(e.path, k) BY <4>4, <4>6
          <5>6. R2!EndOf(e.path, R2!Rolled(e.path, k)) > 0 BY <4>1, <5>5, R2EndL
          <5>7. R2!Ahead(f, k) BY <5>3, <5>4, <5>5, <5>6 DEF R2!Ahead, R2!PrefixOk
          <5> QED BY <3>14, <5>2, <5>7
        <4>7. CASE e \notin pg.entries
          <5> DEFINE f == [prefix |-> p, cursor |-> pg.cursor]
          <5>1. pg.truncated /\ R2!EndOf(p, e) > pg.cursor BY <3>3, <4>3, <4>7
          <5>2. f \in td BY <3>11, <3>13, <5>1
          <5>3. f.prefix = p /\ f.cursor = pg.cursor OBVIOUS
          <5> HIDE DEF f
          <5>4. R2!Ahead(f, k) BY <2>5, <4>2, <5>1, <5>3 DEF R2!Ahead, e
          <5> QED BY <3>14, <5>2, <5>4
        <4> QED BY <4>5, <4>6, <4>7
      <3>16. ASSUME NEW k \in hSteady, R2!KeyOk(k), ~R2!Marker(k), hWalk.step = "walking"
             PROVE  Reach(hWalk', k)
        <4>1. k \in hWalk.seen \/ \E x \in hWalk.todo : R2!Ahead(x, k) BY <3>16, <1>t
        <4>2. CASE k \in hWalk.seen BY <3>11, <3>14, <4>2
        <4>3. CASE \E x \in hWalk.todo : R2!Ahead(x, k)
          <5>1. PICK x \in hWalk.todo : R2!Ahead(x, k) BY <4>3
          <5>2. CASE x = item BY <3>15, <3>16, <5>1, <5>2
          <5>3. CASE x # item BY <3>11, <3>14, <5>1, <5>3
          <5> QED BY <5>2, <5>3
        <4> QED BY <4>1, <4>2, <4>3
      <3>17. N(hWalk', hSteady') BY <2>1, <3>14, <3>16
      <3> QED BY <2>2, <3>14, <3>17, <1>q
    <2> QED BY <2>4, <2>5
  <1>6. ASSUME R2!SpoolRefused PROVE Inv
    <2>1. hWalk' = hWalk /\ hSteady' = hSteady /\ hObjects' = hObjects /\ hSpool' = R2!None
      BY <1>6 DEF R2!SpoolRefused
    <2>2. W(hWalk') /\ N(hWalk', hSteady') BY <2>1, <1>v
    <2>3. P(hSpool') BY <2>1, <1>n
    <2> QED BY <2>1, <2>2, <2>3, <1>t, <1>q
  <1>7. ASSUME R2!UploadPut PROVE Inv
    <2>1. hWalk' = hWalk /\ hSteady' = hSteady /\ hSpool' = R2!None /\ R2!Put(hSpool.key, hSpool.rec) /\
          hSpool.step = "spooled"
      BY <1>7 DEF R2!UploadPut
    <2>2. hSpool.key \in R2!Universe BY <2>1, <1>t
    <2>3. M(hObjects', hSteady') BY <2>1, <2>2, <1>u
    <2>4. W(hWalk') /\ N(hWalk', hSteady') BY <2>1, <1>v
    <2>5. P(hSpool') BY <2>1, <1>n
    <2> QED BY <2>3, <2>4, <2>5, <1>q
  <1>8. ASSUME UNCHANGED <<hObjects, hWalk, hSteady, hSpool>> PROVE Inv
    <2>1. W(hWalk') /\ N(hWalk', hSteady') BY <1>8, <1>v
    <2>2. M(hObjects', hSteady') /\ P(hSpool') BY <1>8, <1>t
    <2> QED BY <2>1, <2>2, <1>q
  <1>9. ASSUME NEW k \in R2!Universe, R2!WorkerDelete(k)
        PROVE  Inv BY <1>9, <1>3 DEF R2!WorkerDelete
  <1>10. ASSUME NEW ks, R2!DeleteMany(ks) PROVE Inv BY <1>10, <1>3 DEF R2!DeleteMany
  <1>11. ASSUME NEW k, NEW raw, R2!HeadObject(k, raw) PROVE Inv BY <1>11, <1>8 DEF R2!HeadObject
  <1>12. ASSUME R2!GetObject PROVE Inv BY <1>12, <1>8 DEF R2!GetObject
  <1>13. Inv BY <1>1, <1>2, <1>4, <1>5, <1>6, <1>7, <1>9, <1>10, <1>11, <1>12 DEF R2!Next
  <1> QED BY <1>13 DEF Inv

(* A step that leaves the browser alone keeps the invariant. *)
LEMMA R2Stutter ==
  ASSUME R2!StateOK, R2!WalkInv, UNCHANGED r2Vars
  PROVE  R2!StateOK' /\ R2!WalkInv'
  BY DEF R2!StateOK, R2!WalkInv, r2Vars

(* The first state of the object browser has its types. *)
LEMMA R2TypeInit == ASSUME R2!Init PROVE R2!TypeOK /\ R2!SpoolInv
  <1>1. DOMAIN hObjects = {} /\ hSteady = {} /\ hWalk.step = "none" /\ hSpool = R2!None /\
        hRead = R2!None
    BY DEF R2!Init
  <1>2. R2!None.step = "none" BY DEF R2!None
  <1> QED BY <1>1, <1>2 DEF R2!TypeOK, R2!SpoolInv

(* A step of the object browser keeps its types. *)
LEMMA R2TypeStep ==
  ASSUME R2!StateOK, R2!StateOK', R2!TypeOK, R2!SpoolInv, [R2!Next]_r2Vars
  PROVE  R2!TypeOK' /\ R2!SpoolInv'
  <1> DEFINE Spools == {R2!None} \cup [step : {"spooled"}, key : R2!Universe, rec : R2!Records]
             O(objects) == \A k \in DOMAIN objects : objects[k] \in R2!Records
             P(spool) == spool \in Spools
             R(read) == read.step \in {"none", "headed", "served"}
  <1>n. R2!None.step = "none" BY DEF R2!None
  <1>t. O(hObjects) /\ P(hSpool) /\ R(hRead) BY DEF R2!TypeOK, R2!SpoolInv
  <1>q. ASSUME O(hObjects'), P(hSpool'), R(hRead') PROVE R2!TypeOK' /\ R2!SpoolInv'
    <2>1. DOMAIN hObjects' \subseteq R2!Universe /\ hSteady' \subseteq DOMAIN hObjects'
      BY DEF R2!StateOK
    <2>2. hWalk'.step \in {"none", "walking"} BY DEF R2!StateOK
    <2>3. hSpool'.step \in {"none", "spooled"} BY <1>q, <1>n
    <2> QED BY <1>q, <2>1, <2>2, <2>3 DEF R2!TypeOK, R2!SpoolInv
  <1> HIDE DEF O, P, R
  <1>p. ASSUME NEW k, NEW rec \in R2!Records, R2!Put(k, rec)
        PROVE  O(hObjects') BY <1>p, <1>t DEF R2!Put, O
  <1>r. ASSUME NEW ks, R2!Removed(ks)
        PROVE  O(hObjects') BY <1>r, <1>t DEF R2!Removed, R2!Restrict, O
  <1>1. CASE \E k \in R2!Universe, rec \in R2!Records : R2!WorkerPut(k, rec)
    BY <1>1, <1>p, <1>t, <1>q DEF R2!WorkerPut
  <1>2. CASE \E k \in R2!Universe, rec \in R2!Records : R2!Spool(k, rec)
    <2>1. PICK k \in R2!Universe, rec \in R2!Records : R2!Spool(k, rec) BY <1>2
    <2>2. hSpool' = [step |-> "spooled", key |-> k, rec |-> rec] /\ UNCHANGED <<hObjects, hRead>>
      BY <2>1 DEF R2!Spool
    <2>3. P(hSpool') BY <2>2 DEF P
    <2> QED BY <2>2, <2>3, <1>t, <1>q
  <1>3. CASE \E k \in R2!Universe : R2!WorkerDelete(k)
    BY <1>3, <1>r, <1>t, <1>q DEF R2!WorkerDelete
  <1>4. CASE R2!Open BY <1>4, <1>t, <1>q DEF R2!Open
  <1>5. CASE \E item \in hWalk.todo : R2!List(item) BY <1>5, <1>t, <1>q DEF R2!List
  <1>6. CASE R2!SpoolRefused
    <2>1. hSpool' = R2!None /\ UNCHANGED <<hObjects, hRead>> BY <1>6 DEF R2!SpoolRefused
    <2>2. P(hSpool') BY <2>1 DEF P
    <2> QED BY <2>1, <2>2, <1>t, <1>q
  <1>7. CASE R2!UploadPut
    <2>1. hSpool' = R2!None /\ UNCHANGED hRead /\ hSpool.step = "spooled" /\
          R2!Put(hSpool.key, hSpool.rec)
      BY <1>7 DEF R2!UploadPut
    <2>2. P(hSpool') BY <2>1 DEF P
    <2>3. hSpool.rec \in R2!Records BY <2>1, <1>t, <1>n DEF P
    <2>4. O(hObjects') BY <2>1, <2>3, <1>p
    <2> QED BY <2>1, <2>2, <2>4, <1>t, <1>q
  <1>8. CASE \E ks \in SUBSET DOMAIN hObjects \ {{}} : R2!DeleteMany(ks)
    BY <1>8, <1>r, <1>t, <1>q DEF R2!DeleteMany
  <1>9. CASE \E k \in R2!Universe, raw \in BOOLEAN : R2!HeadObject(k, raw)
    <2>1. UNCHANGED <<hObjects, hSpool>> BY <1>9 DEF R2!HeadObject
    <2>2. hRead'.step \in {"none", "headed"} BY <1>9, <1>n DEF R2!HeadObject
    <2> QED BY <2>1, <2>2, <1>t, <1>q DEF R
  <1>10. CASE R2!GetObject
    <2>1. UNCHANGED <<hObjects, hSpool>> BY <1>10 DEF R2!GetObject
    <2>2. hRead'.step \in {"none", "served"} BY <1>10, <1>n DEF R2!GetObject
    <2> QED BY <2>1, <2>2, <1>t, <1>q DEF R
  <1>11. CASE UNCHANGED r2Vars BY <1>11, <1>t, <1>q DEF r2Vars
  <1> QED BY <1>1, <1>2, <1>3, <1>4, <1>5, <1>6, <1>7, <1>8, <1>9, <1>10, <1>11 DEF R2!Next

(* A step of the suite is a step of the browser, or leaves it alone. *)
LEMMA R2Next == [Next]_allVars => [R2!Next]_r2Vars
  BY DEF Next, allVars, VoidStep, ScanStep, GitStep, PrsStep, WebStep, ConfStep, MapsStep,
         ImpStep, BootStep, R2Step, D1Step, S3Step

(* What a walk keeps: a key that stayed has been seen, or a page still to be *)
(* opened will show it or the folder it is in.                               *)
LEMMA R2Inductive == Spec => [](R2!StateOK /\ R2!WalkInv)
  <1> DEFINE Inv == R2!StateOK /\ R2!WalkInv
  <1>1. Init => Inv BY R2InitL DEF Init
  <1>2. Inv /\ [Next]_allVars => Inv'
    <2>1. Inv /\ R2!Next => Inv' BY R2Bounds, R2Steps
    <2>2. Inv /\ UNCHANGED r2Vars => Inv' BY R2Stutter
    <2> QED BY <2>1, <2>2, R2Next
  <1> QED BY <1>1, <1>2, PTL DEF Spec

(* The object browser keeps its types. *)
LEMMA R2Typed == Spec => []R2!TypeOK
  <1> DEFINE Ok == R2!StateOK
             Inv == R2!TypeOK /\ R2!SpoolInv
  <1>1. Init => Inv BY R2TypeInit DEF Init
  <1>2. Ok /\ Ok' /\ Inv /\ [Next]_allVars => Inv' BY R2Next, R2TypeStep DEF R2!vars, r2Vars
  <1> QED BY <1>1, <1>2, R2Inductive, PTL DEF Spec


-----------------------------------------------------------------------------
(* The S3 client (S3Client). *)
(* Both names of Cardinality mean the same. *)
LEMMA S3CardL == \A S : S3!Cardinality(S) = Cardinality(S)
  BY DEF S3!Cardinality, Cardinality

(* Sets of keys are finite. *)
LEMMA S3FiniteL ==
  ASSUME S3!Bounds, NEW S \in SUBSET S3!Keys
  PROVE  IsFiniteSet(S) /\ Cardinality(S) \in Nat
  <1>1. IsFiniteSet(1..S3NumKeys) BY FS_Interval DEF S3!Bounds
  <1> QED BY <1>1, FS_Subset, FS_CardinalityType DEF S3!Keys

(* Up to its token a page misses nothing, and an empty page is the last. *)
LEMMA S3PageL ==
  ASSUME S3!Bounds, NEW pres \in SUBSET S3!Keys, NEW t \in 0..S3NumKeys, NEW page,
         page = S3!Page(pres, t), 
                      NEW next, next = S3!NextToken(pres, t, page)
  PROVE /\ page \subseteq pres /\ next \in 0..S3NumKeys
        /\ \A k \in page : k > t
        /\ page = {} => \A k \in pres : k <= t
        /\ next = 0 => \A k \in pres : k <= t \/ k \in page
        /\ next # 0 => next > t /\ (\A k \in page : k <= next) /\ (\A k \in pres : k <= next => k <= t \/ k \in page)
  <1> DEFINE A == S3!After(pres, t)
             B(k) == {j \in A : j < k}
  <1>1. A \in SUBSET S3!Keys /\ \A k : k \in A <=> k \in pres /\ k > t BY DEF S3!After
  <1>2. \A k : k \in page <=> k \in A /\ Cardinality(B(k)) < S3PageSize BY S3CardL DEF S3!Page
  <1>3. S3NumKeys \in Nat \ {0} /\ S3PageSize \in Nat \ {0} /\ S3!Keys = 1..S3NumKeys
    BY DEF S3!Bounds, S3!Keys
  <1> HIDE DEF A, B
  <1>4. page \subseteq pres /\ \A k \in page : k > t BY <1>1, <1>2
  <1>5. A # {} => page # {}
    <2> SUFFICES ASSUME A # {} PROVE page # {} OBVIOUS
    <2>1. A \in SUBSET Nat BY <1>1, <1>3
    <2>2. PICK u \in A : \A w \in A : u <= w BY <2>1, NatMin
    <2>3. B(u) = {}
      <3>1. ASSUME NEW j \in B(u) PROVE FALSE
        <4>1. j \in A /\ j < u BY DEF B
        <4>2. u <= j /\ j \in Nat /\ u \in Nat BY <2>1, <2>2, <4>1
        <4> QED BY <4>1, <4>2
      <3> QED BY <3>1
    <2>4. Cardinality(B(u)) = 0 BY <2>3, FS_EmptySet
    <2>5. u \in page BY <1>2, <1>3, <2>4
    <2> QED BY <2>5
  <1>6. page = {} => \A k \in pres : k <= t
    <2> SUFFICES ASSUME page = {}, NEW k \in pres PROVE k <= t OBVIOUS
    <2>1. k \notin A BY <1>5
    <2>2. k \in Nat BY <1>3
    <2> QED BY <1>1, <2>1, <2>2
  <1>7. CASE A \subseteq page
    <2>1. next = 0 BY <1>7 DEF S3!NextToken, A
    <2>2. \A k \in pres : k <= t \/ k \in page
      <3> SUFFICES ASSUME NEW k \in pres PROVE k <= t \/ k \in page OBVIOUS
      <3>1. k \in Nat BY <1>3
      <3> QED BY <1>1, <1>7, <3>1
    <2> QED BY <1>3, <1>4, <1>6, <2>1, <2>2
  <1>8. CASE ~(A \subseteq page)
    <2>1. page # {} BY <1>5, <1>8
    <2>2. page \in SUBSET (0..S3NumKeys)
      <3>1. S3!Keys \subseteq 0..S3NumKeys BY <1>3
      <3> QED BY <1>4, <3>1
    <2>3. PICK m \in page : \A k \in page : k <= m BY <1>3, <2>1, <2>2, NatMax
    <2>4. \A k \in page : m >= k BY <2>2, <2>3
    <2>5. next = S3!Max(page) BY <1>8 DEF S3!NextToken, A
    <2>6. next \in page /\ \A k \in page : next >= k BY <2>3, <2>4, <2>5 DEF S3!Max
    <2>7. next \in 1..S3NumKeys /\ next > t /\ \A k \in page : k <= next
      BY <1>3, <1>4, <2>2, <2>6
    <2>8. ASSUME NEW k \in pres, k <= next PROVE k <= t \/ k \in page
      <3>1. SUFFICES ASSUME ~(k <= t) PROVE k \in page OBVIOUS
      <3>2. k \in Nat BY <1>3
      <3>3. k \in A BY <1>1, <3>1, <3>2
      <3>4. \A j \in A : j < k => j < next BY <1>1, <1>3, <2>7, <2>8, <3>2
      <3>5. B(k) \in SUBSET B(next) /\ B(next) \in SUBSET S3!Keys BY <1>1, <3>4 DEF B
      <3>6. IsFiniteSet(B(next)) /\ Cardinality(B(next)) \in Nat BY <3>5, S3FiniteL
      <3>7. Cardinality(B(k)) <= Cardinality(B(next)) BY <3>5, <3>6, FS_Subset
      <3>8. Cardinality(B(k)) \in Nat BY <3>5, S3FiniteL
      <3>9. Cardinality(B(next)) < S3PageSize BY <1>2, <2>6
      <3> QED BY <1>2, <1>3, <3>3, <3>6, <3>7, <3>8, <3>9
    <2> QED BY <1>4, <2>1, <2>7, <2>8
  <1> QED BY <1>7, <1>8

(* The fields of a call have their types. *)
LEMMA S3CallsL == ASSUME NEW c \in S3!Calls
  PROVE /\ c.token \in 0..S3NumKeys /\ c.got \in SUBSET S3!Keys /\ c.key \in S3!Keys
        /\ c.count \in Int /\ c.failed \in Int /\ c.body \in Int
        /\ c.step \in {"idle", "page", "batch", "get", "body", "put", "delete", "wait", "create", "head", "config", "ok", "err"}
  BY DEF S3!Calls

(* Moving a call on changes nothing but where it is. *)
LEMMA S3GoL ==
  ASSUME NEW c \in S3!Calls,
         NEW s \in {"idle", "page", "batch", "get", "body", "put", "delete", "wait", "create", "head", "config", "ok", "err"},
         
                    NEW d, d = [c EXCEPT !.step = s]
  PROVE d \in S3!Calls /\ d.step = s /\ d.op = c.op /\ d.got = c.got /\ d.count = c.count /\
        d.token = c.token
  BY DEF S3!Calls

(* A fresh call has its type. *)
LEMMA S3EmptyL ==
  ASSUME S3!Bounds
  PROVE  0 \in 0..S3NumKeys /\ 1 \in S3!Keys /\ S3!Empty \in S3!Calls /\ S3!Empty.got = {} /\
         S3!Empty.token = 0 /\ S3!Empty.count = 0
  <1>1. 0 \in 0..S3NumKeys /\ 1 \in S3!Keys BY DEF S3!Bounds, S3!Keys
  <1> QED BY <1>1 DEF S3!Empty, S3!Calls

(* Initially the bucket check is under way and nothing is listed. *)
LEMMA S3InitL == ASSUME S3!Bounds, S3!Init PROVE S3!StateOK /\ S3!ListInv /\ S3!RmEmptied
  <1>1. 1 \in S3!Keys BY DEF S3!Bounds, S3!Keys
  <1>2. S3!Empty \in S3!Calls BY <1>1 DEF S3!Empty, S3!Calls, S3!Bounds
  <1>3. lCall = [S3!Empty EXCEPT !.op = "ensure", !.step = "wait"] BY DEF S3!Init
  <1>4. lCall \in S3!Calls /\ lCall.op = "ensure" BY <1>2, <1>3 DEF S3!Calls
  <1>5. lStore \in [S3!Keys -> Int] /\ lWrites \in Nat BY DEF S3!Init, S3!Bounds
  <1> QED BY <1>4, <1>5 DEF S3!StateOK, S3!ListInv, S3!RmEmptied, S3!Done

(* Every step keeps the invariant. *)
LEMMA S3Steps ==
  ASSUME S3!Bounds, S3!StateOK, S3!ListInv, S3!RmEmptied, S3!Next
  PROVE  S3!StateOK' /\ S3!ListInv' /\ S3!RmEmptied'
  <1> DEFINE P(store) == {k \in S3!Keys : store[k] # 0}
             S(store) == store \in [S3!Keys -> Int]
             O(c) == c \in S3!Calls /\ (c.op = "list" => c.step \in {"page", "ok", "err"}) /\
                     (c.op = "rm" => c.step \in {"page", "batch", "ok", "err"})
             K(store, kept, ever) == P(store) \subseteq ever /\ kept \subseteq P(store)
             G(c, kept, ever) == c.got \subseteq ever /\ Cardinality(c.got) = c.count /\
                                 (c.step = "ok" => kept \subseteq c.got)
             T(c, kept) == (\A k \in c.got : k <= c.token) /\ \A k \in kept : k <= c.token => k \in c.got
             L(c, store, kept, ever) == c.op = "list" => K(store, kept, ever) /\ (c.step # "err" => G(c, kept, ever)) /\ (c.step = "page" => T(c, kept))
             R(c, store, fresh) == c.op = "rm" /\ c.step = "ok" => P(store) \subseteq fresh
             Inv == S3!StateOK' /\ S3!ListInv' /\ S3!RmEmptied'
  <1>t. S(lStore) /\ O(lCall) /\ lWrites \in Nat /\ L(lCall, lStore, lKept, lEver) /\
        R(lCall, lStore, lFresh)
    BY S3CardL DEF S3!StateOK, S3!ListInv, S3!RmEmptied, S3!Done, S3!At, S3!Present
  <1>q. ASSUME S(lStore'), O(lCall'), lWrites' \in Nat, L(lCall', lStore', lKept', lEver'),
               R(lCall', lStore', lFresh')
        PROVE  Inv
    BY <1>q, S3CardL DEF S3!StateOK, S3!ListInv, S3!RmEmptied, S3!Done, S3!At, S3!Present
  <1>p. P(lStore) \in SUBSET S3!Keys /\ S3!Present = P(lStore) BY DEF S3!Present
  <1>i. \A k \in S3!Keys : k \in Nat /\ k > 0 BY DEF S3!Keys, S3!Bounds
  <1>e. Cardinality({}) = 0 BY FS_EmptySet
  <1>o. ASSUME O(lCall'), lCall'.op \notin {"list", "rm"}, S(lStore'), lWrites' \in Nat
        PROVE  Inv
    <2>1. L(lCall', lStore', lKept', lEver') /\ R(lCall', lStore', lFresh') BY <1>o
    <2> QED BY <1>o, <2>1, <1>q
  <1>c. lCall \in S3!Calls BY <1>t
  <1> DEFINE Steps1 == {"idle", "page", "batch", "get", "body", "put", "delete", "wait", "create", "head", "config", "ok", "err"}
  <1>g. ASSUME NEW s \in Steps1, S3!Go(s)
        PROVE  /\ lCall' \in S3!Calls /\ lCall'.step = s /\ lCall'.op = lCall.op
                                                /\ lCall'.got = lCall.got
                                                /\ lCall'.count = lCall.count
                                                /\ lCall'.token = lCall.token
    BY <1>g, <1>c, S3GoL DEF S3!Go
  <1>x. ASSUME S3!Go("err"), UNCHANGED <<lStore, lKept, lEver, lFresh, lWrites>> PROVE Inv
    <2>1. lCall' \in S3!Calls /\ lCall'.step = "err" /\ lCall'.op = lCall.op BY <1>x, <1>g
    <2>2. O(lCall') BY <2>1
    <2>3. L(lCall', lStore', lKept', lEver') BY <1>x, <2>1, <1>t
    <2>4. R(lCall', lStore', lFresh') BY <2>1
    <2> QED BY <1>x, <2>2, <2>3, <2>4, <1>t, <1>q
  <1>y. ASSUME NEW s \in Steps1, S3!Go(s), lCall.op \notin {"list", "rm"}, S(lStore'),
               lWrites' = lWrites
        PROVE  Inv
    <2>1. lCall' \in S3!Calls /\ lCall'.op = lCall.op BY <1>y, <1>g
    <2>2. O(lCall') BY <1>y, <2>1
    <2> QED BY <1>y, <2>1, <2>2, <1>t, <1>o
  <1>w. lCall.step \notin {"page", "batch", "ok", "err"} => lCall.op \notin {"list", "rm"}
    BY <1>t
  <1>1. ASSUME NEW k \in S3!Keys, S3!OtherWrites(k) PROVE Inv
    <2>1. /\ lCall' = lCall /\ lKept' = lKept /\ lWrites' = lWrites + 1
          /\ lStore' = [lStore EXCEPT ![k] = lWrites + 1]
          /\ lEver' = lEver \cup {k} /\ lFresh' = lFresh \cup {k}
      BY <1>1 DEF S3!OtherWrites
    <2> DEFINE n == lWrites + 1
    <2>2. n \in Nat /\ n # 0 /\ lWrites' = n /\ lStore' = [lStore EXCEPT ![k] = n] BY <2>1, <1>t
    <2> HIDE DEF n
    <2>3. S(lStore') /\ P(lStore') = P(lStore) \cup {k} BY <2>2, <1>t
    <2> HIDE DEF P, S, O
    <2>4. L(lCall', lStore', lKept', lEver') BY <2>1, <2>3, <1>t
    <2>5. R(lCall', lStore', lFresh') BY <2>1, <2>3, <1>t
    <2>6. O(lCall') BY <2>1, <1>t
    <2> QED BY <2>2, <2>3, <2>4, <2>5, <2>6, <1>q
  <1>2. ASSUME NEW k \in S3!Keys, S3!OtherErases(k) PROVE Inv
    <2>1. /\ lCall' = lCall /\ lEver' = lEver /\ lFresh' = lFresh /\ lWrites' = lWrites + 1
          /\ lStore' = [lStore EXCEPT ![k] = 0]
          /\ lKept' = lKept \ {k}
      BY <1>2 DEF S3!OtherErases
    <2>2. lWrites' \in Nat BY <2>1, <1>t
    <2>3. S(lStore') /\ P(lStore') = P(lStore) \ {k} BY <2>1, <1>t
    <2> HIDE DEF P, S, O
    <2>4. L(lCall', lStore', lKept', lEver') BY <2>1, <2>3, <1>t
    <2>5. R(lCall', lStore', lFresh') BY <2>1, <2>3, <1>t
    <2>6. O(lCall') BY <2>1, <1>t
    <2> QED BY <2>2, <2>3, <2>4, <2>5, <2>6, <1>q
  <1>3. ASSUME S3!Retryable PROVE Inv
    <2>1. /\ lCall.step \in {"page", "get", "body", "put"}
          /\ UNCHANGED <<lStore, lKept, lEver, lFresh, lWrites>>
          /\ lCall' = IF S3!Exhausted THEN [lCall EXCEPT !.step = "err"] ELSE [S3!Restarted EXCEPT !.step = S3!RestartStep]
      BY <1>3 DEF S3!Retryable
    <2>2. CASE S3!Exhausted BY <2>1, <2>2, <1>x DEF S3!Go
    <2>3. CASE ~S3!Exhausted
      <3> DEFINE f == lCall.failed + 1
                 c == [lCall EXCEPT !.failed = f, !.token = 0, !.got = {}, !.count = 0]
                 d == [c EXCEPT !.step = S3!RestartStep]
      <3>1. lCall' = d BY <2>1, <2>3 DEF S3!Restarted
      <3>2. f \in Int BY <1>c, S3CallsL
      <3> HIDE DEF f
      <3>3. c \in S3!Calls /\ c.op = lCall.op /\ c.got = {} /\ c.count = 0 /\ c.token = 0 /\
            c.step = lCall.step
        BY <1>c, <3>2, S3EmptyL DEF S3!Calls
      <3> HIDE DEF c
      <3>4. S3!RestartStep \in Steps1 /\ S3!RestartStep \in {"page", "get", "put"} /\
            (lCall.op \in {"list", "rm"} => S3!RestartStep = "page")
        BY <2>1, <1>t DEF S3!RestartStep, S3!At
      <3>5. d \in S3!Calls /\ d.op = lCall.op /\ d.got = {} /\ d.count = 0 /\ d.token = 0 /\
            d.step = S3!RestartStep
        BY <3>3, <3>4, S3GoL
      <3> HIDE DEF d
      <3>6. O(lCall') BY <3>1, <3>4, <3>5
      <3>7. ASSUME lCall.op = "list" PROVE G(lCall', lKept', lEver') /\ T(lCall', lKept')
        <4>1. lKept' \subseteq S3!Keys BY <2>1, <3>7, <1>t
        <4>2. \A k \in lKept' : ~(k <= 0) BY <4>1, <1>i
        <4> QED BY <3>1, <3>4, <3>5, <3>7, <4>2, <1>e
      <3> HIDE DEF G, T
      <3>8. L(lCall', lStore', lKept', lEver') BY <2>1, <3>1, <3>5, <3>7, <1>t
      <3>9. R(lCall', lStore', lFresh') BY <3>1, <3>4, <3>5
      <3> QED BY <2>1, <3>6, <3>8, <3>9, <1>t, <1>q
    <2> QED BY <2>2, <2>3
  <1>4. ASSUME S3!Final PROVE Inv BY <1>4, <1>x DEF S3!Final
  <1>5. ASSUME NEW op \in {"list", "rm", "get", "copy", "put", "delete"},
               NEW s \in {"page", "get", "put", "delete"}, NEW k \in S3!Keys, S3!Call(op, s, k),
               
               op \in {"list", "rm"} => s = "page"
        PROVE Inv
    <2> DEFINE b == IF op = "put" THEN S3MaxWrites + 1 ELSE 0
               c == [S3!Empty EXCEPT !.op = op, !.step = s, !.key = k, !.body = b]
    <2>1. lCall' = c /\ lKept' = P(lStore) /\ lEver' = P(lStore) /\ lStore' = lStore /\
          lWrites' = lWrites
      BY <1>5, <1>p DEF S3!Call
    <2>2. b \in Int BY DEF S3!Bounds
    <2> HIDE DEF b
    <2>3. c \in S3!Calls /\ c.op = op /\ c.step = s /\ c.got = {} /\ c.token = 0 /\ c.count = 0
      BY <1>5, <2>2, S3EmptyL DEF S3!Calls
    <2> HIDE DEF c
    <2>4. O(lCall') BY <1>5, <2>1, <2>3
    <2>5. G(lCall', lKept', lEver') BY <2>1, <2>3, <1>e
    <2>6. T(lCall', lKept')
      <3>1. \A x \in lKept' : ~(x <= 0) BY <2>1, <1>p, <1>i
      <3> QED BY <2>1, <2>3, <3>1
    <2>7. L(lCall', lStore', lKept', lEver') BY <2>1, <2>5, <2>6
    <2>8. R(lCall', lStore', lFresh') BY <2>1, <2>3
    <2> QED BY <2>1, <2>4, <2>7, <2>8, <1>t, <1>q
  <1>6. ASSUME S3!Begin PROVE Inv
    <2>1. 1 \in S3!Keys BY DEF S3!Keys, S3!Bounds
    <2> QED BY <1>6, <2>1, <1>5 DEF S3!Begin
  <1>7. ASSUME S3!ListPage PROVE Inv
    <2> DEFINE page == S3!Page(P(lStore), lCall.token)
               next == S3!NextToken(P(lStore), lCall.token, page)
               g == lCall.got \cup page
               n == lCall.count + Cardinality(page)
               s == IF next = 0 THEN "ok" ELSE "page"
               c == [lCall EXCEPT !.got = g, !.count = n, !.token = next, !.step = s]
    <2>1. lCall.op = "list" /\ lCall.step = "page" /\
          UNCHANGED <<lStore, lKept, lEver, lFresh, lWrites>>
      BY <1>7 DEF S3!ListPage, S3!At
    <2>2. lCall' = c BY <1>7, <1>p, S3CardL DEF S3!ListPage
    <2>3. K(lStore, lKept, lEver) /\ G(lCall, lKept, lEver) /\ T(lCall, lKept) BY <2>1, <1>t
    <2> HIDE DEF P
    <2>4. lCall.token \in 0..S3NumKeys /\ lCall.got \in SUBSET S3!Keys /\ lCall.count \in Int
      BY <1>c, S3CallsL
    <2>5. /\ page \subseteq P(lStore) /\ next \in 0..S3NumKeys /\ \A k \in page : k > lCall.token
          /\ next = 0 => \A k \in P(lStore) : k <= lCall.token \/ k \in page
          /\ next # 0 => next > lCall.token /\ (\A k \in page : k <= next)
                         /\ (\A k \in P(lStore) : k <= next => k <= lCall.token \/ k \in page)
      BY <2>4, <1>p, S3PageL
    <2> HIDE DEF page, next
    <2>6. page \in SUBSET S3!Keys BY <2>5, <1>p
    <2>7. Cardinality(g) = n /\ n \in Int
      <3>1. IsFiniteSet(page) /\ IsFiniteSet(lCall.got) /\ Cardinality(page) \in Nat
        BY <2>4, <2>6, S3FiniteL
      <3>2. lCall.got \cap page = {}
        <4>1. ASSUME NEW k \in lCall.got, k \in page PROVE FALSE
          <5>1. k <= lCall.token /\ k > lCall.token BY <4>1, <2>3, <2>5
          <5>2. k \in Nat /\ lCall.token \in Nat BY <2>4, <1>i DEF S3!Bounds
          <5> QED BY <5>1, <5>2
        <4> QED BY <4>1
      <3>3. Cardinality(g) = Cardinality(lCall.got) + Cardinality(page) - Cardinality(lCall.got \cap page)
        BY <3>1, FS_Union
      <3>4. Cardinality(lCall.got \cap page) = 0 BY <3>2, <1>e
      <3>5. Cardinality(lCall.got) = lCall.count BY <2>3
      <3> HIDE DEF g
      <3> QED BY <3>1, <3>3, <3>4, <3>5, <2>4
    <2>8. g \in SUBSET S3!Keys /\ s \in Steps1 /\ g \subseteq lEver BY <2>3, <2>4, <2>5, <2>6
    <2>a. s \in {"ok", "page"} /\ (s = "ok" <=> next = 0) OBVIOUS
    <2>b. lKept \subseteq S3!Keys BY <2>3, <1>p
    <2>c. next = 0 => lKept \subseteq g BY <2>3, <2>5
    <2>d. next # 0 => (\A k \in g : k <= next) /\ (\A k \in lKept : k <= next => k \in g)
      <3> SUFFICES ASSUME next # 0 PROVE (\A k \in g : k <= next) /\
          (\A k \in lKept : k <= next => k \in g) OBVIOUS
      <3>1. ASSUME NEW k \in lCall.got PROVE k <= next
        <4>1. k <= lCall.token /\ next > lCall.token BY <2>3, <2>5
        <4>2. k \in Nat /\ lCall.token \in Nat /\ next \in Nat BY <2>4, <2>5, <1>i DEF S3!Bounds
        <4> QED BY <4>1, <4>2
      <3>2. \A k \in lKept : k <= next => k \in g BY <2>3, <2>5
      <3> QED BY <3>1, <3>2, <2>5
    <2> HIDE DEF g, n, s
    <2>9. c \in S3!Calls /\ c.op = "list" /\ c.got = g /\ c.count = n /\ c.token = next /\ c.step = s
      BY <2>1, <2>5, <2>7, <2>8, <1>c DEF S3!Calls
    <2> HIDE DEF c
    <2>10. O(lCall') BY <2>2, <2>9, <2>a
    <2>11. G(lCall', lKept', lEver') BY <2>1, <2>2, <2>7, <2>8, <2>9, <2>a, <2>c
    <2>12. lCall'.step = "page" => T(lCall', lKept') BY <2>1, <2>2, <2>9, <2>a, <2>d
    <2> HIDE DEF G, T, O
    <2>13. L(lCall', lStore', lKept', lEver') BY <2>1, <2>3, <2>11, <2>12
    <2>14. R(lCall', lStore', lFresh') BY <2>2, <2>9
    <2> QED BY <2>1, <2>10, <2>13, <2>14, <1>t, <1>q
  <1>8. ASSUME S3!RmPage PROVE Inv
    <2> DEFINE page == S3!Page(P(lStore), 0)
               s == IF S3!RmDone(page) THEN "ok" ELSE "batch"
               z == 0
               c == [lCall EXCEPT !.got = page, !.failed = z, !.step = s]
    <2>1. lCall.op = "rm" /\ lCall' = c /\ lStore' = lStore /\ lWrites' = lWrites
      BY <1>8, <1>p DEF S3!RmPage
    <2>2. page \subseteq P(lStore) /\ (page = {} => \A k \in P(lStore) : k <= 0)
      <3>1. 0 \in 0..S3NumKeys BY DEF S3!Bounds
      <3> QED BY <3>1, <1>p, S3PageL
    <2>3. s \in {"ok", "batch"} /\ (s = "ok" => page = {}) BY DEF S3!RmDone
    <2>4. page \in SUBSET S3!Keys BY <2>2
    <2>5. s = "ok" => P(lStore) = {} BY <2>2, <2>3, <1>p, <1>i
    <2>b. z \in Int OBVIOUS
    <2> HIDE DEF page, s, z
    <2>a. s \in Steps1 BY <2>3
    <2>6. c \in S3!Calls /\ c.op = lCall.op /\ c.step = s BY <2>a, <2>b, <2>4, <1>c DEF S3!Calls
    <2> HIDE DEF c
    <2>7. O(lCall') BY <2>1, <2>3, <2>6
    <2>8. L(lCall', lStore', lKept', lEver') BY <2>1, <2>6
    <2>9. R(lCall', lStore', lFresh') BY <2>1, <2>5, <2>6
    <2> QED BY <2>1, <2>7, <2>8, <2>9, <1>t, <1>q
  <1>9. ASSUME S3!DeleteBatch PROVE Inv
    <2>1. lCall.step = "batch" /\ lWrites' = lWrites /\ lCall.op # "list"
      BY <1>9, <1>t DEF S3!DeleteBatch, S3!At
    <2>2. PICK ks : lStore' = S3!Erased(ks) BY <1>9 DEF S3!DeleteBatch
    <2>3. S(lStore') BY <2>2, <1>t DEF S3!Erased
    <2>4. S3!Go("page") \/ S3!Go("err") BY <1>9 DEF S3!DeleteBatch
    <2>5. lCall' \in S3!Calls /\ lCall'.op = lCall.op /\ lCall'.step \in {"page", "err"}
      BY <2>4, <1>g
    <2>6. O(lCall') BY <2>1, <2>5
    <2>7. L(lCall', lStore', lKept', lEver') /\ R(lCall', lStore', lFresh') BY <2>1, <2>5
    <2> QED BY <2>1, <2>3, <2>6, <2>7, <1>t, <1>q
  <1>10. ASSUME S3!DeleteOne PROVE Inv
    <2>1. lCall.step = "delete" /\ lWrites' = lWrites /\ lStore' = S3!Erased({lCall.key}) /\
          (S3!Go("ok") \/ S3!Go("err"))
      BY <1>10 DEF S3!DeleteOne, S3!At
    <2>2. S(lStore') BY <2>1, <1>t DEF S3!Erased
    <2> QED BY <2>1, <2>2, <1>w, <1>y
  <1>11. ASSUME S3!GetObject PROVE Inv
    <2>1. lCall.step = "get" /\ lStore' = lStore /\ lWrites' = lWrites
      BY <1>11 DEF S3!GetObject, S3!At
    <2>2. CASE S3!Go("err") BY <2>1, <2>2, <1>w, <1>y, <1>t
    <2>3. CASE lCall' = [lCall EXCEPT !.step = "body", !.body = lStore[lCall.key]]
      <3>1. lStore[lCall.key] \in Int BY <1>t, <1>c, S3CallsL
      <3>2. lCall' \in S3!Calls /\ lCall'.op = lCall.op BY <2>3, <3>1, <1>c DEF S3!Calls
      <3>3. O(lCall') BY <2>1, <3>2, <1>w
      <3> QED BY <2>1, <3>2, <3>3, <1>w, <1>o, <1>t
    <2> QED BY <1>11, <2>2, <2>3 DEF S3!GetObject
  <1>12. ASSUME S3!GetBody PROVE Inv
    <2>1. lCall.step = "body" /\ lStore' = lStore /\ lWrites' = lWrites
      BY <1>12 DEF S3!GetBody, S3!At
    <2> DEFINE n == lCall.count + 1
               f == IF lCall.count + 1 = S3BodyLen /\ lCall.op = "copy" THEN 0 ELSE lCall.failed
               s == CASE lCall.count + 1 < S3BodyLen -> "body" [] lCall.op = "get" -> "ok" [] OTHER -> "put"
               c == [lCall EXCEPT !.count = n, !.failed = f, !.step = s]
    <2>2. lCall' = c BY <1>12 DEF S3!GetBody
    <2>3. n \in Int /\ f \in Int BY <1>c, S3CallsL
    <2>4. s \in {"body", "ok", "put"} OBVIOUS
    <2> HIDE DEF n, f, s
    <2>5. c \in S3!Calls /\ c.op = lCall.op BY <2>3, <2>4, <1>c DEF S3!Calls
    <2> HIDE DEF c
    <2>6. O(lCall') BY <2>1, <2>2, <2>5, <1>w
    <2> QED BY <2>1, <2>2, <2>5, <2>6, <1>w, <1>o, <1>t
  <1>13. ASSUME S3!PutObject PROVE Inv
    <2>1. lCall.step = "put" /\ lWrites' = lWrites /\
          lStore' = [lStore EXCEPT ![S3!Target] = lCall.body]
      BY <1>13 DEF S3!PutObject, S3!At
    <2>2. S(lStore') BY <2>1, <1>t, <1>c, S3CallsL
    <2>3. CASE S3!Go("ok") \/ S3!Go("err") BY <2>1, <2>2, <2>3, <1>w, <1>y
    <2>4. CASE lCall' = [lCall EXCEPT !.failed = @ + 1]
      <3> DEFINE f == lCall.failed + 1
      <3>1. f \in Int /\ lCall' = [lCall EXCEPT !.failed = f] BY <2>4, <1>c, S3CallsL
      <3> HIDE DEF f
      <3>2. lCall' \in S3!Calls /\ lCall'.op = lCall.op BY <3>1, <1>c DEF S3!Calls
      <3>3. O(lCall') BY <2>1, <3>2, <1>w
      <3> QED BY <2>1, <2>2, <3>2, <3>3, <1>w, <1>o, <1>t
    <2> QED BY <1>13, <2>3, <2>4 DEF S3!PutObject, S3!Go
  <1>14. ASSUME S3!EndpointUp PROVE Inv
    <2>1. lCall.step = "wait" /\ lStore' = lStore /\ lWrites' = lWrites
      BY <1>14 DEF S3!EndpointUp, S3!At
    <2>2. S(lStore') BY <2>1, <1>t
    <2>3. CASE S3!Go("create") \/ S3!Go("err") BY <2>1, <2>2, <2>3, <1>w, <1>y
    <2>4. CASE lCall' = [lCall EXCEPT !.failed = @ + 1]
      <3> DEFINE f == lCall.failed + 1
      <3>1. f \in Int /\ lCall' = [lCall EXCEPT !.failed = f] BY <2>4, <1>c, S3CallsL
      <3> HIDE DEF f
      <3>2. lCall' \in S3!Calls /\ lCall'.op = lCall.op BY <3>1, <1>c DEF S3!Calls
      <3>3. O(lCall') BY <2>1, <3>2, <1>w
      <3> QED BY <2>1, <2>2, <3>2, <3>3, <1>w, <1>o, <1>t
    <2> QED BY <1>14, <2>3, <2>4 DEF S3!EndpointUp, S3!Go
  <1>15. ASSUME S3!CreateBucket \/ S3!HeadBucket \/ S3!ConfigureBucket PROVE Inv
    <2>1. lCall.step \in {"create", "head", "config"} /\ lStore' = lStore /\ lWrites' = lWrites
      BY <1>15 DEF S3!CreateBucket, S3!HeadBucket, S3!ConfigureBucket, S3!At
    <2>2. S(lStore') BY <2>1, <1>t
    <2>3. S3!Go("head") \/ S3!Go("config") \/ S3!Go("err") \/ S3!Go("ok")
      BY <1>15 DEF S3!CreateBucket, S3!HeadBucket, S3!ConfigureBucket
    <2> QED BY <2>1, <2>2, <2>3, <1>w, <1>y
  <1>16. ASSUME S3!BootAgain PROVE Inv
    <2> DEFINE c == [S3!Empty EXCEPT !.op = "ensure", !.step = "wait"]
    <2>1. lCall' = c /\ lStore' = lStore /\ lWrites' = lWrites BY <1>16 DEF S3!BootAgain
    <2>3. c \in S3!Calls /\ c.op = "ensure" BY S3EmptyL DEF S3!Calls
    <2> HIDE DEF c
    <2>4. O(lCall') BY <2>1, <2>3
    <2> QED BY <2>1, <2>3, <2>4, <1>o, <1>t
  <1> QED BY <1>1, <1>2, <1>3, <1>4, <1>6, <1>7, <1>8, <1>9, <1>10, <1>11, <1>12, <1>13, <1>14,
             <1>15, <1>16 DEF S3!Next

(* A step that leaves the client alone keeps the invariant. *)
LEMMA S3Stutter ==
  ASSUME S3!StateOK, S3!ListInv, S3!RmEmptied, UNCHANGED s3Vars
  PROVE  S3!StateOK' /\ S3!ListInv' /\ S3!RmEmptied'
  BY DEF S3!StateOK, S3!ListInv, S3!RmEmptied, S3!Done, S3!At, S3!Present, s3Vars

(* The first state of the S3 client has its types. *)
LEMMA S3TypeInit == ASSUME S3!Bounds, S3!Init PROVE S3!TypeOK /\ S3!EnsureInv
  <1>1. 1 \in S3!Keys /\ 0 \in 0..S3NumKeys /\ 0 \in 0..S3MaxWrites + 1 /\
        S3MaxWrites + 1 \in 0..S3MaxWrites + 1 /\ 0 \in 0..S3Waits - 1
    BY DEF S3!Bounds, S3!Keys
  <1>2. lCall.op = "ensure" /\ lCall.step = "wait" /\ lCall.failed = 0 /\ lCall.token = 0 /\
        lCall.key = 1 /\ lCall.body = 0
    BY DEF S3!Init, S3!Empty
  <1>3. lStore \in [S3!Keys -> 0..S3MaxWrites + 1] BY <1>1 DEF S3!Init
  <1>4. lLeft \in [calls : 0..S3MaxCalls, faults : 0..S3MaxFaults] /\ lWrites \in 0..S3MaxWrites
    BY DEF S3!Init, S3!Bounds
  <1>5. lBucket \in BOOLEAN /\ lKept = {} /\ lEver = {} /\ lFresh = {} BY DEF S3!Init
  <1> QED BY <1>1, <1>2, <1>3, <1>4, <1>5 DEF S3!TypeOK, S3!EnsureInv, S3!EnsureSteps

(* A step of the S3 client keeps its types, its attempts within their own bound included. *)
LEMMA S3TypeStep ==
  ASSUME S3!Bounds, S3!StateOK, S3!StateOK', S3!TypeOK, S3!EnsureInv, [S3!Next]_s3Vars
  PROVE  S3!TypeOK' /\ S3!EnsureInv'
  <1> DEFINE B == 0..S3MaxWrites + 1
             Lefts == [calls : 0..S3MaxCalls, faults : 0..S3MaxFaults]
             Most(op) == IF op = "ensure" THEN S3Waits ELSE S3Attempts
             F(c) == c.failed >= 0 /\ c.failed <= Most(c.op) - 1 /\ c.body \in B
             E(c) == (c.op = "ensure" => c.step \in S3!EnsureSteps \cup {"ok", "err"}) /\
                     (c.step \in S3!EnsureSteps => c.op = "ensure")
             C(c) == F(c) /\ E(c)
             S(store) == store \in [S3!Keys -> B]
             K(kept, ever, fresh) == kept \subseteq S3!Keys /\ ever \subseteq S3!Keys /\
                                     fresh \subseteq S3!Keys
             N(writes, left, bucket) == writes \in 0..S3MaxWrites /\ left \in Lefts /\
                                        bucket \in BOOLEAN
  <1>b. /\ S3NumKeys \in Nat \ {0} /\ S3Attempts \in Nat \ {0} /\ S3Waits \in Nat \ {0}
        /\ S3MaxWrites \in Nat /\ S3MaxCalls \in Nat
        /\ S3MaxFaults \in Nat /\ 0 \in B /\ S3MaxWrites + 1 \in B
    BY DEF S3!Bounds
  <1>m. \A op : Most(op) \in Nat \ {0} BY <1>b
  <1>s. /\ lCall \in S3!Calls /\ lCall' \in S3!Calls BY DEF S3!StateOK
  <1>f. \A c \in S3!Calls : c.failed \in Int /\ c.body \in Int /\ c.token \in 0..S3NumKeys /\ c.key \in S3!Keys
    BY DEF S3!Calls
  <1>t. C(lCall) /\ S(lStore) /\ K(lKept, lEver, lFresh) /\ N(lWrites, lLeft, lBucket)
    <2>1. lCall.failed >= 0 /\ lCall.failed <= Most(lCall.op) - 1 BY <1>m DEF S3!TypeOK
    <2> QED BY <2>1 DEF S3!TypeOK, S3!EnsureInv
  <1>q. ASSUME C(lCall'), S(lStore'), K(lKept', lEver', lFresh'), N(lWrites', lLeft', lBucket')
        PROVE  S3!TypeOK' /\ S3!EnsureInv'
    <2>1. lCall'.failed \in 0..Most(lCall'.op) - 1 BY <1>q, <1>s, <1>f, <1>m
    <2>2. lCall'.op \in {"none", "list", "rm", "get", "put", "copy", "delete", "ensure"}
          /\ lCall'.step \in {"idle", "page", "batch", "get", "body", "put", "delete", "wait", "create", "head", "config", "ok", "err"}
          /\ lCall'.token \in 0..S3NumKeys /\ lCall'.key \in S3!Keys
      BY <1>s DEF S3!Calls
    <2>3. S3!EnsureInv' BY <1>q DEF S3!EnsureInv
    <2> QED BY <1>q, <2>1, <2>2, <2>3 DEF S3!TypeOK
  <1> HIDE DEF F, S, K, N
  <1>go. ASSUME NEW step, S3!Go(step),
                lCall.op = "ensure" => step \in S3!EnsureSteps \cup {"ok", "err"},
                step \in S3!EnsureSteps => lCall.op = "ensure"
         PROVE C(lCall')
    <2>1. lCall'.op = lCall.op /\ lCall'.step = step /\ lCall'.failed = lCall.failed /\
          lCall'.body = lCall.body
      BY <1>go, <1>s DEF S3!Go, S3!Calls
    <2>2. F(lCall') BY <2>1, <1>t DEF F
    <2> QED BY <2>1, <2>2, <1>go
  <1>sp. ASSUME S3!Spent, lWrites' = lWrites, lBucket' \in BOOLEAN
         PROVE  N(lWrites', lLeft', lBucket')
    <2>1. lLeft' \in Lefts BY <1>sp, <1>t, <1>b DEF S3!Spent, N
    <2> QED BY <2>1, <1>sp, <1>t DEF N
  <1>lv. ASSUME UNCHANGED <<lLeft, lWrites>>, lBucket' \in BOOLEAN
         PROVE  N(lWrites', lLeft', lBucket') BY <1>lv, <1>t DEF N
  <1>bk. lBucket \in BOOLEAN BY <1>t DEF N
  <1>er. ASSUME NEW some, lStore' = S3!Erased(some)
         PROVE  S(lStore') BY <1>er, <1>t, <1>b DEF S3!Erased, S
  <1>e1. S3!EnsureSteps = {"wait", "create", "head", "config"} BY DEF S3!EnsureSteps
  <1>1. CASE \E k \in S3!Keys : S3!OtherWrites(k)
    <2>1. PICK k \in S3!Keys : S3!OtherWrites(k) BY <1>1
    <2>2. UNCHANGED <<lBucket, lCall, lKept, lLeft>> BY <2>1 DEF S3!OtherWrites
    <2>3. lWrites < S3MaxWrites /\ lWrites' = lWrites + 1 /\
          lStore' = [lStore EXCEPT ![k] = lWrites + 1]
      BY <2>1 DEF S3!OtherWrites
    <2>4. lWrites \in 0..S3MaxWrites BY <1>t DEF N
    <2>5. lWrites' \in 0..S3MaxWrites /\ lWrites + 1 \in B BY <2>3, <2>4, <1>b
    <2>6. S(lStore') BY <2>3, <2>5, <1>t DEF S
    <2>7. N(lWrites', lLeft', lBucket') BY <2>2, <2>5, <1>t DEF N
    <2>8. K(lKept', lEver', lFresh') BY <2>1, <1>t DEF K, S3!OtherWrites
    <2> QED BY <2>2, <2>6, <2>7, <2>8, <1>t, <1>q
  <1>2. CASE \E k \in S3!Keys : S3!OtherErases(k)
    <2>1. PICK k \in S3!Keys : S3!OtherErases(k) BY <1>2
    <2>2. UNCHANGED <<lBucket, lCall, lEver, lFresh, lLeft>> BY <2>1 DEF S3!OtherErases
    <2>3. lWrites < S3MaxWrites /\ lWrites' = lWrites + 1 /\ lStore' = [lStore EXCEPT ![k] = 0] /\
          lKept' = lKept \ {k}
      BY <2>1 DEF S3!OtherErases
    <2>4. lWrites \in 0..S3MaxWrites BY <1>t DEF N
    <2>5. lWrites' \in 0..S3MaxWrites BY <2>3, <2>4, <1>b
    <2>6. S(lStore') BY <2>3, <1>b, <1>t DEF S
    <2>7. N(lWrites', lLeft', lBucket') BY <2>2, <2>5, <1>t DEF N
    <2>8. K(lKept', lEver', lFresh') BY <2>2, <2>3, <1>t DEF K
    <2> QED BY <2>2, <2>6, <2>7, <2>8, <1>t, <1>q
  <1>3. CASE S3!Retryable
    <2>1. UNCHANGED <<lStore, lBucket, lKept, lEver, lFresh, lWrites>> /\ S3!Spent
      BY <1>3 DEF S3!Retryable
    <2>2. N(lWrites', lLeft', lBucket') BY <2>1, <1>bk, <1>sp
    <2>3. lCall.step \in {"page", "get", "body", "put"} /\ lCall.op # "ensure"
      BY <1>3, <1>t, <1>e1 DEF S3!Retryable
    <2>4. CASE S3!Exhausted
      <3>1. S3!Go("err") BY <1>3, <2>4 DEF S3!Retryable, S3!Go
      <3>2. C(lCall') BY <3>1, <1>go, <1>e1
      <3> QED BY <2>1, <2>2, <3>2, <1>t, <1>q
    <2>5. CASE ~S3!Exhausted
      <3>1. lCall' = [S3!Restarted EXCEPT !.step = S3!RestartStep]
        BY <1>3, <2>5 DEF S3!Retryable
      <3>2. lCall'.op = lCall.op /\ lCall'.step = S3!RestartStep /\ lCall'.failed = lCall.failed + 1 /\
            lCall'.body = lCall.body
        BY <3>1, <1>s DEF S3!Restarted, S3!Calls
      <3>3. S3!RestartStep \in {"page", "get", "put"} BY <2>3 DEF S3!RestartStep, S3!At
      <3>4. Most(lCall.op) = S3Attempts BY <2>3
      <3>5. lCall.failed + 1 < S3Attempts /\ lCall.failed \in Int /\ lCall.failed >= 0
        BY <2>5, <1>s, <1>f, <1>t, <1>b DEF S3!Exhausted, F
      <3>6. F(lCall')
        <4>1. lCall'.failed <= Most(lCall'.op) - 1 /\ lCall'.failed >= 0
          BY <3>2, <3>4, <3>5, <1>b
        <4> QED BY <4>1, <3>2, <1>t DEF F
      <3>7. C(lCall') BY <3>2, <3>3, <3>6, <2>3, <1>e1
      <3> QED BY <2>1, <2>2, <3>7, <1>t, <1>q
    <2> QED BY <2>4, <2>5
  <1>4. CASE S3!Final
    <2>1. UNCHANGED <<lStore, lBucket, lKept, lEver, lFresh, lWrites>> /\ S3!Spent /\ S3!Go("err")
      BY <1>4 DEF S3!Final
    <2>2. N(lWrites', lLeft', lBucket') BY <2>1, <1>bk, <1>sp
    <2>3. C(lCall') BY <2>1, <1>go, <1>e1
    <2> QED BY <2>1, <2>2, <2>3, <1>t, <1>q
  <1>c. ASSUME NEW op, NEW step, NEW k, S3!Call(op, step, k), op # "ensure",
               step \in {"page", "get", "put", "delete"}
        PROVE  S3!TypeOK' /\ S3!EnsureInv'
    <2>1. S3!Call(op, step, k) /\ op # "ensure" /\ step \in {"page", "get", "put", "delete"}
      BY <1>c
    <2>2. UNCHANGED <<lStore, lBucket, lWrites>> /\ lLeft.calls > 0 /\
          lLeft' = [lLeft EXCEPT !.calls = @ - 1]
      BY <2>1 DEF S3!Call
    <2>3. lLeft' \in Lefts BY <2>2, <1>t, <1>b DEF N
    <2>4. N(lWrites', lLeft', lBucket') BY <2>2, <2>3, <1>t DEF N
    <2>5. K(lKept', lEver', lFresh') BY <2>1 DEF S3!Call, S3!Present, K
    <2>6. lCall'.op = op /\ lCall'.step = step /\ lCall'.failed = 0 /\
          lCall'.body \in {0, S3MaxWrites + 1}
      BY <2>1 DEF S3!Call, S3!Empty
    <2>7. F(lCall') BY <2>6, <1>m, <1>b DEF F
    <2>8. C(lCall') BY <2>1, <2>6, <2>7, <1>e1
    <2> QED BY <2>2, <2>4, <2>5, <2>8, <1>t, <1>q
  <1>5. CASE S3!Begin
    <2>1. CASE S3!Call("list", "page", 1) BY <2>1, <1>c
    <2>2. CASE S3!Call("rm", "page", 1) BY <2>2, <1>c
    <2>3. ASSUME NEW k \in S3!Keys, S3!Call("get", "get", k)
          PROVE  S3!TypeOK' /\ S3!EnsureInv' BY <2>3, <1>c
    <2>4. ASSUME NEW k \in S3!Keys, S3!Call("copy", "get", k)
          PROVE  S3!TypeOK' /\ S3!EnsureInv' BY <2>4, <1>c
    <2>5. ASSUME NEW k \in S3!Keys, S3!Call("put", "put", k)
          PROVE  S3!TypeOK' /\ S3!EnsureInv' BY <2>5, <1>c
    <2>6. ASSUME NEW k \in S3!Keys, S3!Call("delete", "delete", k)
          PROVE  S3!TypeOK' /\ S3!EnsureInv' BY <2>6, <1>c
    <2> QED BY <1>5, <2>1, <2>2, <2>3, <2>4, <2>5, <2>6 DEF S3!Begin
  <1>6. CASE S3!ListPage
    <2>1. UNCHANGED <<lStore, lBucket, lKept, lEver, lFresh, lWrites, lLeft>> /\ lCall.op = "list"
      BY <1>6 DEF S3!ListPage
    <2>2. lCall'.op = lCall.op /\ lCall'.failed = lCall.failed /\ lCall'.body = lCall.body /\
          lCall'.step \in {"ok", "page"}
      BY <1>6, <1>s DEF S3!ListPage, S3!Calls
    <2>3. F(lCall') BY <2>2, <1>t DEF F
    <2>4. C(lCall') BY <2>1, <2>2, <2>3, <1>e1
    <2> QED BY <2>1, <2>4, <1>t, <1>q
  <1>7. CASE S3!RmPage
    <2>1. UNCHANGED <<lStore, lBucket, lKept, lEver, lWrites, lLeft>> /\ lCall.op = "rm" /\ lFresh' = {}
      BY <1>7 DEF S3!RmPage
    <2>2. lCall'.op = lCall.op /\ lCall'.failed = 0 /\ lCall'.body = lCall.body /\
          lCall'.step \in {"ok", "batch"}
      BY <1>7, <1>s DEF S3!RmPage, S3!Calls
    <2>3. F(lCall') BY <2>2, <1>t, <1>m DEF F
    <2>4. C(lCall') BY <2>1, <2>2, <2>3, <1>e1
    <2>5. K(lKept', lEver', lFresh') BY <2>1, <1>t DEF K
    <2> QED BY <2>1, <2>4, <2>5, <1>t, <1>q
  <1>8. CASE S3!DeleteBatch
    <2>1. UNCHANGED <<lBucket, lEver, lFresh, lWrites>> /\ lCall.step = "batch"
      BY <1>8 DEF S3!DeleteBatch, S3!At
    <2>2. lCall.op # "ensure" BY <2>1, <1>t, <1>e1
    <2>3. CASE lStore' = S3!Erased(lCall.got) /\ lKept' = lKept \ lCall.got /\ S3!Go("page") /\
               UNCHANGED lLeft
      <3>1. C(lCall') BY <2>2, <2>3, <1>go, <1>e1
      <3>2. S(lStore') BY <2>3, <1>er
      <3>3. K(lKept', lEver', lFresh') BY <2>1, <2>3, <1>t DEF K
      <3> QED BY <2>1, <2>3, <3>1, <3>2, <3>3, <1>t, <1>q
    <2>4. CASE S3!Spent /\ S3!Go("err") /\ \E some \in SUBSET lCall.got : lStore' = S3!Erased(some) /\ lKept' = lKept \ some
      <3>1. C(lCall') BY <2>4, <1>go, <1>e1
      <3>2. S(lStore') BY <2>4, <1>er
      <3>3. K(lKept', lEver', lFresh') BY <2>1, <2>4, <1>t DEF K
      <3>4. N(lWrites', lLeft', lBucket') BY <2>1, <2>4, <1>bk, <1>sp
      <3> QED BY <3>1, <3>2, <3>3, <3>4, <1>q
    <2> QED BY <1>8, <2>3, <2>4 DEF S3!DeleteBatch
  <1>9. CASE S3!DeleteOne
    <2>1. UNCHANGED <<lBucket, lEver, lFresh, lWrites>> /\ lStore' = S3!Erased({lCall.key}) /\
          lKept' = lKept \ {lCall.key}
      BY <1>9 DEF S3!DeleteOne
    <2>2. (S3!Go("ok") /\ UNCHANGED lLeft) \/ (S3!Go("err") /\ S3!Spent)
      BY <1>9 DEF S3!DeleteOne
    <2>3. C(lCall') BY <2>2, <1>go, <1>e1
    <2>4. S(lStore') BY <2>1, <1>er
    <2>5. K(lKept', lEver', lFresh') BY <2>1, <1>t DEF K
    <2>6. N(lWrites', lLeft', lBucket') BY <2>1, <2>2, <1>bk, <1>sp, <1>lv
    <2> QED BY <2>3, <2>4, <2>5, <2>6, <1>q
  <1>10. CASE S3!GetObject
    <2>1. UNCHANGED <<lStore, lBucket, lKept, lEver, lFresh, lWrites, lLeft>> /\ lCall.step = "get"
      BY <1>10 DEF S3!GetObject, S3!At
    <2>2. lCall.op # "ensure" BY <2>1, <1>t, <1>e1
    <2>3. CASE lStore[lCall.key] = 0
      <3>1. S3!Go("err") BY <1>10, <2>3 DEF S3!GetObject
      <3>2. C(lCall') BY <3>1, <1>go, <1>e1
      <3> QED BY <2>1, <3>2, <1>t, <1>q
    <2>4. CASE lStore[lCall.key] # 0
      <3>1. lCall' = [lCall EXCEPT !.step = "body", !.body = lStore[lCall.key]]
        BY <1>10, <2>4 DEF S3!GetObject
      <3>2. lCall'.op = lCall.op /\ lCall'.failed = lCall.failed /\ lCall'.body = lStore[lCall.key] /\
            lCall'.step = "body"
        BY <3>1, <1>s DEF S3!Calls
      <3>3. lStore[lCall.key] \in B BY <1>s, <1>f, <1>t DEF S
      <3>4. F(lCall') BY <3>2, <3>3, <1>t DEF F
      <3>5. C(lCall') BY <3>2, <3>4, <2>2, <1>e1
      <3> QED BY <2>1, <3>5, <1>t, <1>q
    <2> QED BY <2>3, <2>4
  <1>11. CASE S3!GetBody
    <2>1. UNCHANGED <<lStore, lBucket, lKept, lEver, lFresh, lWrites, lLeft>> /\ lCall.step = "body"
      BY <1>11 DEF S3!GetBody, S3!At
    <2>2. lCall.op # "ensure" BY <2>1, <1>t, <1>e1
    <2>3. lCall'.op = lCall.op /\ lCall'.body = lCall.body /\ lCall'.failed \in {0, lCall.failed} /\
          lCall'.step \in {"body", "ok", "put"}
      BY <1>11, <1>s DEF S3!GetBody, S3!Calls
    <2>4. F(lCall') BY <2>3, <1>t, <1>m DEF F
    <2>5. C(lCall') BY <2>2, <2>3, <2>4, <1>e1
    <2> QED BY <2>1, <2>5, <1>t, <1>q
  <1>12. CASE S3!PutObject
    <2>1. /\ UNCHANGED <<lBucket, lKept, lWrites>> /\ lCall.step = "put"
          /\ lStore' = [lStore EXCEPT ![S3!Target] = lCall.body]
          /\ lEver' = lEver \cup {S3!Target} /\ lFresh' = lFresh \cup {S3!Target}
      BY <1>12 DEF S3!PutObject, S3!At
    <2>2. lCall.op # "ensure" BY <2>1, <1>t, <1>e1
    <2>3. S3!Target \in S3!Keys
      <3>1. lCall.key \in 1..S3NumKeys BY <1>s, <1>f DEF S3!Keys
      <3>2. lCall.key % S3NumKeys \in 0..S3NumKeys - 1 BY <3>1, <1>b
      <3> QED BY <3>1, <3>2, <1>b DEF S3!Target, S3!Keys
    <2>4. lCall.body \in B BY <1>t DEF F
    <2>5. S(lStore') BY <2>1, <2>3, <2>4, <1>t DEF S
    <2>6. K(lKept', lEver', lFresh') BY <2>1, <2>3, <1>t DEF K
    <2>7. CASE S3!Go("ok") /\ UNCHANGED lLeft
      <3>1. C(lCall') BY <2>7, <1>go, <1>e1
      <3> QED BY <2>1, <2>5, <2>6, <2>7, <3>1, <1>t, <1>q
    <2>8. CASE S3!Spent /\ lCall' = IF S3!Exhausted THEN [lCall EXCEPT !.step = "err"] ELSE [lCall EXCEPT !.failed = @ + 1]
      <3>1. N(lWrites', lLeft', lBucket') BY <2>1, <2>8, <1>bk, <1>sp
      <3>2. CASE S3!Exhausted
        <4>1. S3!Go("err") BY <2>8, <3>2 DEF S3!Go
        <4>2. C(lCall') BY <4>1, <1>go, <1>e1
        <4> QED BY <2>5, <2>6, <3>1, <4>2, <1>q
      <3>3. CASE ~S3!Exhausted
        <4>1. lCall'.op = lCall.op /\ lCall'.step = lCall.step /\ lCall'.failed = lCall.failed + 1 /\
              lCall'.body = lCall.body
          BY <2>8, <3>3, <1>s DEF S3!Calls
        <4>2. lCall.failed + 1 < S3Attempts /\ lCall.failed \in Int /\ lCall.failed >= 0
          BY <3>3, <1>s, <1>f, <1>t, <1>b DEF S3!Exhausted, F
        <4>3. Most(lCall.op) = S3Attempts BY <2>2
        <4>4. lCall'.failed <= Most(lCall'.op) - 1 /\ lCall'.failed >= 0
          BY <4>1, <4>2, <4>3, <1>b
        <4>5. F(lCall') BY <4>1, <4>4, <1>t DEF F
        <4>6. C(lCall') BY <4>1, <4>5, <2>2, <2>1, <1>e1
        <4> QED BY <2>5, <2>6, <3>1, <4>6, <1>q
      <3> QED BY <3>2, <3>3
    <2> QED BY <1>12, <2>7, <2>8 DEF S3!PutObject
  <1>13. CASE S3!EndpointUp
    <2>1. UNCHANGED <<lStore, lBucket, lKept, lEver, lFresh, lWrites>> /\ lCall.step = "wait"
      BY <1>13 DEF S3!EndpointUp, S3!At
    <2>2. lCall.op = "ensure" BY <2>1, <1>t, <1>e1
    <2>3. CASE S3!Go("create") /\ UNCHANGED lLeft
      <3>1. C(lCall') BY <2>2, <2>3, <1>go, <1>e1
      <3> QED BY <2>1, <2>3, <3>1, <1>t, <1>q
    <2>4. CASE S3!Spent /\ lCall' = IF lCall.failed + 1 >= S3Waits THEN [lCall EXCEPT !.step = "err"] ELSE [lCall EXCEPT !.failed = @ + 1]
      <3>1. N(lWrites', lLeft', lBucket') BY <2>1, <2>4, <1>bk, <1>sp
      <3>2. CASE lCall.failed + 1 >= S3Waits
        <4>1. S3!Go("err") BY <2>4, <3>2 DEF S3!Go
        <4>2. C(lCall') BY <4>1, <1>go, <1>e1
        <4> QED BY <2>1, <3>1, <4>2, <1>t, <1>q
      <3>3. CASE ~(lCall.failed + 1 >= S3Waits)
        <4>1. lCall'.op = lCall.op /\ lCall'.step = lCall.step /\ lCall'.failed = lCall.failed + 1 /\
              lCall'.body = lCall.body
          BY <2>4, <3>3, <1>s DEF S3!Calls
        <4>2. lCall.failed \in Int /\ lCall.failed >= 0 BY <1>s, <1>f, <1>t DEF F
        <4>3. Most(lCall.op) = S3Waits BY <2>2
        <4>4. lCall'.failed <= Most(lCall'.op) - 1 /\ lCall'.failed >= 0
          BY <4>1, <4>2, <4>3, <3>3, <1>b
        <4>5. F(lCall') BY <4>1, <4>4, <1>t DEF F
        <4>6. C(lCall') BY <4>1, <4>5, <2>2, <2>1, <1>e1
        <4> QED BY <2>1, <3>1, <4>6, <1>t, <1>q
      <3> QED BY <3>2, <3>3
    <2> QED BY <1>13, <2>3, <2>4 DEF S3!EndpointUp
  <1>14. CASE S3!CreateBucket
    <2>1. UNCHANGED <<lStore, lKept, lEver, lFresh, lWrites>> /\ lCall.step = "create" /\ S3!Go("head")
      BY <1>14 DEF S3!CreateBucket, S3!At
    <2>2. lCall.op = "ensure" BY <2>1, <1>t, <1>e1
    <2>3. C(lCall') BY <2>1, <2>2, <1>go, <1>e1
    <2>4. (lBucket' = TRUE /\ UNCHANGED lLeft) \/ (S3!Spent /\ UNCHANGED lBucket)
      BY <1>14 DEF S3!CreateBucket
    <2>5. N(lWrites', lLeft', lBucket') BY <2>1, <2>4, <1>bk, <1>sp, <1>lv
    <2> QED BY <2>1, <2>3, <2>5, <1>t, <1>q
  <1>15. CASE S3!HeadBucket
    <2>1. UNCHANGED <<lStore, lBucket, lKept, lEver, lFresh, lWrites>> /\ lCall.step = "head"
      BY <1>15 DEF S3!HeadBucket, S3!At
    <2>2. lCall.op = "ensure" BY <2>1, <1>t, <1>e1
    <2>3. (\E step \in {"config", "err"} : S3!Go(step)) /\ (UNCHANGED lLeft \/ S3!Spent)
      BY <1>15 DEF S3!HeadBucket
    <2>4. C(lCall') BY <2>2, <2>3, <1>go, <1>e1
    <2>5. N(lWrites', lLeft', lBucket') BY <2>1, <2>3, <1>bk, <1>sp, <1>lv
    <2> QED BY <2>1, <2>4, <2>5, <1>t, <1>q
  <1>16. CASE S3!ConfigureBucket
    <2>1. UNCHANGED <<lStore, lBucket, lKept, lEver, lFresh, lWrites, lLeft>> /\ S3!Go("ok")
      BY <1>16 DEF S3!ConfigureBucket
    <2>2. C(lCall') BY <2>1, <1>go, <1>e1
    <2> QED BY <2>1, <2>2, <1>t, <1>q
  <1>17. CASE S3!BootAgain
    <2>1. UNCHANGED <<lStore, lBucket, lKept, lEver, lFresh, lWrites, lLeft>>
      BY <1>17 DEF S3!BootAgain
    <2>2. lCall'.op = "ensure" /\ lCall'.step = "wait" /\ lCall'.failed = 0 /\ lCall'.body = 0
      BY <1>17 DEF S3!BootAgain, S3!Empty
    <2>3. F(lCall') BY <2>2, <1>m, <1>b DEF F
    <2>4. C(lCall') BY <2>2, <2>3, <1>e1
    <2> QED BY <2>1, <2>4, <1>t, <1>q
  <1>18. CASE UNCHANGED s3Vars BY <1>18, <1>t, <1>q DEF s3Vars
  <1> QED BY <1>1, <1>2, <1>3, <1>4, <1>5, <1>6, <1>7, <1>8, <1>9, <1>10, <1>11, <1>12, <1>13,
             <1>14, <1>15, <1>16, <1>17, <1>18 DEF S3!Next

(* A step of the suite is a step of the client, or leaves it alone. *)
LEMMA S3Next == [Next]_allVars => [S3!Next]_s3Vars
  BY DEF Next, allVars, VoidStep, ScanStep, GitStep, PrsStep, WebStep, ConfStep, MapsStep,
         ImpStep, BootStep, R2Step, D1Step, S3Step

(* What a listing keeps: up to its token it has every key that stayed, and   *)
(* every key it has was there.                                               *)
LEMMA S3Inductive == Spec => [](S3!StateOK /\ S3!ListInv /\ S3!RmEmptied)
  <1> DEFINE Inv == S3!StateOK /\ S3!ListInv /\ S3!RmEmptied
  <1>1. Init => Inv BY S3Bounds, S3InitL DEF Init
  <1>2. Inv /\ [Next]_allVars => Inv'
    <2>1. Inv /\ S3!Next => Inv' BY S3Bounds, S3Steps
    <2>2. Inv /\ UNCHANGED s3Vars => Inv' BY S3Stutter
    <2> QED BY <2>1, <2>2, S3Next
  <1> QED BY <1>1, <1>2, PTL DEF Spec

(* For every number of keys, page size and number of attempts: a recursive   *)
(* delete that succeeds left nothing but what others wrote after its last,   *)
(* empty page (s3.rs s3_rm_prefix).                                          *)
THEOREM RemovalsAreComplete == Spec => []S3!RmEmptied
  BY S3Inductive, PTL

(* Listings in pages miss nothing, for every set of keys, page size and      *)
(* number of retries, and whatever others write and delete meanwhile: the    *)
(* S3 client's listing holds every key that stayed, none that never was and  *)
(* none twice (s3.rs list_once), and a walk through the object browser       *)
(* reaches every key that was there throughout, past pages whose rows were   *)
(* all dropped and through folders with an empty name (r2.rs shape_page).    *)
THEOREM ListingsAreComplete == Spec => []ListingsComplete
  <1>1. S3!ListInv => S3!ListComplete BY DEF S3!ListInv, S3!ListComplete, S3!Done, S3!At
  <1>2. R2!WalkInv => R2!BrowseReachesEveryKey BY DEF R2!WalkInv, R2!BrowseReachesEveryKey
  <1>3. S3!ListInv /\ R2!WalkInv => ListingsComplete BY <1>1, <1>2 DEF ListingsComplete
  <1> QED BY <1>3, S3Inductive, R2Inductive, PTL

(* The S3 client keeps its types. *)
LEMMA S3Typed == Spec => []S3!TypeOK
  <1> DEFINE Ok == S3!StateOK
             Inv == S3!TypeOK /\ S3!EnsureInv
  <1>1. Init => Inv BY S3Bounds, S3TypeInit DEF Init
  <1>2. Ok /\ Ok' /\ Inv /\ [Next]_allVars => Inv'
    BY S3Bounds, S3Next, S3TypeStep DEF S3!vars, s3Vars
  <1> QED BY <1>1, <1>2, S3Inductive, PTL DEF Spec


-----------------------------------------------------------------------------
(* Every part of MCDelivery keeps its types, for every value of the          *)
(* constants: what each step reads is of the kind the code declares, the     *)
(* counters stay within their bounds and every process is at one of its      *)
(* steps.                                                                    *)
THEOREM DeliveryTypes == Spec => []TypeOK
  <1>1. /\ Void!TypeOK /\ Scan!TypeOK /\ Git!TypeOK /\ Prs!TypeOK /\ Web!TypeOK /\ Conf!TypeOK
        /\ Maps!TypeOK /\ Imp!TypeOK /\ Boot!TypeOK /\ R2!TypeOK /\ D1!TypeOK /\ S3!TypeOK
        => TypeOK
    BY DEF TypeOK
  <1> QED BY <1>1, VoidInductive, ScanInductive, GitTyped, PrsInductive, WebTyped, ConfTyped,
             MapsTyped, ImpInductive, BootInductive, R2Typed, D1Typed, S3Typed, PTL


=============================================================================
