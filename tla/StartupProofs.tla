---------------------------- MODULE StartupProofs ----------------------------
(***************************************************************************)
(* What one process that starts, is killed and starts again keeps true of *)
(* its database, for any rows, prices and secrets and any legacy database. *)
(* With two processes on one file the claims about money are false (run    *)
(* startup_twice), so that the theorems assume a single instance.          *)
(***************************************************************************)
EXTENDS Startup, TLAPS

-----------------------------------------------------------------------------
(* The invariant of the database, at rest or not. *)

TablesFit(d) == /\ \A c \in Columns : d.decl[c] = "REAL" => c \in Money
                /\ \A t \in Tables \ d.tables : \A c \in ColumnsOf[t] : d.decl[c] = "none"
                /\ \A t \in d.tables : \A c \in ColumnsOf[t] \cap Original : d.decl[c] # "none"

RowsFit(d) ==
    /\ \A k \in ApiKeys \cap d.rows : d.keys[k] <= 1
    /\ \A p \in Providers \cap d.rows :
          /\ d.prov[p].cred.word = d.saved.word[p]
          /\ d.prov[p].cred.layers <= 1
          /\ d.prov[p].hash \in {NoHash, d.prov[p].cred.word, ""}

HasProtocols(d) == \A p \in Providers \cap d.rows : d.prov[p].protocols # ""
HasAddresses(d) == \A p \in Providers \cap d.rows : d.prov[p].aurl = d.saved.aurl[p]

VersionsFit(d) ==
    /\ d.version >= 1 => HasProtocols(d)
    /\ d.version >= 2 => /\ HasAddresses(d)
                         /\ d.decl["openai_base_url"] # "none"
                         /\ d.decl["anthropic_base_url"] # "none"
    /\ d.version < 2 => \A p \in Providers \cap d.rows : d.saved.aurl[p] = "set"

ListLeft(d) == d.saved.edited /\ d.saved.prices # {}
PricesFit(d) == ListLeft(d) => d.prices = d.saved.prices

Sound(d) == /\ d \in Database /\ InUnit(d) /\ TablesFit(d) /\ RowsFit(d)
            /\ VersionsFit(d) /\ PricesFit(d)

-----------------------------------------------------------------------------
(* The invariant of a start: what is done when it has come to a place. *)

PastSealing == {"finger", "fingering", "serve"}
PastV3 == PastSealing \cup {"price", "pricing", "seal", "sealing"}
PastLast == PastV3 \cup {"v3"}
PastRebuild == PastLast \cup {"last"}
PastConvert == PastRebuild \cup {"fk", "rebuild"}
PastHashing == PastConvert \cup {"money", "convert"}
PastLate == PastHashing \cup {"hash", "hashing"}
PastV2 == PastLate \cup {"late"}
PastUrl == PastV2 \cup {"backfill", "v2"}
PastRename == PastUrl \cup {"url"}
PastV1 == PastRename \cup {"rename"}
PastEarly == PastV1 \cup {"version", "anthropic", "openai", "v1"}
PastSchema == PastEarly \cup {"early"}
Started == PastSchema \cup {"schema"}

HasColumns(d, s) == \A c \in Ensured[s] : d.decl[c] # "none"

SchemaDone(i) ==
    /\ pc[i] \in PastSchema => db.tables = Tables
    /\ pc[i] \in PastEarly => HasColumns(db, "early")
    /\ pc[i] \in PastRename => db.decl["openai_base_url"] # "none"
    /\ pc[i] \in PastUrl => HasColumns(db, "url")
    /\ pc[i] \in PastLate => HasColumns(db, "late")
    /\ pc[i] \in PastLast => HasColumns(db, "last")

VersionDone(i) ==
    /\ pc[i] \in Started => db.version <= SchemaVersion
    /\ pc[i] \in {"anthropic", "openai", "v1"} => mem[i].version = db.version
    /\ pc[i] = "v1" => HasProtocols(db)
    /\ pc[i] \in PastV1 => db.version >= 1
    /\ pc[i] \in {"rename", "url", "backfill", "v2"} =>
          (mem[i].version < 2 <=> db.version < 2)
    /\ pc[i] = "v2" => HasAddresses(db)
    /\ pc[i] \in PastV2 => db.version >= 2
    /\ pc[i] \in PastV3 => db.version = SchemaVersion

MoneyDone(i) ==
    /\ pc[i] = "convert" => mem[i].floats = FloatColumns(db)
    /\ pc[i] \in PastConvert => FloatColumns(db) = {}
    /\ pc[i] = "rebuild" => mem[i].rebuild = NeedsRebuild(db)
    /\ pc[i] \in PastRebuild => db.fk = "set_null"

AllHashed(d) == \A p \in Unhashed(d) : d.prov[p].cred.word = ""

RowwiseDone(i) ==
    /\ pc[i] = "hashing" => /\ mem[i].todo = KeysInClear(db)
                            /\ \A k \in mem[i].todo : mem[i].keys[k] = 0
    /\ pc[i] \in PastHashing => KeysInClear(db) = {}
    /\ pc[i] = "pricing" => /\ mem[i].todo \subseteq PriceList
                            /\ mem[i].todo # {} => ~ListLeft(db)
    /\ pc[i] = "sealing" => /\ mem[i].todo = Unsealed(db)
                            /\ \A p \in mem[i].todo : mem[i].creds[p] = db.prov[p].cred
    /\ pc[i] \in PastSealing => Unsealed(db) = {}
    /\ pc[i] = "fingering" => /\ mem[i].todo = Unhashed(db)
                              /\ \A p \in mem[i].todo : mem[i].creds[p] = db.prov[p].cred
    /\ pc[i] = "serve" => AllHashed(db)

IInv ==
    /\ Sound(db) /\ Sound(synced)
    /\ pc \in [Instances -> Places] /\ mem \in [Instances -> Memory]
    /\ \A i \in Instances : /\ SchemaDone(i) /\ VersionDone(i)
                            /\ MoneyDone(i) /\ RowwiseDone(i)
-----------------------------------------------------------------------------
(* The schema, spelled out. *)

LEMMA TablesAre == Tables = {"users", "api_keys", "providers", "request_logs",
                             "billing_transactions", "usage_daily", "model_prices"}
BY DEF Tables, ColumnsOf

LEMMA ColumnsAre ==
    Columns = {"balance", "token_version", "rate_limit_rpm", "key_suffix", "protocols",
               "openai_base_url", "anthropic_base_url", "key_hash", "request_type", "cost",
               "cached_tokens", "amount", "balance_after", "daily_cost", "cached_price"}
<1>1. \A c : c \in Columns <=> \E t \in Tables : c \in ColumnsOf[t]
  BY DEF Columns
<1> QED
  BY <1>1, TablesAre, SMTT(30) DEF ColumnsOf

LEMMA ColumnTables == \A t \in Tables : ColumnsOf[t] \subseteq Columns
BY DEF Columns

LEMMA OneTableEach ==
    \A t, u \in Tables : \A c \in ColumnsOf[t] : c \in ColumnsOf[u] => t = u
BY TablesAre, SMTT(30) DEF ColumnsOf

LEMMA MoneyColumns == Money \subseteq Columns
BY ColumnsAre DEF Money

LEMMA NewTypes == \A c \in Columns : /\ NewType(c) \in {"TEXT", "INTEGER"}
                                     /\ c \in Money => NewType(c) = "INTEGER"
BY DEF NewType

LEMMA SecretExists == AnySecret \in Secrets
BY StartupAssumption DEF AnySecret

-----------------------------------------------------------------------------
(* What each statement keeps. *)

(* A statement that changes declarations and nothing else. *)
SameData(d, e) == /\ e.version = d.version /\ e.rows = d.rows /\ e.keys = d.keys
                  /\ e.prov = d.prov /\ e.prices = d.prices /\ e.saved = d.saved
KeepsColumns(d, e) == \A c \in Columns : d.decl[c] # "none" => e.decl[c] # "none"

LEMMA SchemaStep ==
    ASSUME NEW d, Sound(d), NEW e \in Database, SameData(d, e), KeepsColumns(d, e),
           InUnit(e), TablesFit(e)
    PROVE  Sound(e)
<1>1. RowsFit(e) /\ PricesFit(e)
  BY DEF Sound, SameData, RowsFit, PricesFit, ListLeft
<1>2. VersionsFit(e)
  <2>1. HasProtocols(e) <=> HasProtocols(d)
    BY DEF SameData, HasProtocols
  <2>2. HasAddresses(e) <=> HasAddresses(d)
    BY DEF SameData, HasAddresses
  <2> QED
    BY <2>1, <2>2, ColumnsAre DEF Sound, VersionsFit, SameData, KeepsColumns
<1> QED
  BY <1>1, <1>2 DEF Sound

LEMMA CreateTableSound ==
    ASSUME NEW d, Sound(d), NEW t \in Tables \ d.tables
    PROVE  /\ Sound(CreateTable(d, t))
           /\ CreateTable(d, t).version = d.version
<1> DEFINE e == CreateTable(d, t)
<1>1. /\ d \in Database
      /\ e = [d EXCEPT !.tables = e.tables, !.decl = e.decl, !.fk = e.fk]
      /\ e.tables = d.tables \cup {t}
      /\ e.decl = [c \in Columns |-> IF c \in ColumnsOf[t] THEN NewType(c) ELSE d.decl[c]]
      /\ e.fk \in {"restrict", "set_null"}
  BY DEF Sound, CreateTable, Database
<1>2. e \in Database
  <2>1. e.decl \in [Columns -> {"none", "TEXT", "INTEGER", "REAL"}]
    BY <1>1, NewTypes DEF Database
  <2>2. e.tables \subseteq Tables
    BY <1>1 DEF Database
  <2> QED
    BY <1>1, <2>1, <2>2 DEF Database
<1>3. SameData(d, e) /\ e.scale = d.scale
  BY <1>1 DEF Database, SameData
<1>4. \A c \in ColumnsOf[t] : d.decl[c] = "none"
  BY DEF Sound, TablesFit
<1>5. InUnit(e)
  BY <1>1, <1>3, <1>4, MoneyColumns, NewTypes DEF Sound, InUnit
<1>6. TablesFit(e)
  <2>1. \A c \in Columns : e.decl[c] = "REAL" => c \in Money
    BY <1>1, NewTypes DEF Sound, TablesFit
  <2>2. \A u \in Tables \ e.tables : \A c \in ColumnsOf[u] : e.decl[c] = "none"
    BY <1>1, ColumnTables, OneTableEach DEF Sound, TablesFit
  <2>3. \A u \in e.tables : \A c \in ColumnsOf[u] \cap Original : e.decl[c] # "none"
    BY <1>1, ColumnTables, NewTypes DEF Sound, TablesFit, Database
  <2> QED
    BY <2>1, <2>2, <2>3 DEF TablesFit
<1>7. KeepsColumns(d, e)
  BY <1>1, NewTypes DEF KeepsColumns
<1> QED
  BY <1>2, <1>3, <1>5, <1>6, <1>7, SchemaStep DEF SameData

LEMMA AddColumnSound ==
    ASSUME NEW d, Sound(d), d.tables = Tables, NEW c \in Columns, d.decl[c] = "none"
    PROVE  LET e == AddColumn(d, c) IN
           /\ Sound(e) /\ SameData(d, e) /\ KeepsColumns(d, e) /\ e.decl[c] # "none"
           /\ e.tables = d.tables /\ e.fk = d.fk /\ FloatColumns(e) = FloatColumns(d)
<1> DEFINE e == AddColumn(d, c)
<1>1. /\ e = [d EXCEPT !.decl = [d.decl EXCEPT ![c] = NewType(c)]] /\ d \in Database
  BY DEF AddColumn, Sound, Database
<1>2. /\ e.decl = [d.decl EXCEPT ![c] = NewType(c)] /\ SameData(d, e) /\ e.scale = d.scale
      /\ e.tables = d.tables /\ e.fk = d.fk
  BY <1>1 DEF Database, SameData
<1>3. /\ e.decl \in [Columns -> {"none", "TEXT", "INTEGER", "REAL"}]
      /\ \A x \in Columns : e.decl[x] = IF x = c THEN NewType(c) ELSE d.decl[x]
  BY <1>1, <1>2, NewTypes DEF Database
<1>4. e \in Database
  BY <1>1, <1>3 DEF Database
<1>5. InUnit(e)
  BY <1>2, <1>3, MoneyColumns, NewTypes DEF Sound, InUnit
<1>6. TablesFit(e)
  BY <1>2, <1>3, NewTypes DEF Sound, TablesFit
<1>7. KeepsColumns(d, e) /\ e.decl[c] # "none"
  BY <1>3, NewTypes DEF KeepsColumns
<1>8. FloatColumns(e) = FloatColumns(d)
  BY <1>3, MoneyColumns, NewTypes DEF FloatColumns
<1> QED
  BY <1>2, <1>4, <1>5, <1>6, <1>7, <1>8, SchemaStep

(* The order matters here: what is converted are exactly the columns that *)
(* are still in yuan, and a table that is rebuilt later has none of them. *)
LEMMA ConvertMoneySound ==
    ASSUME NEW d, Sound(d), d.tables = Tables
    PROVE  LET e == ConvertMoney(d, FloatColumns(d)) IN
           /\ Sound(e) /\ SameData(d, e) /\ KeepsColumns(d, e)
           /\ e.tables = d.tables /\ FloatColumns(e) = {}
<1> DEFINE floats == FloatColumns(d)
           rebuilt == {t \in Tables : ColumnsOf[t] \cap floats # {}}
           e == ConvertMoney(d, floats)
<1>1. /\ d \in Database
      /\ e = [d EXCEPT !.decl = e.decl, !.scale = e.scale, !.fk = e.fk]
      /\ e.decl = [c \in Columns |-> IF \E t \in rebuilt : c \in ColumnsOf[t]
                                     THEN NewType(c) ELSE d.decl[c]]
      /\ e.scale = [m \in Money |-> IF m \in floats THEN d.scale[m] + 1 ELSE d.scale[m]]
      /\ e.fk \in {"restrict", "set_null"}
  BY DEF Sound, ConvertMoney, Database
<1>2. SameData(d, e) /\ e.tables = d.tables
  BY <1>1 DEF Database, SameData
<1>3. \A c \in Columns : \E t \in Tables : c \in ColumnsOf[t]
  BY DEF Columns
<1>4. \A m \in floats : m \in Money /\ m \in Columns /\ d.decl[m] = "REAL" /\ e.decl[m] = "INTEGER"
  BY <1>1, <1>3, MoneyColumns, NewTypes DEF FloatColumns
<1>5. \A c \in Columns \ floats : d.decl[c] # "REAL" /\ e.decl[c] \in {d.decl[c], NewType(c)}
  BY <1>1 DEF FloatColumns, Sound, TablesFit
<1>6. e \in Database
  <2>1. e.decl \in [Columns -> {"none", "TEXT", "INTEGER", "REAL"}]
    BY <1>1, NewTypes DEF Database
  <2>2. e.scale \in [Money -> Nat]
    BY <1>1 DEF Database
  <2> QED
    BY <1>1, <2>1, <2>2 DEF Database
<1>7. InUnit(e)
  BY <1>1, <1>4, <1>5, MoneyColumns, NewTypes DEF Sound, InUnit
<1>8. \A c \in Columns : e.decl[c] # "REAL"
  BY <1>4, <1>5, NewTypes
<1>keeps. KeepsColumns(d, e)
  BY <1>4, <1>5, NewTypes DEF KeepsColumns
<1>9. TablesFit(e) /\ FloatColumns(e) = {}
  <2>1. \A t \in e.tables : \A c \in ColumnsOf[t] \cap Original : e.decl[c] # "none"
    BY <1>2, <1>keeps, ColumnTables DEF Sound, TablesFit, KeepsColumns, Database
  <2>2. FloatColumns(e) = {}
    BY <1>8, MoneyColumns DEF FloatColumns
  <2> QED
    BY <1>1, <1>2, <1>8, <2>1, <2>2 DEF TablesFit, Database
<1> QED
  BY <1>2, <1>6, <1>7, <1>9, <1>keeps, SchemaStep

LEMMA RebuildLogsSound ==
    ASSUME NEW d, Sound(d), d.tables = Tables, FloatColumns(d) = {}
    PROVE  LET e == RebuildLogs(d) IN
           /\ Sound(e) /\ SameData(d, e) /\ KeepsColumns(d, e)
           /\ e.tables = d.tables /\ e.fk = "set_null" /\ FloatColumns(e) = {}
<1> DEFINE e == RebuildLogs(d)
<1>1. /\ d \in Database
      /\ e = [d EXCEPT !.decl = e.decl, !.fk = e.fk]
      /\ e.decl = [c \in Columns |-> IF c \in ColumnsOf["request_logs"]
                                     THEN NewType(c) ELSE d.decl[c]]
      /\ e.fk = "set_null"
  BY DEF Sound, RebuildLogs, Database
<1>2. SameData(d, e) /\ e.tables = d.tables /\ e.scale = d.scale
  BY <1>1 DEF Database, SameData
<1>3. \A c \in Columns : d.decl[c] # "REAL" /\ e.decl[c] \in {d.decl[c], NewType(c)}
  BY <1>1 DEF FloatColumns, Sound, TablesFit
<1>4. e \in Database
  <2>1. e.decl \in [Columns -> {"none", "TEXT", "INTEGER", "REAL"}]
    BY <1>1, NewTypes DEF Database
  <2> QED
    BY <1>1, <2>1 DEF Database
<1>5. InUnit(e)
  BY <1>2, <1>3, MoneyColumns, NewTypes DEF Sound, InUnit
<1>6. \A c \in Columns : e.decl[c] # "REAL"
  BY <1>3, NewTypes
<1>keeps. KeepsColumns(d, e)
  BY <1>3, NewTypes DEF KeepsColumns
<1>7. TablesFit(e) /\ FloatColumns(e) = {}
  <2>1. \A t \in e.tables : \A c \in ColumnsOf[t] \cap Original : e.decl[c] # "none"
    BY <1>2, <1>keeps, ColumnTables DEF Sound, TablesFit, KeepsColumns, Database
  <2>2. FloatColumns(e) = {}
    BY <1>6, MoneyColumns DEF FloatColumns
  <2> QED
    BY <1>1, <1>2, <1>6, <2>1, <2>2 DEF TablesFit, Database
<1> QED
  BY <1>1, <1>2, <1>4, <1>5, <1>7, <1>keeps, SchemaStep

(* A statement that changes rows, the version or prices and no declaration. *)
SameSchema(d, e) == /\ e.tables = d.tables /\ e.decl = d.decl
                    /\ e.scale = d.scale /\ e.fk = d.fk

LEMMA DataStep ==
    ASSUME NEW d, Sound(d), NEW e \in Database, SameSchema(d, e),
           RowsFit(e), VersionsFit(e), PricesFit(e)
    PROVE  Sound(e)
BY DEF Sound, SameSchema, InUnit, TablesFit

LEMMA SealedType ==
    ASSUME NEW s \in Secrets, NEW cred \in Credential
    PROVE  /\ Sealed(s, cred) \in Credential /\ Sealed(s, cred).word = cred.word
           /\ cred.layers = 0 => Sealed(s, cred).layers <= 1
           /\ HasPrefix(Sealed(s, cred))
<1> DEFINE n == cred.layers + 1
<1>1. n \in Nat /\ cred \in [word : Words, layers : Nat, secret : Secrets]
  BY DEF Credential
<1>2. Sealed(s, cred) = [cred EXCEPT !.layers = n, !.secret = s]
  BY DEF Sealed
<1> HIDE DEF n
<1>3. /\ Sealed(s, cred) \in [word : Words, layers : Nat, secret : Secrets]
      /\ Sealed(s, cred).word = cred.word /\ Sealed(s, cred).layers = n
  BY <1>1, <1>2
<1>4. n \in Nat /\ n > 0 /\ (cred.layers = 0 => n <= 1)
  BY <1>1 DEF n
<1> QED
  BY <1>3, <1>4 DEF Credential, HasPrefix

LEMMA DecryptType ==
    ASSUME NEW s \in Secrets, NEW cred \in Credential
    PROVE  DecryptOrPlain(s, cred) \in {cred.word, ""} /\ DecryptOrPlain(s, cred) \in Words
BY DEF DecryptOrPlain, Credential, Words

(* The two statements of version 1: with those of both types every row has *)
(* a protocol.                                                             *)
LEMMA BackfillProtocolsSound ==
    ASSUME NEW d, Sound(d), NEW protocol \in Protocols, NEW types \in SUBSET Protocols
    PROVE  LET e == BackfillProtocols(d, protocol, types) IN
           /\ Sound(e) /\ SameSchema(d, e) /\ e.version = d.version
           /\ e.rows = d.rows /\ e.keys = d.keys
           /\ types = Protocols => HasProtocols(e)
           /\ HasAddresses(d) => HasAddresses(e)
<1> DEFINE e == BackfillProtocols(d, protocol, types)
           New(p) == IF p \in d.rows /\ d.prov[p].protocols = "" /\ d.prov[p].type \in types
                     THEN [d.prov[p] EXCEPT !.protocols = protocol] ELSE d.prov[p]
<1>1. d \in Database /\ d.prov \in [Providers -> Row]
  BY DEF Sound, Database
<1>2. e = [d EXCEPT !.prov = [p \in Providers |-> New(p)]]
  BY DEF BackfillProtocols
<1>3. \A p \in Providers : New(p) \in Row
  BY <1>1 DEF Row, Protocols
<1>4. \A p \in Providers : /\ New(p).aurl = d.prov[p].aurl /\ New(p).cred = d.prov[p].cred
                           /\ New(p).hash = d.prov[p].hash
                           /\ d.prov[p].protocols # "" => New(p).protocols # ""
                           /\ p \in d.rows /\ types = Protocols => New(p).protocols # ""
  BY <1>1 DEF Row, Protocols
<1> HIDE DEF New
<1>5. /\ e \in Database /\ SameSchema(d, e) /\ e.prov = [p \in Providers |-> New(p)]
      /\ e.version = d.version /\ e.rows = d.rows /\ e.keys = d.keys
      /\ e.prices = d.prices /\ e.saved = d.saved
  BY <1>1, <1>2, <1>3 DEF Database, SameSchema
<1> HIDE DEF e
<1>row. \A p \in Providers : e.prov[p] = New(p)
  BY <1>5
<1>6. RowsFit(e)
  <2>1. ASSUME NEW p \in Providers \cap e.rows
        PROVE  /\ e.prov[p].cred.word = e.saved.word[p] /\ e.prov[p].cred.layers <= 1
               /\ e.prov[p].hash \in {NoHash, e.prov[p].cred.word, ""}
    <3>1. e.prov[p].cred = d.prov[p].cred /\ e.prov[p].hash = d.prov[p].hash
      BY <1>4, <1>row
    <3> QED
      BY <1>5, <3>1 DEF Sound, RowsFit
  <2> QED
    BY <1>5, <2>1 DEF Sound, RowsFit
<1>7. HasAddresses(d) => HasAddresses(e)
  <2>1. \A p \in Providers : e.prov[p].aurl = d.prov[p].aurl
    BY <1>4, <1>row
  <2> QED
    BY <1>5, <2>1 DEF HasAddresses
<1>8. (HasProtocols(d) => HasProtocols(e)) /\ (types = Protocols => HasProtocols(e))
  BY <1>4, <1>5 DEF HasProtocols
<1>9. VersionsFit(e)
  BY <1>5, <1>7, <1>8 DEF Sound, VersionsFit, SameSchema
<1>10. PricesFit(e)
  BY <1>5 DEF Sound, PricesFit, ListLeft
<1>11. Sound(e)
  BY <1>5, <1>6, <1>9, <1>10, DataStep
<1> QED
  BY <1>5, <1>7, <1>8, <1>11 DEF e

LEMMA BackfillUrlsSound ==
    ASSUME NEW d, Sound(d), d.version < 2
    PROVE  LET e == BackfillUrls(d) IN
           /\ Sound(e) /\ SameSchema(d, e) /\ e.version = d.version
           /\ e.rows = d.rows /\ e.keys = d.keys /\ HasAddresses(e)
<1> DEFINE e == BackfillUrls(d)
           New(p) == IF p \in d.rows THEN [d.prov[p] EXCEPT !.aurl = "set"] ELSE d.prov[p]
<1>1. d \in Database /\ d.prov \in [Providers -> Row]
  BY DEF Sound, Database
<1>2. e = [d EXCEPT !.prov = [p \in Providers |-> New(p)]]
  BY DEF BackfillUrls
<1>3. \A p \in Providers : New(p) \in Row
  BY <1>1 DEF Row
<1>4. \A p \in Providers : /\ New(p).cred = d.prov[p].cred /\ New(p).hash = d.prov[p].hash
                           /\ New(p).protocols = d.prov[p].protocols
                           /\ p \in d.rows => New(p).aurl = "set"
  BY <1>1 DEF Row
<1> HIDE DEF New
<1>5. /\ e \in Database /\ SameSchema(d, e) /\ e.prov = [p \in Providers |-> New(p)]
      /\ e.version = d.version /\ e.rows = d.rows /\ e.keys = d.keys
      /\ e.prices = d.prices /\ e.saved = d.saved
  BY <1>1, <1>2, <1>3 DEF Database, SameSchema
<1> HIDE DEF e
<1>row. \A p \in Providers : e.prov[p] = New(p)
  BY <1>5
<1>6. RowsFit(e)
  <2>1. ASSUME NEW p \in Providers \cap e.rows
        PROVE  /\ e.prov[p].cred.word = e.saved.word[p] /\ e.prov[p].cred.layers <= 1
               /\ e.prov[p].hash \in {NoHash, e.prov[p].cred.word, ""}
    <3>1. e.prov[p].cred = d.prov[p].cred /\ e.prov[p].hash = d.prov[p].hash
      BY <1>4, <1>row
    <3> QED
      BY <1>5, <3>1 DEF Sound, RowsFit
  <2> QED
    BY <1>5, <2>1 DEF Sound, RowsFit
<1>7. HasAddresses(e)
  BY <1>4, <1>5 DEF HasAddresses, Sound, VersionsFit
<1>8. HasProtocols(d) => HasProtocols(e)
  BY <1>4, <1>5 DEF HasProtocols
<1>9. VersionsFit(e)
  BY <1>5, <1>7, <1>8 DEF Sound, VersionsFit, SameSchema
<1>10. PricesFit(e)
  BY <1>5 DEF Sound, PricesFit, ListLeft
<1>11. Sound(e)
  BY <1>5, <1>6, <1>9, <1>10, DataStep
<1> QED
  BY <1>5, <1>7, <1>11 DEF e

(* A version may be written once what it stands for is done. *)
LEMMA SetVersionSound ==
    ASSUME NEW d, Sound(d), NEW v \in Nat, v >= d.version,
           v >= 1 => HasProtocols(d),
           v >= 2 => /\ HasAddresses(d)
                     /\ d.decl["openai_base_url"] # "none"
                     /\ d.decl["anthropic_base_url"] # "none"
    PROVE  LET e == [d EXCEPT !.version = v] IN
           /\ Sound(e) /\ SameSchema(d, e) /\ e.version = v
           /\ e.rows = d.rows /\ e.keys = d.keys /\ e.prov = d.prov
           /\ e.saved = d.saved /\ e.prices = d.prices
<1> DEFINE e == [d EXCEPT !.version = v]
<1>1. /\ e \in Database /\ SameSchema(d, e) /\ e.version = v /\ d.version \in Nat
      /\ e.rows = d.rows /\ e.keys = d.keys /\ e.prov = d.prov
      /\ e.saved = d.saved /\ e.prices = d.prices
  BY DEF Sound, Database, SameSchema
<1> HIDE DEF e
<1>2. RowsFit(e) /\ PricesFit(e)
  BY <1>1 DEF Sound, RowsFit, PricesFit, ListLeft
<1>3. VersionsFit(e)
  <2>1. (HasProtocols(e) <=> HasProtocols(d)) /\ (HasAddresses(e) <=> HasAddresses(d))
    BY <1>1 DEF HasProtocols, HasAddresses
  <2> QED
    BY <1>1, <2>1 DEF Sound, VersionsFit, SameSchema
<1> QED
  BY <1>1, <1>2, <1>3, DataStep DEF e

LEMMA HashKeySound ==
    ASSUME NEW d, Sound(d), NEW m \in Memory, NEW k \in ApiKeys \cap d.rows, m.keys[k] = 0
    PROVE  LET e == HashKey(d, m, k) IN
           /\ Sound(e) /\ SameSchema(d, e) /\ e.version = d.version
           /\ KeysInClear(e) = KeysInClear(d) \ {k}
<1> DEFINE e == HashKey(d, m, k)
<1>1. /\ d \in Database /\ e = [d EXCEPT !.keys = [d.keys EXCEPT ![k] = 1]]
  BY DEF Sound, HashKey, Database
<1>2. /\ e \in Database /\ SameSchema(d, e) /\ e.keys = [d.keys EXCEPT ![k] = 1]
      /\ e.version = d.version /\ e.rows = d.rows /\ e.prov = d.prov
      /\ e.prices = d.prices /\ e.saved = d.saved /\ d.keys \in [ApiKeys -> Nat]
  BY <1>1 DEF Database, SameSchema
<1> HIDE DEF e
<1>3. RowsFit(e)
  <2>1. \A q \in ApiKeys : e.keys[q] = IF q = k THEN 1 ELSE d.keys[q]
    BY <1>2
  <2>2. \A q \in ApiKeys \cap d.rows : d.keys[q] <= 1
    BY DEF Sound, RowsFit
  <2>3. \A q \in ApiKeys \cap e.rows : e.keys[q] <= 1
    BY <1>2, <2>1, <2>2
  <2>4. \A p \in Providers \cap e.rows :
            /\ e.prov[p].cred.word = e.saved.word[p] /\ e.prov[p].cred.layers <= 1
            /\ e.prov[p].hash \in {NoHash, e.prov[p].cred.word, ""}
    BY <1>2 DEF Sound, RowsFit
  <2> QED
    BY <2>3, <2>4 DEF RowsFit
<1>4. VersionsFit(e) /\ PricesFit(e)
  BY <1>2 DEF Sound, VersionsFit, PricesFit, ListLeft, HasProtocols, HasAddresses, SameSchema
<1>5. KeysInClear(e) = KeysInClear(d) \ {k}
  BY <1>2 DEF KeysInClear
<1> QED
  BY <1>2, <1>3, <1>4, <1>5, DataStep DEF e

LEMMA ImportPriceSound ==
    ASSUME NEW d, Sound(d), ~ListLeft(d), NEW m, NEW x \in PriceList
    PROVE  LET e == ImportPrice(d, m, x) IN
           /\ Sound(e) /\ SameSchema(d, e) /\ e.version = d.version
           /\ e.rows = d.rows /\ e.keys = d.keys /\ e.prov = d.prov /\ e.saved = d.saved
<1> DEFINE e == ImportPrice(d, m, x)
<1>1. d \in Database /\ e = [d EXCEPT !.prices = d.prices \cup {x}]
  BY DEF Sound, ImportPrice, Database
<1>2. /\ e \in Database /\ SameSchema(d, e) /\ e.version = d.version
      /\ e.rows = d.rows /\ e.keys = d.keys /\ e.prov = d.prov /\ e.saved = d.saved
  BY <1>1 DEF Database, SameSchema
<1> HIDE DEF e
<1>3. RowsFit(e) /\ VersionsFit(e) /\ PricesFit(e)
  BY <1>2 DEF Sound, RowsFit, VersionsFit, PricesFit, ListLeft, HasProtocols,
              HasAddresses, SameSchema
<1> QED
  BY <1>2, <1>3, DataStep DEF e

(* The last line of RowsFit for one channel, and what an update of one row *)
(* by a start has to keep.                                                 *)
RowFits(row, word) == /\ row.cred.word = word /\ row.cred.layers <= 1
                      /\ row.hash \in {NoHash, row.cred.word, ""}

LEMMA RowUpdateSound ==
    ASSUME NEW d, Sound(d), NEW p \in Providers \cap d.rows, NEW row \in Row,
           RowFits(row, d.saved.word[p]),
           row.aurl = d.prov[p].aurl, row.protocols = d.prov[p].protocols
    PROVE  LET e == [d EXCEPT !.prov = [d.prov EXCEPT ![p] = row]] IN
           /\ Sound(e) /\ SameSchema(d, e) /\ e.version = d.version
           /\ e.rows = d.rows /\ e.keys = d.keys /\ e.saved = d.saved
           /\ e.prov = [d.prov EXCEPT ![p] = row]
<1> DEFINE e == [d EXCEPT !.prov = [d.prov EXCEPT ![p] = row]]
<1>1. d \in Database /\ d.prov \in [Providers -> Row]
  BY DEF Sound, Database
<1>2. /\ e \in Database /\ SameSchema(d, e) /\ e.version = d.version
      /\ e.rows = d.rows /\ e.keys = d.keys /\ e.saved = d.saved /\ e.prices = d.prices
      /\ e.prov = [d.prov EXCEPT ![p] = row]
  BY <1>1 DEF Database, SameSchema
<1> HIDE DEF e
<1>3. \A q \in Providers : e.prov[q] = IF q = p THEN row ELSE d.prov[q]
  BY <1>1, <1>2
<1>4. RowsFit(e)
  <2>1. ASSUME NEW q \in Providers \cap e.rows
        PROVE  /\ e.prov[q].cred.word = e.saved.word[q] /\ e.prov[q].cred.layers <= 1
               /\ e.prov[q].hash \in {NoHash, e.prov[q].cred.word, ""}
    <3>1. CASE q = p
      BY <1>2, <1>3, <3>1 DEF RowFits
    <3>2. CASE q # p
      BY <1>2, <1>3, <3>2 DEF Sound, RowsFit
    <3> QED
      BY <3>1, <3>2
  <2> QED
    BY <1>2, <2>1 DEF Sound, RowsFit
<1>5. \A q \in Providers : /\ e.prov[q].protocols = d.prov[q].protocols
                           /\ e.prov[q].aurl = d.prov[q].aurl
  BY <1>3
<1>6. VersionsFit(e)
  <2>1. HasProtocols(e) <=> HasProtocols(d)
    BY <1>2, <1>5 DEF HasProtocols
  <2>2. HasAddresses(e) <=> HasAddresses(d)
    BY <1>2, <1>5 DEF HasAddresses
  <2> QED
    BY <1>2, <2>1, <2>2 DEF Sound, VersionsFit, SameSchema
<1>7. PricesFit(e)
  BY <1>2 DEF Sound, PricesFit, ListLeft
<1> QED
  BY <1>2, <1>4, <1>6, <1>7, DataStep DEF e

LEMMA SealCredentialSound ==
    ASSUME NEW d, Sound(d), NEW m \in Memory, NEW p \in Unsealed(d),
           m.creds[p] = d.prov[p].cred
    PROVE  LET e == SealCredential(d, m, p) IN
           /\ Sound(e) /\ SameSchema(d, e) /\ e.version = d.version
           /\ e.rows = d.rows /\ e.keys = d.keys
           /\ Unsealed(e) = Unsealed(d) \ {p}
           /\ \A q \in Providers \ {p} : e.prov[q] = d.prov[q]
<1> DEFINE cred == Sealed(m.secret, d.prov[p].cred)
           row == [d.prov[p] EXCEPT !.cred = cred]
           e == SealCredential(d, m, p)
<1>1. /\ d \in Database /\ d.prov \in [Providers -> Row] /\ p \in Providers \cap d.rows
      /\ d.prov[p] \in Row /\ d.prov[p].cred \in Credential /\ m.secret \in Secrets
      /\ d.prov[p].cred.layers = 0
  <2>1. d \in Database /\ p \in Providers \cap d.rows /\ ~HasPrefix(d.prov[p].cred)
    BY DEF Sound, Unsealed
  <2>2. d.prov \in [Providers -> Row]
    BY <2>1 DEF Database
  <2>3. d.prov[p].cred \in Credential
    BY <2>1, <2>2 DEF Row
  <2> QED
    BY <2>1, <2>2, <2>3 DEF HasPrefix, Memory, Credential
<1>2. /\ cred \in Credential /\ cred.word = d.prov[p].cred.word
      /\ cred.layers <= 1 /\ HasPrefix(cred)
  BY <1>1, SealedType
<1>3. e = [d EXCEPT !.prov = [d.prov EXCEPT ![p] = row]]
  BY <1>1 DEF SealCredential, Database
<1> HIDE DEF cred, e
<1>4. /\ row \in Row /\ row.cred = cred /\ row.aurl = d.prov[p].aurl
      /\ row.protocols = d.prov[p].protocols /\ row.hash = d.prov[p].hash
  BY <1>1, <1>2 DEF Row
<1> HIDE DEF row
<1>5. RowFits(row, d.saved.word[p])
  <2>1. d.prov[p].cred.word = d.saved.word[p]
        /\ d.prov[p].hash \in {NoHash, d.prov[p].cred.word, ""}
    BY <1>1 DEF Sound, RowsFit
  <2>2. /\ row.cred.word = d.saved.word[p] /\ row.cred.layers <= 1
        /\ row.hash \in {NoHash, row.cred.word, ""}
    BY <1>2, <1>4, <2>1
  <2> QED
    BY <2>2 DEF RowFits
<1>6. /\ Sound(e) /\ SameSchema(d, e) /\ e.version = d.version
      /\ e.rows = d.rows /\ e.keys = d.keys /\ e.prov = [d.prov EXCEPT ![p] = row]
  BY <1>1, <1>3, <1>4, <1>5, RowUpdateSound
<1>7. Unsealed(e) = Unsealed(d) \ {p}
  <2>1. \A q \in Providers : e.prov[q].cred = IF q = p THEN cred ELSE d.prov[q].cred
    BY <1>1, <1>4, <1>6
  <2> QED
    BY <1>2, <1>6, <2>1 DEF Unsealed
<1> QED
  BY <1>1, <1>6, <1>7 DEF e

LEMMA FingerprintSound ==
    ASSUME NEW d, Sound(d), NEW m \in Memory, NEW p \in Unhashed(d),
           m.creds[p] = d.prov[p].cred
    PROVE  LET e == Fingerprint(d, m, p) IN
           /\ Sound(e) /\ SameSchema(d, e) /\ e.version = d.version
           /\ e.rows = d.rows /\ e.keys = d.keys
           /\ Unsealed(e) = Unsealed(d) /\ Unhashed(e) = Unhashed(d) \ {p}
           /\ \A q \in Providers : e.prov[q].cred = d.prov[q].cred
<1> DEFINE hash == DecryptOrPlain(m.secret, d.prov[p].cred)
           row == [d.prov[p] EXCEPT !.hash = hash]
           e == Fingerprint(d, m, p)
<1>1. /\ d \in Database /\ d.prov \in [Providers -> Row] /\ p \in Providers \cap d.rows
      /\ d.prov[p] \in Row /\ d.prov[p].cred \in Credential /\ m.secret \in Secrets
  <2>1. d \in Database /\ p \in Providers \cap d.rows
    BY DEF Sound, Unhashed
  <2>2. d.prov \in [Providers -> Row]
    BY <2>1 DEF Database
  <2> QED
    BY <2>1, <2>2 DEF Row, Memory
<1>2. hash \in Words /\ hash \in {d.prov[p].cred.word, ""}
  BY <1>1, DecryptType
<1>3. e = [d EXCEPT !.prov = [d.prov EXCEPT ![p] = row]]
  BY <1>1 DEF Fingerprint, Database
<1> HIDE DEF hash, e
<1>4. /\ row \in Row /\ row.cred = d.prov[p].cred /\ row.aurl = d.prov[p].aurl
      /\ row.protocols = d.prov[p].protocols /\ row.hash = hash
  BY <1>1, <1>2 DEF Row
<1> HIDE DEF row
<1>5. RowFits(row, d.saved.word[p])
  <2>1. d.prov[p].cred.word = d.saved.word[p] /\ d.prov[p].cred.layers <= 1
    BY <1>1 DEF Sound, RowsFit
  <2> QED
    BY <1>2, <1>4, <2>1 DEF RowFits
<1>6. /\ Sound(e) /\ SameSchema(d, e) /\ e.version = d.version
      /\ e.rows = d.rows /\ e.keys = d.keys /\ e.prov = [d.prov EXCEPT ![p] = row]
  BY <1>1, <1>3, <1>4, <1>5, RowUpdateSound
<1>7. \A q \in Providers : /\ e.prov[q].cred = d.prov[q].cred
                           /\ e.prov[q].hash = IF q = p THEN hash ELSE d.prov[q].hash
  BY <1>1, <1>4, <1>6
<1>8. Unsealed(e) = Unsealed(d) /\ Unhashed(e) = Unhashed(d) \ {p}
  BY <1>2, <1>6, <1>7 DEF Unsealed, Unhashed, Words, NoHash
<1> QED
  BY <1>6, <1>7, <1>8 DEF e

-----------------------------------------------------------------------------
(* What an administrator saves. *)

LEMMA Latest == /\ SchemaVersion \in Nat /\ SchemaVersion >= 1 /\ SchemaVersion >= 2
                /\ ~(SchemaVersion < 2)
BY DEF SchemaVersion

LEMMA SaveSound ==
    ASSUME NEW d, Sound(d), d.version = SchemaVersion, NEW s \in Secrets, NEW p \in Providers,
           NEW row \in Row, row.protocols # "", NEW word \in Words
    PROVE  LET e == Save(d, s, p, row, word) IN
           /\ Sound(e) /\ SameSchema(d, e) /\ e.version = d.version
           /\ KeysInClear(e) = KeysInClear(d)
           /\ Unsealed(e) \subseteq Unsealed(d)
           /\ AllHashed(d) => AllHashed(e)
<1> DEFINE clear == [word |-> word, layers |-> 0, secret |-> s]
           cred == Sealed(s, clear)
           hash == IF word = "" THEN NoHash ELSE word
           new == [row EXCEPT !.cred = cred, !.hash = hash]
           saved == [d.saved EXCEPT !.word[p] = word, !.aurl[p] = row.aurl]
           e == Save(d, s, p, row, word)
<1>1. d \in Database /\ d.prov \in [Providers -> Row] /\ d.saved \in Saved
  BY DEF Sound, Database
<1>2. cred \in Credential /\ cred.word = word /\ cred.layers <= 1 /\ HasPrefix(cred)
  <2>1. clear \in Credential /\ clear.word = word /\ clear.layers = 0
    BY DEF Credential
  <2> HIDE DEF clear
  <2> QED
    BY <2>1, SealedType
<1>3. e = [d EXCEPT !.rows = d.rows \cup {p}, !.prov = [d.prov EXCEPT ![p] = new],
                    !.saved = saved]
  BY <1>1 DEF Save, Database, Saved
<1>4. hash \in Words \cup {NoHash} /\ hash \in {NoHash, word, ""} /\ (hash = NoHash => word = "")
  BY DEF Words, NoHash
<1> HIDE DEF clear, cred, hash, e
<1>5. /\ new \in Row /\ new.cred = cred /\ new.hash = hash /\ new.aurl = row.aurl
      /\ new.protocols = row.protocols
  BY <1>2, <1>4 DEF Row
<1>6. /\ saved \in Saved /\ saved.edited = d.saved.edited /\ saved.prices = d.saved.prices
      /\ \A q \in Providers : /\ saved.word[q] = IF q = p THEN word ELSE d.saved.word[q]
                              /\ saved.aurl[q] = IF q = p THEN row.aurl ELSE d.saved.aurl[q]
  BY <1>1 DEF Saved, Row
<1> HIDE DEF new, saved
<1>7. /\ e \in Database /\ SameSchema(d, e) /\ e.version = d.version /\ e.keys = d.keys
      /\ e.rows = d.rows \cup {p} /\ e.prices = d.prices /\ e.saved = saved
      /\ \A q \in Providers : e.prov[q] = IF q = p THEN new ELSE d.prov[q]
  BY <1>1, <1>3, <1>5 , <1>6 DEF Database, SameSchema
<1>8. ApiKeys \cap e.rows = ApiKeys \cap d.rows
  BY <1>7, StartupAssumption
<1>9. RowsFit(e)
  <2>1. \A k \in ApiKeys \cap e.rows : e.keys[k] <= 1
    BY <1>7, <1>8 DEF Sound, RowsFit
  <2>2. ASSUME NEW q \in Providers \cap e.rows
        PROVE  /\ e.prov[q].cred.word = e.saved.word[q] /\ e.prov[q].cred.layers <= 1
               /\ e.prov[q].hash \in {NoHash, e.prov[q].cred.word, ""}
    <3>1. CASE q = p
      BY <1>2, <1>4, <1>5, <1>6, <1>7, <3>1
    <3>2. CASE q # p
      BY <1>6, <1>7, <3>2 DEF Sound, RowsFit
    <3> QED
      BY <3>1, <3>2
  <2> QED
    BY <2>1, <2>2 DEF RowsFit
<1>10. VersionsFit(e)
  <2>1. HasProtocols(d) /\ HasAddresses(d) /\ ~(d.version < 2)
    BY Latest DEF Sound, VersionsFit
  <2>2. HasProtocols(e)
    BY <1>5, <1>7, <2>1 DEF HasProtocols
  <2>3. HasAddresses(e)
    BY <1>5, <1>6, <1>7, <2>1 DEF HasAddresses
  <2> QED
    BY <1>7, <2>1, <2>2, <2>3 DEF Sound, VersionsFit, SameSchema
<1>11. PricesFit(e)
  BY <1>6, <1>7 DEF Sound, PricesFit, ListLeft
<1>12. Sound(e)
  BY <1>7, <1>9, <1>10, <1>11, DataStep
<1>13. KeysInClear(e) = KeysInClear(d)
  BY <1>7, <1>8 DEF KeysInClear
<1>14. Unsealed(e) \subseteq Unsealed(d)
  BY <1>2, <1>5, <1>7 DEF Unsealed
<1>15. AllHashed(d) => AllHashed(e)
  <2>1. ASSUME AllHashed(d), NEW q \in Unhashed(e) PROVE e.prov[q].cred.word = ""
    <3>1. CASE q = p
      BY <1>2, <1>4, <1>5, <1>7, <3>1 DEF Unhashed
    <3>2. CASE q # p
      BY <1>7, <2>1, <3>2 DEF Unhashed, AllHashed
    <3> QED
      BY <3>1, <3>2
  <2> QED
    BY <2>1 DEF AllHashed
<1> QED
  BY <1>7, <1>12, <1>13, <1>14, <1>15 DEF e

LEMMA AddressSound ==
    ASSUME NEW d, Sound(d), d.version = SchemaVersion, NEW p \in Providers \cap d.rows,
           NEW aurl \in {"", "set"}
    PROVE  LET e == [d EXCEPT !.prov[p].aurl = aurl, !.saved.aurl[p] = aurl] IN
           /\ Sound(e) /\ SameSchema(d, e) /\ e.version = d.version
           /\ KeysInClear(e) = KeysInClear(d) /\ Unsealed(e) = Unsealed(d)
           /\ AllHashed(d) => AllHashed(e)
<1> DEFINE row == [d.prov[p] EXCEPT !.aurl = aurl]
           saved == [d.saved EXCEPT !.aurl[p] = aurl]
           e == [d EXCEPT !.prov[p].aurl = aurl, !.saved.aurl[p] = aurl]
<1>1. d \in Database /\ d.prov \in [Providers -> Row] /\ d.saved \in Saved
  BY DEF Sound, Database
<1>2. e = [d EXCEPT !.prov = [d.prov EXCEPT ![p] = row], !.saved = saved]
  BY <1>1 DEF Database, Saved
<1> HIDE DEF e
<1>3. /\ row \in Row /\ row.cred = d.prov[p].cred /\ row.hash = d.prov[p].hash
      /\ row.protocols = d.prov[p].protocols /\ row.aurl = aurl
  BY <1>1 DEF Row
<1>4. /\ saved \in Saved /\ saved.edited = d.saved.edited /\ saved.prices = d.saved.prices
      /\ saved.word = d.saved.word
      /\ \A q \in Providers : saved.aurl[q] = IF q = p THEN aurl ELSE d.saved.aurl[q]
  BY <1>1 DEF Saved
<1> HIDE DEF row, saved
<1>5. /\ e \in Database /\ SameSchema(d, e) /\ e.version = d.version /\ e.keys = d.keys
      /\ e.rows = d.rows /\ e.prices = d.prices /\ e.saved = saved
      /\ \A q \in Providers : e.prov[q] = IF q = p THEN row ELSE d.prov[q]
  BY <1>1, <1>2, <1>3, <1>4 DEF Database, SameSchema
<1>6. \A q \in Providers : /\ e.prov[q].cred = d.prov[q].cred /\ e.prov[q].hash = d.prov[q].hash
                           /\ e.prov[q].protocols = d.prov[q].protocols
  BY <1>3, <1>5
<1>7. RowsFit(e)
  <2>1. \A k \in ApiKeys \cap e.rows : e.keys[k] <= 1
    BY <1>5 DEF Sound, RowsFit
  <2>2. \A q \in Providers \cap e.rows :
            /\ e.prov[q].cred.word = e.saved.word[q] /\ e.prov[q].cred.layers <= 1
            /\ e.prov[q].hash \in {NoHash, e.prov[q].cred.word, ""}
    BY <1>4, <1>5, <1>6 DEF Sound, RowsFit
  <2> QED
    BY <2>1, <2>2 DEF RowsFit
<1>8. VersionsFit(e)
  <2>1. HasProtocols(d) /\ HasAddresses(d) /\ ~(d.version < 2)
    BY Latest DEF Sound, VersionsFit
  <2>2. HasProtocols(e)
    BY <1>5, <1>6, <2>1 DEF HasProtocols
  <2>3. HasAddresses(e)
    BY <1>3, <1>4, <1>5, <2>1 DEF HasAddresses
  <2> QED
    BY <1>5, <2>1, <2>2, <2>3 DEF Sound, VersionsFit, SameSchema
<1>9. PricesFit(e)
  BY <1>4, <1>5 DEF Sound, PricesFit, ListLeft
<1>10. Sound(e)
  BY <1>5, <1>7, <1>8, <1>9, DataStep
<1>11. KeysInClear(e) = KeysInClear(d) /\ Unsealed(e) = Unsealed(d) /\ Unhashed(e) = Unhashed(d)
  BY <1>5, <1>6 DEF KeysInClear, Unsealed, Unhashed
<1>12. AllHashed(d) => AllHashed(e)
  BY <1>6, <1>11 DEF AllHashed, Unhashed
<1> QED
  BY <1>5, <1>10, <1>11, <1>12 DEF e

LEMMA PriceEditSound ==
    ASSUME NEW d, Sound(d), NEW prices \in SUBSET PriceList
    PROVE  LET e == [d EXCEPT !.prices = prices, !.saved.edited = TRUE,
                              !.saved.prices = prices] IN
           /\ Sound(e) /\ SameSchema(d, e) /\ e.version = d.version
           /\ KeysInClear(e) = KeysInClear(d) /\ Unsealed(e) = Unsealed(d)
           /\ AllHashed(d) => AllHashed(e)
<1> DEFINE saved == [d.saved EXCEPT !.edited = TRUE, !.prices = prices]
           e == [d EXCEPT !.prices = prices, !.saved.edited = TRUE, !.saved.prices = prices]
<1>1. d \in Database /\ d.saved \in Saved
  BY DEF Sound, Database
<1>2. e = [d EXCEPT !.prices = prices, !.saved = saved]
  BY <1>1 DEF Database, Saved
<1> HIDE DEF e
<1>3. saved \in Saved /\ saved.word = d.saved.word /\ saved.aurl = d.saved.aurl
      /\ saved.prices = prices
  BY <1>1 DEF Saved
<1> HIDE DEF saved
<1>4. /\ e \in Database /\ SameSchema(d, e) /\ e.version = d.version /\ e.keys = d.keys
      /\ e.rows = d.rows /\ e.prov = d.prov /\ e.prices = prices /\ e.saved = saved
  BY <1>1, <1>2, <1>3 DEF Database, SameSchema
<1>5. RowsFit(e) /\ PricesFit(e)
  BY <1>3, <1>4 DEF Sound, RowsFit, PricesFit
<1>6. VersionsFit(e)
  <2>1. (HasProtocols(e) <=> HasProtocols(d)) /\ (HasAddresses(e) <=> HasAddresses(d))
    BY <1>3, <1>4 DEF HasProtocols, HasAddresses
  <2> QED
    BY <1>3, <1>4, <2>1 DEF Sound, VersionsFit, SameSchema
<1>7. /\ KeysInClear(e) = KeysInClear(d) /\ Unsealed(e) = Unsealed(d)
      /\ AllHashed(d) => AllHashed(e)
  BY <1>4 DEF KeysInClear, Unsealed, Unhashed, AllHashed
<1> QED
  BY <1>4, <1>5, <1>6, <1>7, DataStep DEF e

-----------------------------------------------------------------------------
(* The steps of the only instance. *)

Sole == \A i, j \in Instances : i = j

Ready(i) == SchemaDone(i) /\ VersionDone(i) /\ MoneyDone(i) /\ RowwiseDone(i)

LEMMA AfterAre ==
    /\ After["schema"] = "early" /\ After["early"] = "version" /\ After["version"] = "anthropic"
    /\ After["anthropic"] = "openai" /\ After["openai"] = "v1" /\ After["v1"] = "rename"
    /\ After["rename"] = "url" /\ After["url"] = "backfill" /\ After["backfill"] = "v2"
    /\ After["v2"] = "late" /\ After["late"] = "hash" /\ After["hash"] = "hashing"
    /\ After["hashing"] = "money" /\ After["money"] = "convert" /\ After["convert"] = "fk"
    /\ After["fk"] = "rebuild" /\ After["rebuild"] = "last" /\ After["last"] = "v3"
    /\ After["v3"] = "price" /\ After["price"] = "pricing" /\ After["pricing"] = "seal"
    /\ After["seal"] = "sealing" /\ After["sealing"] = "finger" /\ After["finger"] = "fingering"
    /\ After["fingering"] = "serve"
BY DEF After

LEMMA PlacesAre == Places = Started \cup {"down", "refused"}
BY DEF Places, Stages, After, Started, PastSchema, PastEarly, PastV1, PastRename, PastUrl,
       PastV2, PastLate, PastHashing, PastConvert, PastRebuild, PastLast, PastV3, PastSealing

LEMMA BlankType == ASSUME NEW s \in Secrets PROVE Blank(s) \in Memory
BY SecretExists DEF Blank, Memory, Credential, Words

(* What is left to show of a step. *)
LEMMA OneStep ==
    ASSUME IInv, Sole, NEW i \in Instances, NEW place \in Places, NEW m \in Memory,
           pc' = [pc EXCEPT ![i] = place], mem' = [mem EXCEPT ![i] = m],
           pc'[i] = place /\ mem'[i] = m => Ready(i)', Sound(db'), synced' = synced
    PROVE  IInv'
<1>1. /\ pc' \in [Instances -> Places] /\ pc'[i] = place
      /\ mem' \in [Instances -> Memory] /\ mem'[i] = m
  BY DEF IInv
<1>2. \A j \in Instances : Ready(j)'
  BY <1>1 DEF Sole
<1> QED
  BY <1>1, <1>2 DEF IInv, Ready

LEMMA OpenStep == ASSUME IInv, Sole, NEW i \in Instances, Open(i) PROVE IInv'
<1>1. PICK s \in Secrets : Remember(i, Blank(s))
  BY DEF Open
<1>2. CASE db.version > SchemaVersion
  <2>1. pc' = [pc EXCEPT ![i] = "refused"] /\ "refused" \in Places /\ db' = db
    BY <1>2, PlacesAre DEF Open, Goto
  <2>2. ASSUME pc'[i] = "refused" PROVE Ready(i)'
    BY <2>2 DEF Ready, SchemaDone, VersionDone, MoneyDone, RowwiseDone, Started, PastSchema,
       PastEarly, PastV1, PastRename, PastUrl, PastV2, PastLate, PastHashing, PastConvert,
       PastRebuild, PastLast, PastV3, PastSealing
  <2> QED
    BY <1>1, <2>1, <2>2, BlankType, OneStep DEF Remember, Open, Keep, IInv
<1>3. CASE ~(db.version > SchemaVersion)
  <2>1. pc' = [pc EXCEPT ![i] = "schema"] /\ "schema" \in Places /\ db' = db
    BY <1>3, PlacesAre DEF Open, Goto, Started
  <2>2. db.version \in Nat
    BY DEF IInv, Sound, Database
  <2>3. ASSUME pc'[i] = "schema" PROVE Ready(i)'
    BY <1>3, <2>1, <2>2, <2>3, Latest DEF Ready, SchemaDone, VersionDone, MoneyDone, RowwiseDone, Started,
       PastSchema, PastEarly, PastV1, PastRename, PastUrl, PastV2, PastLate, PastHashing,
       PastConvert, PastRebuild, PastLast, PastV3, PastSealing
  <2> QED
    BY <1>1, <2>1, <2>3, BlankType, OneStep DEF Remember, Open, Keep, IInv
<1> QED
  BY <1>2, <1>3

(* A step that changes the place and the memory of an instance and leaves *)
(* the database alone.                                                     *)
LEMMA QuietStep ==
    ASSUME IInv, Sole, NEW i \in Instances, NEW place \in Places, NEW m \in Memory,
           pc' = [pc EXCEPT ![i] = place], mem' = [mem EXCEPT ![i] = m],
           pc'[i] = place /\ mem'[i] = m => Ready(i)', db' = db, synced' = synced
    PROVE  IInv'
BY OneStep DEF IInv

USE DEF Started, PastSchema, PastEarly, PastV1, PastRename, PastUrl, PastV2, PastLate,
        PastHashing, PastConvert, PastRebuild, PastLast, PastV3, PastSealing

LEMMA ReadVersionStep == ASSUME IInv, Sole, NEW i \in Instances, ReadVersion(i) PROVE IInv'
<1> DEFINE m == [mem[i] EXCEPT !.version = db.version]
<1>1. /\ pc' = [pc EXCEPT ![i] = "anthropic"] /\ mem' = [mem EXCEPT ![i] = m]
      /\ db' = db /\ synced' = synced /\ pc[i] = "version"
  BY AfterAre DEF ReadVersion, Advance, Goto, Remember, Keep
<1>2. m \in Memory /\ m.version = db.version
  <2>1. mem[i] \in Memory /\ db.version \in Nat
    BY DEF IInv, Sound, Database
  <2> QED
    BY <2>1 DEF Memory
<1>3. ASSUME pc'[i] = "anthropic", mem'[i] = m PROVE Ready(i)'
  <2>1. SchemaDone(i)'
    BY <1>1, <1>3 DEF IInv, SchemaDone
  <2>2. VersionDone(i)'
    BY <1>1, <1>2, <1>3 DEF IInv, VersionDone
  <2>3. MoneyDone(i)' /\ RowwiseDone(i)'
    BY <1>3 DEF MoneyDone, RowwiseDone
  <2> QED
    BY <2>1, <2>2, <2>3 DEF Ready
<1> QED
  BY <1>1, <1>2, <1>3, PlacesAre, QuietStep

LEMMA PassOverStep == ASSUME IInv, Sole, NEW i \in Instances, PassOver(i) PROVE IInv'
<1>1. /\ pc[i] \in {"anthropic", "openai", "v1", "rename", "url", "backfill", "v2"}
      /\ pc' = [pc EXCEPT ![i] = After[pc[i]]] /\ mem' = [mem EXCEPT ![i] = mem[i]]
      /\ db' = db /\ synced' = synced /\ mem[i] \in Memory
  BY DEF PassOver, Gated, Advance, Goto, Keep, IInv
<1>2. After[pc[i]] \in Places
  BY <1>1, AfterAre, PlacesAre
<1>3. ASSUME pc'[i] = After[pc[i]], mem'[i] = mem[i] PROVE Ready(i)'
  <2>1. db.version \in Nat /\ SchemaDone(i) /\ VersionDone(i) /\ VersionsFit(db)
    BY DEF IInv, Sound, Database
  <2>2. CASE pc[i] \in {"anthropic", "openai", "v1"}
    <3>1. db.version # 0 /\ mem[i].version = db.version /\ db.version >= 1
      BY <2>1, <2>2 DEF PassOver, Gated, VersionDone
    <3>2. SchemaDone(i)'
      BY <1>1, <1>3, <2>1, <2>2, AfterAre DEF SchemaDone
    <3>3. VersionDone(i)'
      BY <1>1, <1>3, <2>1, <2>2, <3>1, AfterAre DEF VersionDone, VersionsFit
    <3>4. MoneyDone(i)' /\ RowwiseDone(i)'
      BY <1>3, <2>2, AfterAre DEF MoneyDone, RowwiseDone
    <3> QED
      BY <3>2, <3>3, <3>4 DEF Ready
  <2>3. CASE pc[i] \in {"rename", "url", "backfill", "v2"}
    <3>1. mem[i].version >= 2 /\ ~(mem[i].version < 2) /\ db.version >= 2
      <4>1. mem[i].version >= 2 /\ mem[i].version \in Nat
        BY <1>1, <2>3 DEF PassOver, Gated, Memory
      <4> QED
        BY <2>1, <2>3, <4>1 DEF VersionDone
    <3>2. HasAddresses(db) /\ db.decl["openai_base_url"] # "none" /\ HasColumns(db, "url")
      BY <2>1, <3>1 DEF VersionsFit, HasColumns, Ensured
    <3>3. SchemaDone(i)'
      BY <1>1, <1>3, <2>1, <2>3, <3>2, AfterAre DEF SchemaDone
    <3>4. VersionDone(i)'
      BY <1>1, <1>3, <2>1, <2>3, <3>1, <3>2, AfterAre DEF VersionDone
    <3>5. MoneyDone(i)' /\ RowwiseDone(i)'
      BY <1>3, <2>3, AfterAre DEF MoneyDone, RowwiseDone
    <3> QED
      BY <3>3, <3>4, <3>5 DEF Ready
  <2> QED
    BY <1>1, <2>2, <2>3
<1> QED
  BY <1>1, <1>2, <1>3, QuietStep

LEMMA LookAtMoneyStep == ASSUME IInv, Sole, NEW i \in Instances, LookAtMoney(i) PROVE IInv'
<1> DEFINE m == [mem[i] EXCEPT !.floats = FloatColumns(db)]
<1>1. /\ pc' = [pc EXCEPT ![i] = "convert"] /\ mem' = [mem EXCEPT ![i] = m]
      /\ db' = db /\ synced' = synced /\ pc[i] = "money"
  BY AfterAre DEF LookAtMoney, Advance, Goto, Remember, Keep
<1>2. m \in Memory /\ m.floats = FloatColumns(db)
  BY DEF IInv, Memory, FloatColumns
<1>3. ASSUME pc'[i] = "convert", mem'[i] = m PROVE Ready(i)'
  <2>1. SchemaDone(i)'
    BY <1>1, <1>3 DEF IInv, SchemaDone
  <2>2. VersionDone(i)'
    BY <1>1, <1>3 DEF IInv, VersionDone
  <2>3. MoneyDone(i)'
    BY <1>1, <1>2, <1>3 DEF MoneyDone
  <2>4. RowwiseDone(i)'
    BY <1>1, <1>3 DEF IInv, RowwiseDone
  <2> QED
    BY <2>1, <2>2, <2>3, <2>4 DEF Ready
<1> QED
  BY <1>1, <1>2, <1>3, PlacesAre, QuietStep

LEMMA LookAtForeignKeysStep ==
    ASSUME IInv, Sole, NEW i \in Instances, LookAtForeignKeys(i) PROVE IInv'
<1> DEFINE m == [mem[i] EXCEPT !.rebuild = NeedsRebuild(db)]
<1>1. /\ pc' = [pc EXCEPT ![i] = "rebuild"] /\ mem' = [mem EXCEPT ![i] = m]
      /\ db' = db /\ synced' = synced /\ pc[i] = "fk"
  BY AfterAre DEF LookAtForeignKeys, Advance, Goto, Remember, Keep
<1>2. m \in Memory /\ m.rebuild = NeedsRebuild(db)
  BY DEF IInv, Memory, NeedsRebuild
<1>3. ASSUME pc'[i] = "rebuild", mem'[i] = m PROVE Ready(i)'
  <2>1. SchemaDone(i)'
    BY <1>1, <1>3 DEF IInv, SchemaDone
  <2>2. VersionDone(i)'
    BY <1>1, <1>3 DEF IInv, VersionDone
  <2>3. MoneyDone(i)'
    BY <1>1, <1>2, <1>3 DEF IInv, MoneyDone
  <2>4. RowwiseDone(i)'
    BY <1>1, <1>3 DEF IInv, RowwiseDone
  <2> QED
    BY <2>1, <2>2, <2>3, <2>4 DEF Ready
<1> QED
  BY <1>1, <1>2, <1>3, PlacesAre, QuietStep

(* What the row-by-row stages pick, and that they are through with it. *)

LEMMA PickStep == ASSUME IInv, Sole, NEW i \in Instances, Pick(i) PROVE IInv'
<1> DEFINE m == [mem[i] EXCEPT !.todo = Picked(pc[i], db), !.keys = db.keys,
                               !.creds = [p \in Providers |-> db.prov[p].cred]]
<1>1. /\ pc[i] \in {"hash", "price", "seal", "finger"}
      /\ pc' = [pc EXCEPT ![i] = After[pc[i]]] /\ mem' = [mem EXCEPT ![i] = m]
      /\ db' = db /\ synced' = synced
  BY DEF Pick, Advance, Goto, Remember, Keep
<1>2. After[pc[i]] \in Places
  BY <1>1, AfterAre, PlacesAre
<1>3. /\ mem[i] \in Memory /\ db \in Database /\ db.keys \in [ApiKeys -> Nat]
      /\ db.prov \in [Providers -> Row]
  BY DEF IInv, Sound, Database
<1>4. Picked(pc[i], db) \subseteq Providers \cup ApiKeys \cup PriceList
  BY <1>1 DEF Picked, KeysInClear, Unsealed, Unhashed, Missing
<1>5. /\ m \in Memory /\ m.todo = Picked(pc[i], db) /\ m.keys = db.keys
      /\ \A p \in Providers : m.creds[p] = db.prov[p].cred
  <2>1. [p \in Providers |-> db.prov[p].cred] \in [Providers -> Credential]
    BY <1>3 DEF Row
  <2> QED
    BY <1>3, <1>4, <2>1 DEF Memory
<1> HIDE DEF m
<1>6. ASSUME pc'[i] = After[pc[i]], mem'[i] = m PROVE Ready(i)'
  <2>1. SchemaDone(i)'
    BY <1>1, <1>6, AfterAre DEF IInv, SchemaDone
  <2>2. VersionDone(i)'
    BY <1>1, <1>6, AfterAre DEF IInv, VersionDone
  <2>3. MoneyDone(i)'
    BY <1>1, <1>6, AfterAre DEF IInv, MoneyDone
  <2>4. RowwiseDone(i)'
    <3>1. RowwiseDone(i)
      BY DEF IInv
    <3>2. CASE pc[i] = "hash"
      <4>1. Picked(pc[i], db) = KeysInClear(db)
        BY <3>2 DEF Picked
      <4> QED
        BY <1>1, <1>5, <1>6, <3>2, <4>1, AfterAre DEF RowwiseDone, KeysInClear
    <3>3. CASE pc[i] = "price"
      <4>1. Picked(pc[i], db) = Missing(db)
        BY <3>3 DEF Picked
      <4>2. Missing(db) \subseteq PriceList /\ (Missing(db) # {} => ~ListLeft(db))
        BY DEF Missing, IInv, Sound, PricesFit, ListLeft
      <4> QED
        BY <1>1, <1>5, <1>6, <3>1, <3>3, <4>1, <4>2, AfterAre DEF RowwiseDone
    <3>4. CASE pc[i] = "seal"
      <4>1. Picked(pc[i], db) = Unsealed(db) /\ Unsealed(db) \subseteq Providers
        BY <3>4 DEF Picked, Unsealed
      <4> QED
        BY <1>1, <1>5, <1>6, <3>1, <3>4, <4>1, AfterAre DEF RowwiseDone
    <3>5. CASE pc[i] = "finger"
      <4>1. Picked(pc[i], db) = Unhashed(db) /\ Unhashed(db) \subseteq Providers
        BY <3>5 DEF Picked, Unhashed
      <4> QED
        BY <1>1, <1>5, <1>6, <3>1, <3>5, <4>1, AfterAre DEF RowwiseDone
    <3> QED
      BY <1>1, <3>2, <3>3, <3>4, <3>5
  <2> QED
    BY <2>1, <2>2, <2>3, <2>4 DEF Ready
<1> QED
  BY <1>1, <1>2, <1>5, <1>6, QuietStep

LEMMA RowsDoneStep == ASSUME IInv, Sole, NEW i \in Instances, RowsDone(i) PROVE IInv'
<1> DEFINE m == Blank(mem[i].secret)
<1>1. /\ pc[i] \in {"hashing", "pricing", "sealing", "fingering"} /\ mem[i].todo = {}
      /\ pc' = [pc EXCEPT ![i] = After[pc[i]]] /\ mem' = [mem EXCEPT ![i] = m]
      /\ db' = db /\ synced' = synced
  BY DEF RowsDone, Advance, Goto, Remember, Keep
<1>2. After[pc[i]] \in Places
  BY <1>1, AfterAre, PlacesAre
<1>3. m \in Memory
  BY BlankType DEF IInv, Memory
<1> HIDE DEF m
<1>4. ASSUME pc'[i] = After[pc[i]], mem'[i] = m PROVE Ready(i)'
  <2>1. SchemaDone(i)'
    BY <1>1, <1>4, AfterAre DEF IInv, SchemaDone
  <2>2. VersionDone(i)'
    BY <1>1, <1>4, AfterAre DEF IInv, VersionDone
  <2>3. MoneyDone(i)'
    BY <1>1, <1>4, AfterAre DEF IInv, MoneyDone
  <2>4. RowwiseDone(i)'
    <3>1. RowwiseDone(i)
      BY DEF IInv
    <3>2. CASE pc[i] = "hashing"
      BY <1>1, <1>4, <3>1, <3>2, AfterAre DEF RowwiseDone
    <3>3. CASE pc[i] = "pricing"
      BY <1>1, <1>4, <3>1, <3>3, AfterAre DEF RowwiseDone
    <3>4. CASE pc[i] = "sealing"
      BY <1>1, <1>4, <3>1, <3>4, AfterAre DEF RowwiseDone
    <3>5. CASE pc[i] = "fingering"
      BY <1>1, <1>4, <3>1, <3>5, AfterAre DEF RowwiseDone, AllHashed
    <3> QED
      BY <1>1, <3>2, <3>3, <3>4, <3>5
  <2> QED
    BY <2>1, <2>2, <2>3, <2>4 DEF Ready
<1> QED
  BY <1>1, <1>2, <1>3, <1>4, QuietStep

LEMMA ConvertStep == ASSUME IInv, Sole, NEW i \in Instances, Convert(i) PROVE IInv'
<1> DEFINE m == [mem[i] EXCEPT !.floats = {}]
<1>1. /\ pc[i] = "convert" /\ db' = ConvertMoney(db, mem[i].floats)
      /\ pc' = [pc EXCEPT ![i] = "fk"] /\ mem' = [mem EXCEPT ![i] = m]
      /\ synced' = synced
  BY AfterAre DEF Convert, Advance, Goto, Remember, Keep
<1>2. m \in Memory
  BY DEF IInv, Memory
<1>3. Ready(i) /\ Sound(db) /\ db.tables = Tables /\ mem[i].floats = FloatColumns(db)
  BY <1>1 DEF IInv, Ready, SchemaDone, MoneyDone
<1>4. /\ Sound(db') /\ SameData(db, db') /\ KeepsColumns(db, db')
      /\ db'.tables = db.tables /\ FloatColumns(db') = {}
  BY <1>1, <1>3, ConvertMoneySound
<1>5. ASSUME pc'[i] = "fk", mem'[i] = m PROVE Ready(i)'
  <2>1. SchemaDone(i)'
    BY <1>1, <1>3, <1>4, <1>5, ColumnsAre DEF Ready, SchemaDone, HasColumns, KeepsColumns, Ensured
  <2>2. VersionDone(i)'
    BY <1>1, <1>3, <1>4, <1>5 DEF Ready, VersionDone, SameData
  <2>3. MoneyDone(i)'
    BY <1>4, <1>5 DEF MoneyDone
  <2>4. RowwiseDone(i)'
    BY <1>1, <1>3, <1>4, <1>5 DEF Ready, RowwiseDone, SameData, KeysInClear
  <2> QED
    BY <2>1, <2>2, <2>3, <2>4 DEF Ready
<1> QED
  BY <1>1, <1>2, <1>4, <1>5, PlacesAre, OneStep

LEMMA RebuildStep == ASSUME IInv, Sole, NEW i \in Instances, Rebuild(i) PROVE IInv'
<1> DEFINE m == [mem[i] EXCEPT !.rebuild = FALSE]
<1>1. /\ pc[i] = "rebuild" /\ db' = IF mem[i].rebuild THEN RebuildLogs(db) ELSE db
      /\ pc' = [pc EXCEPT ![i] = "last"] /\ mem' = [mem EXCEPT ![i] = m]
      /\ synced' = synced
  BY AfterAre DEF Rebuild, Advance, Goto, Remember, Keep
<1>2. m \in Memory
  BY DEF IInv, Memory
<1>3. /\ Ready(i) /\ Sound(db) /\ db.tables = Tables /\ FloatColumns(db) = {}
      /\ mem[i].rebuild = NeedsRebuild(db)
  BY <1>1 DEF IInv, Ready, SchemaDone, MoneyDone
<1>4. /\ Sound(db') /\ SameData(db, db') /\ KeepsColumns(db, db')
      /\ db'.tables = db.tables /\ FloatColumns(db') = {} /\ db'.fk = "set_null"
  BY <1>1, <1>3, RebuildLogsSound DEF NeedsRebuild, SameData, KeepsColumns
<1>5. ASSUME pc'[i] = "last", mem'[i] = m PROVE Ready(i)'
  <2>1. SchemaDone(i)'
    BY <1>1, <1>3, <1>4, <1>5, ColumnsAre DEF Ready, SchemaDone, HasColumns, KeepsColumns, Ensured
  <2>2. VersionDone(i)'
    BY <1>1, <1>3, <1>4, <1>5 DEF Ready, VersionDone, SameData
  <2>3. MoneyDone(i)'
    BY <1>4, <1>5 DEF MoneyDone
  <2>4. RowwiseDone(i)'
    BY <1>1, <1>3, <1>4, <1>5 DEF Ready, RowwiseDone, SameData, KeysInClear
  <2> QED
    BY <2>1, <2>2, <2>3, <2>4 DEF Ready
<1> QED
  BY <1>1, <1>2, <1>4, <1>5, PlacesAre, OneStep

LEMMA CreateTablesStep == ASSUME IInv, Sole, NEW i \in Instances, CreateTables(i) PROVE IInv'
<1>1. /\ pc[i] = "schema" /\ mem' = mem /\ mem' = [mem EXCEPT ![i] = mem[i]]
      /\ mem[i] \in Memory /\ synced' = synced /\ Sound(db) /\ Ready(i)
  BY DEF CreateTables, Keep, IInv, Ready
<1>2. CASE \E t \in Tables \ db.tables : db' = CreateTable(db, t) /\ UNCHANGED pc
  <2>1. PICK t \in Tables \ db.tables : db' = CreateTable(db, t) /\ UNCHANGED pc
    BY <1>2
  <2>2. Sound(db') /\ db'.version = db.version
    BY <1>1, <2>1, CreateTableSound
  <2>3. pc' = [pc EXCEPT ![i] = "schema"]
    BY <1>1, <2>1 DEF IInv
  <2>4. ASSUME pc'[i] = "schema" PROVE Ready(i)'
    BY <1>1, <2>2, <2>4 DEF Ready, SchemaDone, VersionDone, MoneyDone, RowwiseDone
  <2> QED
    BY <1>1, <2>2, <2>3, <2>4, PlacesAre, OneStep
<1>3. CASE Tables \subseteq db.tables /\ Advance(i) /\ UNCHANGED db
  <2>1. pc' = [pc EXCEPT ![i] = "early"] /\ db' = db
    BY <1>1, <1>3, AfterAre DEF Advance, Goto
  <2>2. db.tables = Tables
    BY <1>1, <1>3 DEF Sound, Database
  <2>3. ASSUME pc'[i] = "early" PROVE Ready(i)'
    BY <1>1, <2>1, <2>2, <2>3 DEF Ready, SchemaDone, VersionDone, MoneyDone, RowwiseDone
  <2> QED
    BY <1>1, <2>1, <2>3, PlacesAre, QuietStep
<1> QED
  BY <1>2, <1>3 DEF CreateTables

LEMMA EnsuredColumns ==
    /\ DOMAIN Ensured = {"early", "url", "late", "last"}
    /\ \A s \in DOMAIN Ensured : Ensured[s] \subseteq Columns
<1>1. DOMAIN Ensured = {"early", "url", "late", "last"}
  BY DEF Ensured
<1>2. Ensured["early"] \subseteq Columns /\ Ensured["url"] \subseteq Columns
  BY ColumnsAre DEF Ensured
<1>3. Ensured["late"] \subseteq Columns /\ Ensured["last"] \subseteq Columns
  BY ColumnsAre DEF Ensured
<1> QED
  BY <1>1, <1>2, <1>3

LEMMA EnsureColumnsStep ==
    ASSUME IInv, Sole, NEW i \in Instances, EnsureColumns(i) PROVE IInv'
<1>1. /\ pc[i] \in {"early", "url", "late", "last"}
      /\ mem' = mem /\ mem' = [mem EXCEPT ![i] = mem[i]]
      /\ mem[i] \in Memory /\ synced' = synced /\ Sound(db) /\ Ready(i)
  BY EnsuredColumns DEF EnsureColumns, Keep, IInv, Ready
<1>2. CASE \E c \in Ensured[pc[i]] :
              db.decl[c] = "none" /\ db' = AddColumn(db, c) /\ UNCHANGED pc
  <2>1. PICK c \in Ensured[pc[i]] :
            db.decl[c] = "none" /\ db' = AddColumn(db, c) /\ UNCHANGED pc
    BY <1>2
  <2>2. c \in Columns /\ db.tables = Tables
    BY <1>1, <2>1, EnsuredColumns DEF Ready, SchemaDone
  <2>3. /\ Sound(db') /\ SameData(db, db') /\ KeepsColumns(db, db')
        /\ db'.tables = db.tables /\ db'.fk = db.fk /\ FloatColumns(db') = FloatColumns(db)
    BY <1>1, <2>1, <2>2, AddColumnSound
  <2>4. pc' = [pc EXCEPT ![i] = pc[i]] /\ pc[i] \in Places
    BY <2>1 DEF IInv
  <2>5. ASSUME pc'[i] = pc[i] PROVE Ready(i)'
    <3>1. SchemaDone(i)'
      BY <1>1, <2>3, <2>5, EnsuredColumns, ColumnsAre
      DEF Ready, SchemaDone, HasColumns, KeepsColumns
    <3>2. VersionDone(i)'
      BY <1>1, <2>3, <2>5 DEF Ready, VersionDone, SameData, HasProtocols, HasAddresses
    <3>3. MoneyDone(i)'
      BY <1>1, <2>3, <2>5 DEF Ready, MoneyDone
    <3>4. RowwiseDone(i)'
      BY <1>1, <2>3, <2>5 DEF Ready, RowwiseDone, SameData, KeysInClear
    <3> QED
      BY <3>1, <3>2, <3>3, <3>4 DEF Ready
  <2> QED
    BY <1>1, <2>3, <2>4, <2>5, OneStep
<1>3. CASE (\A c \in Ensured[pc[i]] : db.decl[c] # "none") /\ Advance(i) /\ UNCHANGED db
  <2>1. pc' = [pc EXCEPT ![i] = After[pc[i]]] /\ db' = db /\ After[pc[i]] \in Places
    BY <1>1, <1>3, AfterAre, PlacesAre DEF Advance, Goto
  <2>2. HasColumns(db, pc[i])
    BY <1>3 DEF HasColumns
  <2>3. ASSUME pc'[i] = After[pc[i]] PROVE Ready(i)'
    <3>1. SchemaDone(i)'
      BY <1>1, <2>1, <2>2, <2>3, AfterAre DEF Ready, SchemaDone
    <3>2. VersionDone(i)'
      BY <1>1, <2>1, <2>3, AfterAre DEF Ready, VersionDone
    <3>3. MoneyDone(i)'
      BY <1>1, <2>1, <2>3, AfterAre DEF Ready, MoneyDone
    <3>4. RowwiseDone(i)'
      BY <1>1, <2>1, <2>3, AfterAre DEF Ready, RowwiseDone
    <3> QED
      BY <3>1, <3>2, <3>3, <3>4 DEF Ready
  <2> QED
    BY <1>1, <2>1, <2>3, QuietStep
<1> QED
  BY <1>2, <1>3 DEF EnsureColumns

(* The statements of run_migrations, one case each. *)
LEMMA ExecuteStep == ASSUME IInv, Sole, NEW i \in Instances, Execute(i) PROVE IInv'
<1> DEFINE places == {"anthropic", "openai", "v1", "rename", "backfill", "v2", "v3"}
<1>1. /\ pc[i] \in places /\ ~Gated(i)
      /\ pc' = [pc EXCEPT ![i] = After[pc[i]]] /\ mem' = mem
      /\ mem' = [mem EXCEPT ![i] = mem[i]] /\ mem[i] \in Memory /\ synced' = synced
      /\ Sound(db) /\ SchemaDone(i) /\ VersionDone(i) /\ MoneyDone(i) /\ RowwiseDone(i)
  BY DEF Execute, Advance, Goto, Keep, IInv
<1>2. After[pc[i]] \in Places
  BY <1>1, AfterAre, PlacesAre
<1>3. db' = Statement(pc[i], db) /\ db.version \in Nat /\ mem[i].version \in Nat
  BY <1>1 DEF Execute, Sound, Database, Memory
<1>4. db.tables = Tables
  BY <1>1 DEF SchemaDone
<1> SUFFICES Sound(db') /\ (pc'[i] = After[pc[i]] => Ready(i)')
  BY <1>1, <1>2, OneStep
<1>5. ASSUME pc[i] # "v3", pc'[i] = After[pc[i]] PROVE MoneyDone(i)' /\ RowwiseDone(i)'
  BY <1>1, <1>5, AfterAre DEF MoneyDone, RowwiseDone
<1>6. CASE pc[i] = "anthropic"
  <2>1. db' = BackfillProtocols(db, "anthropic", {"anthropic"})
    BY <1>3, <1>6 DEF Statement
  <2>2. Sound(db') /\ SameSchema(db, db') /\ db'.version = db.version
    BY <1>1, <2>1, BackfillProtocolsSound DEF Protocols
  <2>3. ASSUME pc'[i] = "openai" PROVE SchemaDone(i)' /\ VersionDone(i)'
    BY <1>1, <1>6, <2>2, <2>3 DEF SchemaDone, VersionDone, SameSchema, HasColumns
  <2> QED
    BY <1>5, <1>6, <2>2, <2>3, AfterAre DEF Ready
<1>7. CASE pc[i] = "openai"
  <2>1. db' = BackfillProtocols(db, "openai", Protocols)
    BY <1>3, <1>7 DEF Statement
  <2>2. Sound(db') /\ SameSchema(db, db') /\ db'.version = db.version /\ HasProtocols(db')
    BY <1>1, <2>1, BackfillProtocolsSound DEF Protocols
  <2>3. ASSUME pc'[i] = "v1" PROVE SchemaDone(i)' /\ VersionDone(i)'
    BY <1>1, <1>7, <2>2, <2>3 DEF SchemaDone, VersionDone, SameSchema, HasColumns
  <2> QED
    BY <1>5, <1>7, <2>2, <2>3, AfterAre DEF Ready
<1>8. CASE pc[i] = "v1"
  <2>1. db' = [db EXCEPT !.version = 1] /\ db.version = 0 /\ mem[i].version = 0 /\ HasProtocols(db)
    BY <1>1, <1>3, <1>8 DEF Statement, Gated, VersionDone
  <2>2. Sound(db') /\ SameSchema(db, db') /\ db'.version = 1
    BY <1>1, <2>1, SetVersionSound
  <2>3. ASSUME pc'[i] = "rename" PROVE SchemaDone(i)' /\ VersionDone(i)'
    BY <1>1, <1>8, <2>1, <2>2, <2>3
    DEF SchemaDone, VersionDone, SameSchema, HasColumns, SchemaVersion
  <2> QED
    BY <1>5, <1>8, <2>2, <2>3, AfterAre DEF Ready
<1>9. CASE pc[i] = "rename"
  <2>1. db' = IF db.decl["openai_base_url"] = "none"
              THEN AddColumn(db, "openai_base_url") ELSE db
    BY <1>3, <1>9 DEF Statement
  <2>2. "openai_base_url" \in Columns
    BY ColumnsAre
  <2>3. /\ Sound(db') /\ db'.tables = db.tables /\ db'.version = db.version
        /\ KeepsColumns(db, db') /\ db'.decl["openai_base_url"] # "none"
    BY <1>1, <1>4, <2>1, <2>2, AddColumnSound DEF SameData, KeepsColumns
  <2>4. ASSUME pc'[i] = "url" PROVE SchemaDone(i)' /\ VersionDone(i)'
    BY <1>1, <1>9, <2>3, <2>4, EnsuredColumns
    DEF SchemaDone, VersionDone, KeepsColumns, HasColumns
  <2> QED
    BY <1>5, <1>9, <2>3, <2>4, AfterAre DEF Ready
<1>10. CASE pc[i] = "backfill"
  <2>1. db' = BackfillUrls(db) /\ db.version < 2
    BY <1>1, <1>3, <1>10 DEF Statement, Gated, VersionDone
  <2>2. Sound(db') /\ SameSchema(db, db') /\ db'.version = db.version /\ HasAddresses(db')
    BY <1>1, <2>1, BackfillUrlsSound
  <2>3. ASSUME pc'[i] = "v2" PROVE SchemaDone(i)' /\ VersionDone(i)'
    BY <1>1, <1>10, <2>2, <2>3 DEF SchemaDone, VersionDone, SameSchema, HasColumns
  <2> QED
    BY <1>5, <1>10, <2>2, <2>3, AfterAre DEF Ready
<1>11. CASE pc[i] = "v2"
  <2>1. /\ db' = [db EXCEPT !.version = 2] /\ db.version < 2 /\ db.version >= 1
        /\ HasAddresses(db)
    BY <1>1, <1>3, <1>11 DEF Statement, Gated, VersionDone
  <2>2. HasProtocols(db) /\ db.decl["openai_base_url"] # "none"
    BY <1>1, <1>11, <2>1 DEF Sound, VersionsFit, SchemaDone
  <2>3. db.decl["anthropic_base_url"] # "none"
    BY <1>1, <1>11 DEF SchemaDone, HasColumns, Ensured
  <2>4. Sound(db') /\ SameSchema(db, db') /\ db'.version = 2
    BY <1>1, <1>3, <2>1, <2>2, <2>3, SetVersionSound
  <2>5. ASSUME pc'[i] = "late" PROVE SchemaDone(i)' /\ VersionDone(i)'
    BY <1>1, <1>11, <2>1, <2>4, <2>5
    DEF SchemaDone, VersionDone, SameSchema, HasColumns, SchemaVersion
  <2> QED
    BY <1>5, <1>11, <2>4, <2>5, AfterAre DEF Ready
<1>12. CASE pc[i] = "v3"
  <2>1. /\ db' = [db EXCEPT !.version = SchemaVersion] /\ db.version >= 2
        /\ db.version <= SchemaVersion
    BY <1>1, <1>3, <1>12 DEF Statement, VersionDone
  <2>2. HasProtocols(db) /\ HasAddresses(db) /\ db.decl["openai_base_url"] # "none"
        /\ db.decl["anthropic_base_url"] # "none"
    BY <1>1, <1>3, <2>1 DEF Sound, VersionsFit
  <2>3. SchemaVersion >= db.version
    BY <1>3, <2>1, Latest
  <2>4. /\ Sound(db') /\ SameSchema(db, db') /\ db'.version = SchemaVersion
        /\ db'.rows = db.rows /\ db'.keys = db.keys /\ db'.prov = db.prov
    BY <1>1, <2>1, <2>2, <2>3, Latest, SetVersionSound
  <2>5. ASSUME pc'[i] = "price" PROVE SchemaDone(i)' /\ VersionDone(i)'
    BY <1>1, <1>12, <2>1, <2>4, <2>5, Latest
    DEF SchemaDone, VersionDone, SameSchema, HasColumns
  <2>6. ASSUME pc'[i] = "price" PROVE MoneyDone(i)' /\ RowwiseDone(i)'
    BY <1>1, <1>12, <2>4, <2>6
    DEF MoneyDone, RowwiseDone, SameSchema, FloatColumns, KeysInClear
  <2> QED
    BY <1>12, <2>4, <2>5, <2>6, AfterAre DEF Ready
<1> QED
  BY <1>1, <1>6, <1>7, <1>8, <1>9, <1>10, <1>11, <1>12

LEMMA UpdateRowStep == ASSUME IInv, Sole, NEW i \in Instances, UpdateRow(i) PROVE IInv'
<1>1. /\ pc[i] \in {"hashing", "pricing", "sealing", "fingering"} /\ pc[i] \in Places
      /\ pc' = pc /\ pc' = [pc EXCEPT ![i] = pc[i]] /\ synced' = synced
      /\ Sound(db) /\ mem[i] \in Memory
      /\ SchemaDone(i) /\ VersionDone(i) /\ MoneyDone(i) /\ RowwiseDone(i)
  BY DEF UpdateRow, Keep, IInv
<1>2. PICK r \in mem[i].todo :
          IF pc[i] = "pricing" /\ r \in db.prices
          THEN Remember(i, [mem[i] EXCEPT !.todo = {}]) /\ UNCHANGED db
          ELSE /\ db' = Updated(pc[i], db, mem[i], r)
               /\ Remember(i, [mem[i] EXCEPT !.todo = @ \ {r}])
  BY DEF UpdateRow
<1> DEFINE m == [mem[i] EXCEPT !.todo = mem[i].todo \ {r}]
           none == [mem[i] EXCEPT !.todo = {}]
<1>3. /\ m \in Memory /\ m.todo = mem[i].todo \ {r}
      /\ m.keys = mem[i].keys /\ m.creds = mem[i].creds
      /\ none \in Memory /\ none.todo = {}
  BY <1>1 DEF Memory
<1> HIDE DEF m, none
<1>4. CASE pc[i] = "pricing" /\ r \in db.prices
  <2>1. mem' = [mem EXCEPT ![i] = none] /\ db' = db
    BY <1>2, <1>4 DEF Remember, none
  <2>2. ASSUME mem'[i] = none, pc'[i] = "pricing" PROVE Ready(i)'
    <3>1. SchemaDone(i)' /\ VersionDone(i)'
      BY <1>1, <1>4, <2>1, <2>2 DEF SchemaDone, VersionDone
    <3>2. MoneyDone(i)' /\ RowwiseDone(i)'
      BY <1>1, <1>3, <1>4, <2>1, <2>2 DEF MoneyDone, RowwiseDone
    <3> QED
      BY <3>1, <3>2 DEF Ready
  <2> QED
    BY <1>1, <1>3, <1>4, <2>1, <2>2, QuietStep
<1>5. CASE ~(pc[i] = "pricing" /\ r \in db.prices)
  <2>1. db' = Updated(pc[i], db, mem[i], r) /\ mem' = [mem EXCEPT ![i] = m]
    BY <1>2, <1>5 DEF Remember, m
  <2>2. ASSUME SameSchema(db, db'), db'.version = db.version, mem'[i] = m
        PROVE  SchemaDone(i)' /\ VersionDone(i)' /\ MoneyDone(i)'
    <3>1. SchemaDone(i)'
      BY <1>1, <2>2 DEF SchemaDone, SameSchema, HasColumns
    <3>2. VersionDone(i)'
      BY <1>1, <2>2 DEF VersionDone
    <3>3. MoneyDone(i)'
      BY <1>1, <2>2 DEF MoneyDone, SameSchema, FloatColumns
    <3> QED
      BY <3>1, <3>2, <3>3
  <2>3. CASE pc[i] = "hashing"
    <3>1. db' = HashKey(db, mem[i], r)
      BY <2>1, <2>3 DEF Updated
    <3>2. r \in ApiKeys \cap db.rows /\ mem[i].keys[r] = 0 /\ mem[i].todo = KeysInClear(db)
      BY <1>1, <2>3 DEF RowwiseDone, KeysInClear
    <3>3. /\ Sound(db') /\ SameSchema(db, db') /\ db'.version = db.version
          /\ KeysInClear(db') = KeysInClear(db) \ {r}
      BY <1>1, <3>1, <3>2, HashKeySound
    <3>4. ASSUME mem'[i] = m PROVE RowwiseDone(i)'
      BY <1>1, <1>3, <2>3, <3>2, <3>3, <3>4 DEF RowwiseDone
    <3> QED
      BY <1>1, <1>3, <2>1, <2>2, <3>3, <3>4, OneStep DEF Ready
  <2>4. CASE pc[i] = "pricing"
    <3>1. db' = ImportPrice(db, mem[i], r)
      BY <2>1, <2>4 DEF Updated
    <3>2. r \in PriceList /\ ~ListLeft(db) /\ mem[i].todo \subseteq PriceList
      BY <1>1, <2>4 DEF RowwiseDone
    <3>3. /\ Sound(db') /\ SameSchema(db, db') /\ db'.version = db.version
          /\ db'.rows = db.rows /\ db'.keys = db.keys /\ db'.saved = db.saved
      BY <1>1, <3>1, <3>2, ImportPriceSound
    <3>4. ASSUME mem'[i] = m PROVE RowwiseDone(i)'
      BY <1>1, <1>3, <2>4, <3>2, <3>3, <3>4 DEF RowwiseDone, ListLeft, KeysInClear
    <3> QED
      BY <1>1, <1>3, <2>1, <2>2, <3>3, <3>4, OneStep DEF Ready
  <2>5. CASE pc[i] = "sealing"
    <3>1. db' = SealCredential(db, mem[i], r)
      BY <2>1, <2>5 DEF Updated
    <3>2. /\ mem[i].todo = Unsealed(db) /\ KeysInClear(db) = {}
          /\ \A p \in mem[i].todo : mem[i].creds[p] = db.prov[p].cred
      BY <1>1, <2>5 DEF RowwiseDone
    <3>3. /\ Sound(db') /\ SameSchema(db, db') /\ db'.version = db.version
          /\ db'.rows = db.rows /\ db'.keys = db.keys /\ Unsealed(db') = Unsealed(db) \ {r}
          /\ \A q \in Providers \ {r} : db'.prov[q] = db.prov[q]
      BY <1>1, <3>1, <3>2, SealCredentialSound
    <3>4. ASSUME mem'[i] = m PROVE RowwiseDone(i)'
      <4>1. KeysInClear(db') = {}
        BY <3>2, <3>3 DEF KeysInClear
      <4>2. \A p \in m.todo : m.creds[p] = db'.prov[p].cred
        BY <1>3, <3>2, <3>3 DEF Unsealed
      <4> QED
        BY <1>1, <1>3, <2>5, <3>2, <3>3, <3>4, <4>1, <4>2 DEF RowwiseDone
    <3> QED
      BY <1>1, <1>3, <2>1, <2>2, <3>3, <3>4, OneStep DEF Ready
  <2>6. CASE pc[i] = "fingering"
    <3>1. db' = Fingerprint(db, mem[i], r)
      BY <2>1, <2>6 DEF Updated
    <3>2. /\ mem[i].todo = Unhashed(db) /\ KeysInClear(db) = {} /\ Unsealed(db) = {}
          /\ \A p \in mem[i].todo : mem[i].creds[p] = db.prov[p].cred
      BY <1>1, <2>6 DEF RowwiseDone
    <3>3. /\ Sound(db') /\ SameSchema(db, db') /\ db'.version = db.version
          /\ db'.rows = db.rows /\ db'.keys = db.keys
          /\ Unsealed(db') = Unsealed(db) /\ Unhashed(db') = Unhashed(db) \ {r}
          /\ \A q \in Providers : db'.prov[q].cred = db.prov[q].cred
      BY <1>1, <3>1, <3>2, FingerprintSound
    <3>4. ASSUME mem'[i] = m PROVE RowwiseDone(i)'
      <4>1. KeysInClear(db') = {}
        BY <3>2, <3>3 DEF KeysInClear
      <4>2. \A p \in m.todo : m.creds[p] = db'.prov[p].cred
        BY <1>3, <3>2, <3>3 DEF Unhashed
      <4> QED
        BY <1>1, <1>3, <2>6, <3>2, <3>3, <3>4, <4>1, <4>2 DEF RowwiseDone
    <3> QED
      BY <1>1, <1>3, <2>1, <2>2, <3>3, <3>4, OneStep DEF Ready
  <2> QED
    BY <1>1, <2>3, <2>4, <2>5, <2>6
<1> QED
  BY <1>4, <1>5

-----------------------------------------------------------------------------
(* An instance that serves, failures, and the first start. *)

(* What an edit has to keep. *)
LEMMA EditStep ==
    ASSUME IInv, Sole, NEW i \in Instances, Edit(i),
           Sound(db'), SameSchema(db, db'), db'.version = db.version,
           KeysInClear(db') = KeysInClear(db), Unsealed(db') \subseteq Unsealed(db),
           AllHashed(db) => AllHashed(db')
    PROVE  IInv'
<1>1. /\ pc[i] = "serve" /\ pc' = pc /\ pc' = [pc EXCEPT ![i] = "serve"]
      /\ mem' = [mem EXCEPT ![i] = mem[i]] /\ mem[i] \in Memory /\ synced' = synced
      /\ SchemaDone(i) /\ VersionDone(i) /\ MoneyDone(i) /\ RowwiseDone(i)
  BY DEF Edit, IInv
<1>2. SchemaDone(i)'
  BY <1>1 DEF SchemaDone, SameSchema, HasColumns
<1>3. VersionDone(i)'
  BY <1>1 DEF VersionDone
<1>4. MoneyDone(i)'
  BY <1>1 DEF MoneyDone, SameSchema, FloatColumns
<1>5. RowwiseDone(i)'
  BY <1>1 DEF RowwiseDone
<1> QED
  BY <1>1, <1>2, <1>3, <1>4, <1>5, PlacesAre, OneStep DEF Ready

LEMMA CreateProviderStep == ASSUME IInv, Sole, NEW i \in Instances, CreateProvider(i) PROVE IInv'
<1>1. PICK p \in Providers \ db.rows, type \in Protocols, protocol \in Protocols,
           aurl \in {"", "set"}, word \in Words :
          db' = Save(db, mem[i].secret, p, [db.prov[p] EXCEPT
                    !.type = type, !.protocols = protocol, !.aurl = aurl], word)
  BY DEF CreateProvider
<1>2. /\ Sound(db) /\ db.version = SchemaVersion /\ mem[i].secret \in Secrets
      /\ db.prov \in [Providers -> Row]
  BY DEF CreateProvider, Edit, IInv, VersionDone, Memory, Sound, Database
<1>3. PICK new \in Row : new.protocols # "" /\ db' = Save(db, mem[i].secret, p, new, word)
  <2> DEFINE row == [db.prov[p] EXCEPT !.type = type, !.protocols = protocol, !.aurl = aurl]
  <2>1. row \in Row /\ row.protocols = protocol /\ protocol # ""
    BY <1>2 DEF Row, Protocols
  <2> QED
    BY <1>1, <2>1
<1>4. p \in Providers /\ word \in Words /\ new \in Row /\ new.protocols # ""
  BY <1>1, <1>3
<1>5. /\ Sound(db') /\ SameSchema(db, db') /\ db'.version = db.version
      /\ KeysInClear(db') = KeysInClear(db) /\ Unsealed(db') \subseteq Unsealed(db)
      /\ AllHashed(db) => AllHashed(db')
  <2> DEFINE s == mem[i].secret
  <2>1. Sound(db) /\ db.version = SchemaVersion /\ s \in Secrets
    BY <1>2
  <2>2. db' = Save(db, s, p, new, word)
    BY <1>3
  <2> HIDE DEF s
  <2> QED
    BY <1>4, <2>1, <2>2, SaveSound
<1> QED
  BY <1>5, EditStep DEF CreateProvider

LEMMA UpdateKeyStep == ASSUME IInv, Sole, NEW i \in Instances, UpdateKey(i) PROVE IInv'
<1>1. PICK p \in Providers \cap db.rows, word \in Words :
          db' = Save(db, mem[i].secret, p, db.prov[p], word)
  BY DEF UpdateKey
<1>2. /\ Sound(db) /\ db.version = SchemaVersion /\ mem[i].secret \in Secrets
      /\ db.prov \in [Providers -> Row]
  BY DEF UpdateKey, Edit, IInv, VersionDone, Memory, Sound, Database
<1>3. db.prov[p] \in Row /\ db.prov[p].protocols # ""
  BY <1>2, Latest DEF Sound, VersionsFit, HasProtocols
<1> QED
  BY <1>1, <1>2, <1>3, SaveSound, EditStep DEF UpdateKey

LEMMA UpdateAddressStep == ASSUME IInv, Sole, NEW i \in Instances, UpdateAddress(i) PROVE IInv'
<1>1. PICK p \in Providers \cap db.rows, aurl \in {"", "set"} :
          db' = [db EXCEPT !.prov[p].aurl = aurl, !.saved.aurl[p] = aurl]
  BY DEF UpdateAddress
<1>2. Sound(db) /\ db.version = SchemaVersion
  BY DEF UpdateAddress, Edit, IInv, VersionDone
<1> QED
  BY <1>1, <1>2, AddressSound, EditStep DEF UpdateAddress

LEMMA EditPricesStep == ASSUME IInv, Sole, NEW i \in Instances, EditPrices(i) PROVE IInv'
<1>1. Sound(db) /\ db.prices \in SUBSET PriceList
  BY DEF IInv, Sound, Database
<1>2. PICK prices \in SUBSET PriceList :
          db' = [db EXCEPT !.prices = prices, !.saved.edited = TRUE, !.saved.prices = prices]
  BY <1>1 DEF EditPrices
<1> QED
  BY <1>1, <1>2, PriceEditSound, EditStep DEF EditPrices

LEMMA DownIsReady == ASSUME NEW i \in Instances, pc[i] = "down" PROVE Ready(i)
BY DEF Ready, SchemaDone, VersionDone, MoneyDone, RowwiseDone

LEMMA CrashStep == ASSUME IInv, Sole, NEW i \in Instances, Crash(i) PROVE IInv'
<1>1. /\ pc' = [pc EXCEPT ![i] = "down"] /\ mem' = [mem EXCEPT ![i] = Blank(AnySecret)]
      /\ db' = db /\ synced' = synced /\ Blank(AnySecret) \in Memory
  BY BlankType, SecretExists DEF Crash, Goto, Remember
<1>2. ASSUME pc'[i] = "down" PROVE Ready(i)'
  BY <1>2 DEF Ready, SchemaDone, VersionDone, MoneyDone, RowwiseDone
<1> QED
  BY <1>1, <1>2, PlacesAre, QuietStep

LEMMA PowerLossStep == ASSUME IInv, PowerLoss PROVE IInv'
<1>1. /\ pc' = [i \in Instances |-> "down"] /\ mem' = [i \in Instances |-> Blank(AnySecret)]
      /\ db' = synced /\ synced' = synced /\ Blank(AnySecret) \in Memory
  BY BlankType, SecretExists DEF PowerLoss
<1>2. ASSUME NEW i \in Instances PROVE Ready(i)'
  BY <1>1 DEF Ready, SchemaDone, VersionDone, MoneyDone, RowwiseDone
<1> QED
  BY <1>1, <1>2, PlacesAre DEF IInv, Ready

(* What a release leaves behind is sound: the migrations that are still to *)
(* come are those that its version calls for.                              *)
LEMMA LegacyIsSound == ASSUME NEW d, Legacy(d) PROVE Sound(d)
<1>1. d \in Database /\ d.version \in Nat
  BY DEF Legacy, Database
<1>2. InUnit(d) /\ TablesFit(d) /\ PricesFit(d)
  BY DEF Legacy, TablesFit, PricesFit, ListLeft
<1>3. RowsFit(d)
  <2>1. \A k \in ApiKeys \cap d.rows : d.keys[k] <= 1
    BY DEF Legacy
  <2>2. \A p \in Providers \cap d.rows :
            /\ d.prov[p].cred.word = d.saved.word[p] /\ d.prov[p].cred.layers <= 1
            /\ d.prov[p].hash \in {NoHash, d.prov[p].cred.word, ""}
    BY DEF Legacy
  <2> QED
    BY <2>1, <2>2 DEF RowsFit
<1>4. VersionsFit(d)
  <2>1. d.version >= 1 => HasProtocols(d)
    <3>1. d.prov \in [Providers -> Row]
      BY <1>1 DEF Database
    <3>2. ASSUME d.version >= 1, NEW p \in Providers \cap d.rows PROVE d.prov[p].protocols # ""
      <4>1. d.version # 0
        BY <1>1, <3>2
      <4>2. d.prov[p].protocols = d.prov[p].type
        BY <4>1 DEF Legacy
      <4> QED
        BY <3>1, <4>2 DEF Row, Protocols
    <3> QED
      BY <3>2 DEF HasProtocols
  <2>2. ASSUME d.version >= 2 PROVE HasAddresses(d)
    <3>1. ~(d.version < 2)
      BY <1>1, <2>2
    <3> QED
      BY <3>1 DEF Legacy, HasAddresses
  <2>3. d.version >= 2 => /\ d.decl["openai_base_url"] # "none"
                          /\ d.decl["anthropic_base_url"] # "none"
    BY DEF Legacy
  <2>4. d.version < 2 => \A p \in Providers \cap d.rows : d.saved.aurl[p] = "set"
    BY DEF Legacy
  <2> QED
    BY <2>1, <2>2, <2>3, <2>4 DEF VersionsFit
<1> QED
  BY <1>1, <1>2, <1>3, <1>4 DEF Sound

LEMMA InitIInv == Init => IInv
<1> SUFFICES ASSUME Init PROVE IInv
  OBVIOUS
<1>1. Legacy(db)
  BY StartupAssumption DEF Init
<1>2. Sound(db) /\ Sound(synced)
  BY <1>1, LegacyIsSound DEF Init
<1>3. pc \in [Instances -> Places] /\ mem \in [Instances -> Memory]
  BY BlankType, SecretExists, PlacesAre DEF Init
<1>4. ASSUME NEW i \in Instances PROVE Ready(i)
  BY DownIsReady DEF Init
<1> QED
  BY <1>2, <1>3, <1>4 DEF IInv, Ready

LEMMA NextIInv == ASSUME Sole PROVE IInv /\ [Next]_vars => IInv'
<1> SUFFICES ASSUME IInv, [Next]_vars PROVE IInv'
  OBVIOUS
<1>1. CASE \E i \in Instances : Start(i)
  BY <1>1, OpenStep, CreateTablesStep, EnsureColumnsStep, ReadVersionStep, PassOverStep,
     ExecuteStep, LookAtMoneyStep, ConvertStep, LookAtForeignKeysStep, RebuildStep, PickStep,
     UpdateRowStep, RowsDoneStep DEF Start
<1>2. CASE \E i \in Instances : \/ CreateProvider(i) \/ UpdateKey(i) \/ UpdateAddress(i)
                                \/ EditPrices(i) \/ Crash(i)
  BY <1>2, CreateProviderStep, UpdateKeyStep, UpdateAddressStep, EditPricesStep, CrashStep
<1>3. CASE PowerLoss
  BY <1>3, PowerLossStep
<1>4. CASE Checkpoint
  <2>1. synced' = db /\ db' = db /\ pc' = pc /\ mem' = mem
    BY <1>4 DEF Checkpoint
  <2> QED
    BY <2>1 DEF IInv, SchemaDone, VersionDone, MoneyDone, RowwiseDone
<1>5. CASE UNCHANGED vars
  <2>1. synced' = synced /\ db' = db /\ pc' = pc /\ mem' = mem
    BY <1>5 DEF vars
  <2> QED
    BY <2>1 DEF IInv, SchemaDone, VersionDone, MoneyDone, RowwiseDone
<1> QED
  BY <1>1, <1>2, <1>3, <1>4, <1>5 DEF Next

-----------------------------------------------------------------------------
(* Whatever kills a single process and how often it is started again:      *)

(* every place of a start relies on what the places before it have done    *)
(* (DbPool::new, run_migrations).                                          *)
THEOREM StartsInOrder == ASSUME Sole PROVE Spec => []IInv
BY InitIInv, NextIInv, PTL DEF Spec

(* amounts are multiplied by 10^6 exactly once (migrate_currency_micro).   *)
THEOREM MoneyMovesOnce == ASSUME Sole PROVE Spec => []MoneyOnce
<1>1. IInv => MoneyOnce
  BY DEF IInv, Sound, MoneyOnce
<1> QED
  BY <1>1, StartsInOrder, PTL

(* no key is lost, hashed twice or sealed twice (migrate_hash_api_keys,    *)
(* encrypt_provider_keys, backfill_provider_key_hash).                     *)
THEOREM NoKeyIsLost == ASSUME Sole PROVE Spec => []KeysKept
<1>1. IInv => KeysKept
  <2> SUFFICES ASSUME IInv PROVE KeysKept
    OBVIOUS
  <2>1. \A k \in ApiKeys \cap db.rows : db.keys[k] <= 1
    BY DEF IInv, Sound, RowsFit
  <2>2. \A p \in Providers \cap db.rows :
            /\ db.prov[p].cred.word = db.saved.word[p] /\ db.prov[p].cred.layers <= 1
            /\ db.prov[p].hash \in {NoHash, db.prov[p].cred.word, ""}
    BY DEF IInv, Sound, RowsFit
  <2> QED
    BY <2>1, <2>2 DEF KeysKept
<1> QED
  BY <1>1, StartsInOrder, PTL

(* who serves has the whole schema and nothing half migrated.              *)
THEOREM OnlyWholeIsServed == ASSUME Sole PROVE Spec => []ServedIsWhole
<1>1. IInv => ServedIsWhole
  <2> SUFFICES ASSUME IInv, NEW i \in Instances, pc[i] = "serve" PROVE ServedIsWhole
    BY DEF ServedIsWhole
  <2>1. SchemaDone(i) /\ VersionDone(i) /\ MoneyDone(i) /\ RowwiseDone(i) /\ Sound(db)
    BY DEF IInv
  <2>2. db.version = SchemaVersion /\ db.tables = Tables /\ db.fk = "set_null"
    BY <2>1 DEF SchemaDone, VersionDone, MoneyDone
  <2>3. \A c \in Columns : db.decl[c] \notin {"none", "REAL"}
    <3>1. \A c \in Columns : db.decl[c] # "REAL"
      BY <2>1 DEF MoneyDone, FloatColumns, Sound, TablesFit
    <3>2. \A c \in Original : db.decl[c] # "none"
      <4>1. \A t \in Tables : \A c \in ColumnsOf[t] \cap Original : db.decl[c] # "none"
        BY <2>1, <2>2 DEF Sound, TablesFit
      <4> QED
        BY <4>1, TablesAre DEF ColumnsOf, Original
    <3>3. /\ HasColumns(db, "early") /\ HasColumns(db, "url") /\ HasColumns(db, "late")
          /\ HasColumns(db, "last") /\ db.decl["openai_base_url"] # "none"
      BY <2>1 DEF SchemaDone
    <3>4. \A c \in Columns : db.decl[c] # "none"
      BY <3>2, <3>3, ColumnsAre DEF Original, HasColumns, Ensured
    <3> QED
      BY <3>1, <3>4
  <2>4. \A k \in ApiKeys \cap db.rows : db.keys[k] # 0
    BY <2>1 DEF RowwiseDone, KeysInClear
  <2>5. ASSUME NEW p \in Providers \cap db.rows
        PROVE  /\ IsEmpty(db.prov[p].cred) \/ HasPrefix(db.prov[p].cred)
               /\ db.prov[p].cred.word # "" => db.prov[p].hash # NoHash
               /\ db.prov[p].protocols # ""
    <3>1. Unsealed(db) = {} /\ AllHashed(db)
      BY <2>1 DEF RowwiseDone
    <3>2. HasProtocols(db)
      BY <2>1, <2>2, Latest DEF Sound, VersionsFit
    <3>3. IsEmpty(db.prov[p].cred) \/ HasPrefix(db.prov[p].cred)
      BY <3>1 DEF Unsealed
    <3>4. db.prov[p].cred.word # "" => db.prov[p].hash # NoHash
      BY <3>1 DEF AllHashed, Unhashed, IsEmpty
    <3> QED
      BY <3>2, <3>3, <3>4 DEF HasProtocols
  <2> QED
    BY <2>2, <2>3, <2>4, <2>5 DEF ServedIsWhole
<1> QED
  BY <1>1, StartsInOrder, PTL

(* and no start takes back what an administrator has saved (the version    *)
(* gates of run_migrations, seed_default_prices).                          *)
THEOREM ChoicesAreKept == ASSUME Sole PROVE Spec => []ChoicesKept
<1>1. IInv => ChoicesKept
  <2> SUFFICES ASSUME IInv PROVE ChoicesKept
    OBVIOUS
  <2>1. db.saved.edited /\ db.saved.prices # {} => db.prices = db.saved.prices
    BY DEF IInv, Sound, PricesFit, ListLeft
  <2>2. ASSUME NEW i \in Instances, pc[i] = "serve", NEW p \in Providers \cap db.rows
        PROVE  db.prov[p].aurl = db.saved.aurl[p]
    <3>1. db.version = SchemaVersion /\ VersionsFit(db)
      BY <2>2 DEF IInv, VersionDone, Sound
    <3> QED
      BY <3>1, Latest DEF VersionsFit, HasAddresses
  <2> QED
    BY <2>1, <2>2 DEF ChoicesKept
<1> QED
  BY <1>1, StartsInOrder, PTL
=============================================================================
