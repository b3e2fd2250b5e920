------------------------------ MODULE Startup ------------------------------
(***************************************************************************)
(* The start of a process on a database of any age: create_connection,    *)
(* initialize_schema, run_migrations, the imports and the rewriting of     *)
(* stored credentials in DbPool::new (src/db/mod.rs), and what an          *)
(* administrator saves while a process serves.                             *)
(*                                                                         *)
(* Every statement outside of a transaction is committed by itself, so an  *)
(* instance can be killed between any two of them, and a power loss takes  *)
(* the database back to the last point that was synced (WAL with           *)
(* synchronous=NORMAL).  What an instance keeps in memory between a SELECT *)
(* and the statements that depend on it is in `mem`.                       *)
(***************************************************************************)
EXTENDS Naturals

CONSTANTS Instances,    \* processes that share the database file
          Providers,    \* rows of providers
          ApiKeys,      \* rows of api_keys
          Prices,       \* the built-in price list without its fallback
          Secrets,      \* what KeyCipher::from_config may derive a key from
          Databases,    \* what may be found at the first start
          MaxCrashes, MaxEdits    \* bounds for TLC

\* SCHEMA_VERSION (mod.rs 15) and the catch-all entry of the price list.
SchemaVersion == 3
Fallback == "*"

-----------------------------------------------------------------------------
(* What a database holds. *)

Money == {"balance", "cost", "amount", "balance_after", "daily_cost"}

(* The tables with those of their columns that a start looks at; a column *)
(* that is only added stands for the others added in the same place.      *)
ColumnsOf == [users |-> {"balance", "token_version"},
              api_keys |-> {"rate_limit_rpm", "key_suffix"},
              providers |-> {"protocols", "openai_base_url",
                             "anthropic_base_url", "key_hash"},
              request_logs |-> {"request_type", "cost", "cached_tokens"},
              billing_transactions |-> {"amount", "balance_after"},
              usage_daily |-> {"daily_cost"},
              model_prices |-> {"cached_price"}]
Tables == DOMAIN ColumnsOf
Columns == UNION {ColumnsOf[t] : t \in Tables}
NewType(c) == IF c \in Money THEN "INTEGER" ELSE "TEXT"

(* Keys in clear: none, the one a row was found with, one saved since.    *)
Words == {"", "old", "new"}
NoHash == "-"

(* A stored credential: the word and how often it was sealed (the prefix   *)
(* enc:v1:), the last time under which secret.                             *)
Credential == [word : Words, layers : Nat, secret : Secrets]
Sealed(s, cred) == [cred EXCEPT !.layers = @ + 1, !.secret = s]
HasPrefix(cred) == cred.layers > 0
IsEmpty(cred) == cred.word = "" /\ ~HasPrefix(cred)
DecryptOrPlain(s, cred) ==
    IF ~HasPrefix(cred) \/ (cred.layers = 1 /\ cred.secret = s)
    THEN cred.word ELSE ""

Protocols == {"openai", "anthropic"}
Row == [type : Protocols, protocols : Protocols \cup {""},
        aurl : {"", "set"}, cred : Credential, hash : Words \cup {NoHash}]

(* `rows` are the channels and keys there are; what `keys` and `prov` say  *)
(* of others means nothing.  `scale` counts how often the amounts of a     *)
(* column were multiplied by 10^6 (1 for a column that is not there: its   *)
(* default is zero), `keys` how often a key of api_keys was hashed.        *)
(* `saved` is history: what the administrator last saved, kept here        *)
(* because a power loss takes it back.                                     *)
PriceList == Prices \cup {Fallback}
Saved == [aurl : [Providers -> {"", "set"}], word : [Providers -> Words],
          edited : BOOLEAN, prices : SUBSET PriceList]
Database == [version : Nat, tables : SUBSET Tables,
             decl : [Columns -> {"none", "TEXT", "INTEGER", "REAL"}],
             scale : [Money -> Nat], fk : {"restrict", "set_null"},
             rows : SUBSET (Providers \cup ApiKeys),
             keys : [ApiKeys -> Nat], prov : [Providers -> Row],
             prices : SUBSET PriceList, saved : Saved]

(* Amounts in yuan are in columns declared as floating point, amounts in   *)
(* micro-yuan in integer ones.                                             *)
InUnit(d) == \A m \in Money : d.scale[m] = IF d.decl[m] = "REAL" THEN 0 ELSE 1

(* Columns no migration adds: their tables never were without them. *)
Original == {"amount", "balance_after", "daily_cost"}

(* What the releases whose traces the migrations look for leave behind.    *)
Legacy(d) ==
    /\ d \in Database
    /\ InUnit(d)
    /\ \A c \in Columns : d.decl[c] = "REAL" => c \in Money
    /\ \A t \in Tables \ d.tables : \A c \in ColumnsOf[t] : d.decl[c] = "none"
    /\ \A t \in d.tables : \A c \in ColumnsOf[t] \cap Original : d.decl[c] # "none"
    /\ d.version >= SchemaVersion =>
          /\ d.tables = Tables /\ d.fk = "set_null"
          /\ \A c \in Columns : d.decl[c] = NewType(c)
    /\ d.version >= 2 => \A c \in {"openai_base_url", "anthropic_base_url", "protocols"} :
                            d.decl[c] # "none"
    /\ d.version >= 1 => d.decl["protocols"] # "none"
    /\ "api_keys" \notin d.tables => d.rows \cap ApiKeys = {}
    /\ "providers" \notin d.tables => d.rows \cap Providers = {}
    /\ \A k \in ApiKeys \cap d.rows :
          d.keys[k] <= 1 /\ (d.version >= SchemaVersion => d.keys[k] = 1)
    /\ \A p \in Providers \cap d.rows :
          LET r == d.prov[p] IN
          /\ r.cred.layers <= 1 /\ r.hash \in {NoHash, r.cred.word}
          /\ r.protocols = IF d.version = 0 THEN "" ELSE r.type
          /\ d.saved.word[p] = r.cred.word
          /\ d.saved.aurl[p] = IF d.version < 2 THEN "set" ELSE r.aurl
          /\ d.version < 2 => r.aurl = ""
    /\ ~d.saved.edited /\ d.prices = {}

ASSUME StartupAssumption ==
    /\ Providers \cap ApiKeys = {}
    /\ Secrets # {} /\ Fallback \notin Prices
    /\ MaxCrashes \in Nat /\ MaxEdits \in Nat
    /\ \A d \in Databases : Legacy(d)

-----------------------------------------------------------------------------
VARIABLES db,       \* what is committed
          synced,   \* what a power loss leaves of it
          pc,       \* how far each instance has come
          mem,      \* what each instance has read and not used yet
          crashes, edits

vars == <<db, synced, pc, mem, crashes, edits>>

(* The places between two statements, in the order of the code.  "version" *)
(* reads PRAGMA user_version, "money" and "fk" look at declarations before *)
(* "convert" and "rebuild" open a transaction, "hash", "price", "seal" and *)
(* "finger" select the rows that the stage after them goes through.        *)
After == [schema |-> "early", early |-> "version", version |-> "anthropic",
          anthropic |-> "openai", openai |-> "v1", v1 |-> "rename",
          rename |-> "url", url |-> "backfill", backfill |-> "v2", v2 |-> "late",
          late |-> "hash", hash |-> "hashing", hashing |-> "money",
          money |-> "convert", convert |-> "fk", fk |-> "rebuild",
          rebuild |-> "last", last |-> "v3", v3 |-> "price", price |-> "pricing",
          pricing |-> "seal", seal |-> "sealing", sealing |-> "finger",
          finger |-> "fingering", fingering |-> "serve"]
Stages == DOMAIN After
Places == Stages \cup {"down", "refused", "serve"}

AnySecret == CHOOSE s \in Secrets : TRUE
Blank(s) == [version |-> 0, secret |-> s, floats |-> {}, rebuild |-> FALSE,
             todo |-> {}, keys |-> [k \in ApiKeys |-> 0],
             creds |-> [p \in Providers |->
                           [word |-> "", layers |-> 0, secret |-> AnySecret]]]
Memory == [version : Nat, secret : Secrets, floats : SUBSET Money, rebuild : BOOLEAN,
           todo : SUBSET (Providers \cup ApiKeys \cup PriceList),
           keys : [ApiKeys -> Nat], creds : [Providers -> Credential]]

Init ==
    /\ db \in Databases /\ synced = db
    /\ pc = [i \in Instances |-> "down"]
    /\ mem = [i \in Instances |-> Blank(AnySecret)]
    /\ crashes = 0 /\ edits = 0

-----------------------------------------------------------------------------
(* Statements, as functions from databases to databases. *)

(* CREATE TABLE IF NOT EXISTS: a new table has today's columns. *)
CreateTable(d, t) ==
    [d EXCEPT !.tables = @ \cup {t},
              !.decl = [c \in Columns |-> IF c \in ColumnsOf[t] THEN NewType(c) ELSE @[c]],
              !.fk = IF t = "request_logs" THEN "set_null" ELSE @]

AddColumn(d, c) == [d EXCEPT !.decl[c] = NewType(c)]

(* Version 1 is written with the first of the two statements. *)
BackfillProtocolsEarly(d, protocol, types) ==
    [d EXCEPT !.version = 1, !.prov = [p \in Providers |->
        IF p \in d.rows /\ @[p].protocols = "" /\ @[p].type \in types
        THEN [@[p] EXCEPT !.protocols = protocol] ELSE @[p]]]

BackfillProtocols(d, protocol, types) ==
    [d EXCEPT !.prov = [p \in Providers |->
        IF p \in d.rows /\ @[p].protocols = "" /\ @[p].type \in types
        THEN [@[p] EXCEPT !.protocols = protocol] ELSE @[p]]]

BackfillUrls(d) ==
    [d EXCEPT !.prov = [p \in Providers |->
        IF p \in d.rows THEN [@[p] EXCEPT !.aurl = "set"] ELSE @[p]]]

(* The columns that are still declared as floating point. *)
FloatColumns(d) == {m \in Money : d.decl[m] = "REAL"}

(* All amounts of a table are multiplied, whatever their columns declare. *)
ConvertMoneyWhole(d, floats) ==
    LET rebuilt == {t \in Tables : ColumnsOf[t] \cap floats # {}}
        columns == UNION {ColumnsOf[t] : t \in rebuilt} IN
    [d EXCEPT
        !.decl = [c \in Columns |-> IF c \in columns THEN NewType(c) ELSE @[c]],
        !.scale = [m \in Money |-> IF m \in columns THEN @[m] + 1 ELSE @[m]],
        !.fk = IF "request_logs" \in rebuilt THEN "set_null" ELSE @]

(* One transaction: every table that has one of the columns is rebuilt as *)
(* initialize_schema declares it, with these columns' amounts multiplied. *)
ConvertMoney(d, floats) ==
    LET rebuilt == {t \in Tables : ColumnsOf[t] \cap floats # {}} IN
    [d EXCEPT
        !.decl = [c \in Columns |-> IF \E t \in rebuilt : c \in ColumnsOf[t]
                                    THEN NewType(c) ELSE @[c]],
        !.scale = [m \in Money |-> IF m \in floats THEN @[m] + 1 ELSE @[m]],
        !.fk = IF "request_logs" \in rebuilt THEN "set_null" ELSE @]

NeedsRebuild(d) == d.fk # "set_null"

(* One transaction: request_logs copied into a table with today's columns. *)
RebuildLogs(d) ==
    [d EXCEPT
        !.decl = [c \in Columns |-> IF c \in ColumnsOf["request_logs"]
                                    THEN NewType(c) ELSE @[c]],
        !.fk = "set_null"]

-----------------------------------------------------------------------------
(* Steps of a start. *)

Goto(i, place) == pc' = [pc EXCEPT ![i] = place]
Advance(i) == Goto(i, After[pc[i]])
Remember(i, m) == mem' = [mem EXCEPT ![i] = m]
Keep == UNCHANGED <<synced, crashes, edits>>

(* A database of the same version is refused too. *)
OpenOlder(i) ==
    /\ pc[i] = "down"
    /\ \E s \in Secrets : Remember(i, Blank(s))
    /\ Goto(i, IF db.version >= SchemaVersion THEN "refused" ELSE "schema")
    /\ UNCHANGED db /\ Keep

(* create_connection up to initialize_schema: a newer database is refused. *)
Open(i) ==
    /\ pc[i] = "down"
    /\ \E s \in Secrets : Remember(i, Blank(s))
    /\ Goto(i, IF db.version > SchemaVersion THEN "refused" ELSE "schema")
    /\ UNCHANGED db /\ Keep

(* initialize_schema: one table after the other, then the migrations. *)
CreateTables(i) ==
    /\ pc[i] = "schema"
    /\ \/ \E t \in Tables \ db.tables : db' = CreateTable(db, t) /\ UNCHANGED pc
       \/ Tables \subseteq db.tables /\ Advance(i) /\ UNCHANGED db
    /\ UNCHANGED mem /\ Keep

(* The calls of ensure_column at each place of run_migrations. *)
Ensured == [early |-> {"protocols", "rate_limit_rpm", "balance"},
            url |-> {"anthropic_base_url"},
            late |-> {"key_suffix", "token_version", "request_type"},
            last |-> {"cost", "cached_tokens", "cached_price", "key_hash"}]

(* The migration of version 2 at every start. *)
GatedOnce(i) == pc[i] \in {"anthropic", "openai", "v1"} /\ mem[i].version # 0

(* The places that are passed over on a database that was there before. *)
Gated(i) == \/ pc[i] \in {"anthropic", "openai", "v1"} /\ mem[i].version # 0
            \/ pc[i] \in {"rename", "url", "backfill", "v2"} /\ mem[i].version >= 2

(* ensure_column adds a column that is not there; an instance that comes   *)
(* second fails, looks again and goes on, so that it is one step.          *)
EnsureColumns(i) ==
    /\ pc[i] \in DOMAIN Ensured
    /\ ~Gated(i)
    /\ \/ \E c \in Ensured[pc[i]] :
            db.decl[c] = "none" /\ db' = AddColumn(db, c) /\ UNCHANGED pc
       \/ /\ \A c \in Ensured[pc[i]] : db.decl[c] # "none"
          /\ Advance(i) /\ UNCHANGED db
    /\ UNCHANGED mem /\ Keep

(* PRAGMA user_version, read once for both of the gates that follow. *)
ReadVersion(i) ==
    /\ pc[i] = "version"
    /\ Remember(i, [mem[i] EXCEPT !.version = db.version])
    /\ Advance(i)
    /\ UNCHANGED db /\ Keep

PassOver(i) ==
    /\ Gated(i)
    /\ Advance(i)
    /\ UNCHANGED <<db, mem>> /\ Keep

(* Statements of run_migrations, each committed by itself. *)
Statement(place, d) ==
    CASE place = "anthropic" -> BackfillProtocols(d, "anthropic", {"anthropic"})
      [] place = "openai" -> BackfillProtocols(d, "openai", Protocols)
      [] place = "v1" -> [d EXCEPT !.version = 1]
      [] place = "rename" -> IF d.decl["openai_base_url"] = "none"
                             THEN AddColumn(d, "openai_base_url") ELSE d
      [] place = "backfill" -> BackfillUrls(d)
      [] place = "v2" -> [d EXCEPT !.version = 2]
      [] place = "v3" -> [d EXCEPT !.version = SchemaVersion]

Execute(i) ==
    /\ pc[i] \in {"anthropic", "openai", "v1", "rename", "backfill", "v2", "v3"}
    /\ ~Gated(i)
    /\ db' = Statement(pc[i], db)
    /\ Advance(i)
    /\ UNCHANGED mem /\ Keep

(* migrate_currency_micro decides on the declarations it reads here ...    *)
LookAtMoney(i) ==
    /\ pc[i] = "money"
    /\ Remember(i, [mem[i] EXCEPT !.floats = FloatColumns(db)])
    /\ Advance(i)
    /\ UNCHANGED db /\ Keep

(* ... and rebuilds in a transaction that begins after that.               *)
Convert(i) ==
    /\ pc[i] = "convert"
    /\ db' = ConvertMoney(db, mem[i].floats)
    /\ Remember(i, [mem[i] EXCEPT !.floats = {}])
    /\ Advance(i)
    /\ Keep

LookAtForeignKeys(i) ==
    /\ pc[i] = "fk"
    /\ Remember(i, [mem[i] EXCEPT !.rebuild = NeedsRebuild(db)])
    /\ Advance(i)
    /\ UNCHANGED db /\ Keep

Rebuild(i) ==
    /\ pc[i] = "rebuild"
    /\ db' = IF mem[i].rebuild THEN RebuildLogs(db) ELSE db
    /\ Remember(i, [mem[i] EXCEPT !.rebuild = FALSE])
    /\ Advance(i)
    /\ Keep

(* Row by row: a SELECT picks the rows and reads what they hold, and every *)
(* row is then updated by id from what was read, in a statement of its     *)
(* own.                                                                    *)
KeysInClear(d) == {k \in ApiKeys \cap d.rows : d.keys[k] = 0}
UnsealedAll(d) == {p \in Providers \cap d.rows : ~IsEmpty(d.prov[p].cred)}
Unsealed(d) == {p \in Providers \cap d.rows :
                   ~IsEmpty(d.prov[p].cred) /\ ~HasPrefix(d.prov[p].cred)}
Unhashed(d) == {p \in Providers \cap d.rows :
                   d.prov[p].hash = NoHash /\ ~IsEmpty(d.prov[p].cred)}

(* seed_default_prices: the list is imported when the table is empty.      *)
Missing(d) == IF d.prices = {} THEN PriceList ELSE {}

Picked(place, d) == CASE place = "hash" -> KeysInClear(d)
                      [] place = "price" -> Missing(d)
                      [] place = "seal" -> Unsealed(d)
                      [] place = "finger" -> Unhashed(d)

Pick(i) ==
    /\ pc[i] \in {"hash", "price", "seal", "finger"}
    /\ Remember(i, [mem[i] EXCEPT !.todo = Picked(pc[i], db), !.keys = db.keys,
                                  !.creds = [p \in Providers |-> db.prov[p].cred]])
    /\ Advance(i)
    /\ UNCHANGED db /\ Keep

HashKey(d, m, k) == [d EXCEPT !.keys[k] = m.keys[k] + 1]
SealCredential(d, m, p) == [d EXCEPT !.prov[p].cred = Sealed(m.secret, m.creds[p])]
Fingerprint(d, m, p) == [d EXCEPT !.prov[p].hash = DecryptOrPlain(m.secret, m.creds[p])]
ImportPrice(d, m, e) == [d EXCEPT !.prices = @ \cup {e}]

Updated(place, d, m, r) == CASE place = "hashing" -> HashKey(d, m, r)
                             [] place = "pricing" -> ImportPrice(d, m, r)
                             [] place = "sealing" -> SealCredential(d, m, r)
                             [] place = "fingering" -> Fingerprint(d, m, r)

(* The fallback is the last price; an entry that another instance has      *)
(* imported meanwhile is refused as a duplicate, which ends the import.    *)
NextRow(i, r) ==
    pc[i] = "pricing" => (r = Fallback => mem[i].todo = {Fallback})

UpdateRow(i) ==
    /\ pc[i] \in {"hashing", "pricing", "sealing", "fingering"}
    /\ \E r \in mem[i].todo :
          /\ NextRow(i, r)
          /\ IF pc[i] = "pricing" /\ r \in db.prices
             THEN Remember(i, [mem[i] EXCEPT !.todo = {}]) /\ UNCHANGED db
             ELSE /\ db' = Updated(pc[i], db, mem[i], r)
                  /\ Remember(i, [mem[i] EXCEPT !.todo = @ \ {r}])
    /\ UNCHANGED pc /\ Keep

RowsDone(i) ==
    /\ pc[i] \in {"hashing", "pricing", "sealing", "fingering"}
    /\ mem[i].todo = {}
    /\ Remember(i, Blank(mem[i].secret))
    /\ Advance(i)
    /\ UNCHANGED db /\ Keep

Start(i) == \/ Open(i) \/ CreateTables(i) \/ EnsureColumns(i) \/ ReadVersion(i)
            \/ PassOver(i) \/ Execute(i) \/ LookAtMoney(i) \/ Convert(i)
            \/ LookAtForeignKeys(i) \/ Rebuild(i) \/ Pick(i) \/ UpdateRow(i) \/ RowsDone(i)

-----------------------------------------------------------------------------
(* What administrators do through an instance that serves. *)

Edit(i) ==
    /\ pc[i] = "serve" /\ edits < MaxEdits
    /\ edits' = edits + 1
    /\ UNCHANGED <<synced, pc, mem, crashes>>

(* A key is sealed under the secret of the process, its hash is kept unless *)
(* it is empty, and another channel with the same hash refuses it.          *)
Save(d, s, p, row, word) ==
    [d EXCEPT !.rows = @ \cup {p},
              !.prov[p] = [row EXCEPT
                  !.cred = Sealed(s, [word |-> word, layers |-> 0, secret |-> s]),
                  !.hash = IF word = "" THEN NoHash ELSE word],
              !.saved.word[p] = word, !.saved.aurl[p] = row.aurl]
Duplicate(d, p, word) ==
    word # "" /\ \E q \in (Providers \cap d.rows) \ {p} : d.prov[q].hash = word

(* A channel of the anthropic protocol must keep an address for it. *)
Addressed(row) == row.protocols = "anthropic" => row.aurl # ""

CreateProvider(i) ==
    /\ Edit(i)
    /\ \E p \in Providers \ db.rows, type \in Protocols, protocol \in Protocols,
          aurl \in {"", "set"}, word \in Words :
          LET row == [db.prov[p] EXCEPT !.type = type, !.protocols = protocol,
                                        !.aurl = aurl] IN
          /\ Addressed(row) /\ ~Duplicate(db, p, word)
          /\ db' = Save(db, mem[i].secret, p, row, word)

UpdateKey(i) ==
    /\ Edit(i)
    /\ \E p \in Providers \cap db.rows, word \in Words :
          /\ ~Duplicate(db, p, word)
          /\ db' = Save(db, mem[i].secret, p, db.prov[p], word)

UpdateAddress(i) ==
    /\ Edit(i)
    /\ \E p \in Providers \cap db.rows, aurl \in {"", "set"} :
          /\ Addressed([db.prov[p] EXCEPT !.aurl = aurl])
          /\ db' = [db EXCEPT !.prov[p].aurl = aurl, !.saved.aurl[p] = aurl]

(* Prices are created and deleted one at a time. *)
EditPrices(i) ==
    /\ Edit(i)
    /\ \E e \in PriceList :
          LET prices == IF e \in db.prices THEN db.prices \ {e} ELSE db.prices \cup {e} IN
          db' = [db EXCEPT !.prices = prices, !.saved.edited = TRUE,
                           !.saved.prices = prices]

-----------------------------------------------------------------------------
(* Failures: a process is killed, or the machine loses power. *)

Crash(i) ==
    /\ crashes < MaxCrashes /\ pc[i] \notin {"down", "refused"}
    /\ crashes' = crashes + 1
    /\ Goto(i, "down") /\ Remember(i, Blank(AnySecret))
    /\ UNCHANGED <<db, synced, edits>>

PowerLoss ==
    /\ crashes < MaxCrashes
    /\ crashes' = crashes + 1
    /\ db' = synced
    /\ pc' = [i \in Instances |-> "down"]
    /\ mem' = [i \in Instances |-> Blank(AnySecret)]
    /\ UNCHANGED <<synced, edits>>

Checkpoint ==
    /\ synced' = db
    /\ UNCHANGED <<db, pc, mem, crashes, edits>>

Next == \/ \E i \in Instances : \/ Start(i) \/ CreateProvider(i) \/ UpdateKey(i)
                                \/ UpdateAddress(i) \/ EditPrices(i) \/ Crash(i)
        \/ PowerLoss \/ Checkpoint

Spec == Init /\ [][Next]_vars
FairSpec == Spec /\ \A i \in Instances : WF_vars(Start(i))

-----------------------------------------------------------------------------
(* Properties. *)

TypeOK == /\ db \in Database /\ synced \in Database
          /\ pc \in [Instances -> Places] /\ mem \in [Instances -> Memory]
          /\ crashes \in 0..MaxCrashes /\ edits \in 0..MaxEdits

(* Every amount is in the unit its column is declared for, whatever kills *)
(* a start and however often it is repeated (migrate_currency_micro).     *)
MoneyOnce == InUnit(db)

(* No start, crash or change of secret loses a key, hashes one twice or   *)
(* seals one twice; a fingerprint is that of the row's own key, or of no  *)
(* text at all where a start could not read the key it had to hash.       *)
KeysKept ==
    /\ \A k \in ApiKeys \cap db.rows : db.keys[k] <= 1
    /\ \A p \in Providers \cap db.rows :
          LET r == db.prov[p] IN
          /\ r.cred.word = db.saved.word[p] /\ r.cred.layers <= 1
          /\ r.hash \in {NoHash, r.cred.word, ""}

(* Who serves has the whole schema, amounts in micro-yuan, no key of a     *)
(* client or a provider in clear, a fingerprint of every provider's key,   *)
(* and a protocol and, unless taken away, an address for every channel.    *)
ServedIsWhole ==
    (\E i \in Instances : pc[i] = "serve") =>
        /\ db.version = SchemaVersion /\ db.tables = Tables /\ db.fk = "set_null"
        /\ \A c \in Columns : db.decl[c] \notin {"none", "REAL"}
        /\ \A k \in ApiKeys \cap db.rows : db.keys[k] # 0
        /\ \A p \in Providers \cap db.rows :
              LET r == db.prov[p] IN
              /\ IsEmpty(r.cred) \/ HasPrefix(r.cred)
              /\ r.cred.word # "" => r.hash # NoHash
              /\ r.protocols # ""

(* A later start takes back nothing the administrator has saved: an address *)
(* stays cleared, since the backfill of version 2 runs once, and the price  *)
(* list stays as it was left, unless nothing was left of it.                *)
ChoicesKept ==
    /\ \A i \in Instances : pc[i] = "serve" =>
          \A p \in Providers \cap db.rows : db.prov[p].aurl = db.saved.aurl[p]
    /\ db.saved.edited /\ db.saved.prices # {} => db.prices = db.saved.prices

(* Once failures stop, every instance serves, or refuses a database that   *)
(* is newer than itself and leaves it alone.                               *)
StartsInTheEnd ==
    <>[](\A i \in Instances : pc[i] = IF db.version > SchemaVersion
                                      THEN "refused" ELSE "serve")

(* Who serves has prices for every model: the built-in list came whole, or *)
(* the administrator has changed it.  "价格表为空时导入内置默认价格" and the     *)
(* fallback that every other model is charged by (billing.rs 117-119).     *)
ServedWithPrices ==
    (\E i \in Instances : pc[i] = "serve") =>
        db.saved.edited \/ db.prices = PriceList
=============================================================================
