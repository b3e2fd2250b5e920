----------------------------- MODULE MCStartup -----------------------------
(* Databases of several ages for the runs of Startup. *)
EXTENDS Startup, TLC

Today == [c \in Columns |-> NewType(c)]
Clear(w) == [word |-> w, layers |-> 0, secret |-> AnySecret]
RowOf(type, protocols, aurl, cred, hash) ==
    [type |-> type, protocols |-> protocols, aurl |-> aurl, cred |-> cred, hash |-> hash]

(* What is in a database of version v, given declarations, keys and rows. *)
Found(v, tables, decl, fk, keys, prov) ==
    [version |-> v, tables |-> tables, decl |-> decl,
     scale |-> [m \in Money |-> IF decl[m] = "REAL" THEN 0 ELSE 1], fk |-> fk,
     rows |-> (IF "providers" \in tables THEN Providers ELSE {})
              \cup (IF "api_keys" \in tables THEN ApiKeys ELSE {}),
     keys |-> keys, prov |-> prov, prices |-> {},
     saved |-> [aurl |-> [p \in Providers |-> IF v < 2 THEN "set" ELSE prov[p].aurl],
                word |-> [p \in Providers |-> prov[p].cred.word],
                edited |-> FALSE, prices |-> {}]]

Raw == [k \in ApiKeys |-> 0]
Hashed == [k \in ApiKeys |-> 1]

(* Nothing at all. *)
Empty == Found(0, {}, [c \in Columns |-> "none"], "restrict", Raw,
               [p \in Providers |-> RowOf("openai", "", "", Clear(""), NoHash)])

(* The first release: one address, no protocols, no money, keys in clear. *)
First == {Found(0, {"users", "api_keys", "providers", "request_logs"},
                [c \in Columns |-> "none"], "restrict", Raw, prov) :
             prov \in [Providers -> {RowOf(type, "", "", Clear("old"), NoHash) :
                                        type \in Protocols}]}

(* Later ones: money as floating point, in every mixture a repair by hand *)
(* may have left.                                                         *)
WithMoney(types) ==
    {Found(2, Tables, [c \in Columns |-> IF c \in Money THEN m[c]
                                         ELSE IF c = "cached_tokens" THEN "none" ELSE "TEXT"],
           "restrict", Hashed,
           [p \in Providers |-> RowOf("openai", "openai", "set",
                                      Sealed(AnySecret, Clear("")), NoHash)]) : m \in types}
Mixtures == WithMoney({m \in [Money -> {"none", "INTEGER", "REAL"}] :
    /\ \A c \in {"amount", "balance_after", "daily_cost"} : m[c] # "none"
    /\ m["daily_cost"] = "REAL"})
AllReal == WithMoney({[m \in Money |-> "REAL"]})

(* Credentials in clear, empty, or sealed under either secret, none with a *)
(* fingerprint; one channel has had its second address taken away.         *)
Sealings == {Found(2, Tables, [Today EXCEPT !["key_hash"] = "none"], "set_null", Hashed,
                   [p \in Providers |-> RowOf("openai", "openai",
                                              IF creds[p].word = "" THEN "" ELSE "set",
                                              creds[p], NoHash)]) :
    creds \in [Providers -> {Clear("old"), Clear("")} \cup {Sealed(s, Clear("old")) : s \in Secrets}]}

(* From a release that does not exist yet. *)
Newer == Found(4, Tables, Today, "set_null", Hashed,
               [p \in Providers |-> RowOf("openai", "openai", "set",
                                          Sealed(AnySecret, Clear("old")), "old")])

McDatabases == {Empty, Newer} \cup First \cup Mixtures \cup Sealings
TwoDatabases == AllReal
FreshDatabase == {Empty}
=============================================================================
