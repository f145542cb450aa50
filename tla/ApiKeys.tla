------------------------------- MODULE ApiKeys -------------------------------
(***************************************************************************)
(* Client credentials: the registry the server holds in memory, the JSON   *)
(* file it is persisted to, the legacy credentials of the configuration    *)
(* file that are imported when the server starts, the admin operations     *)
(* that change the registry, and the requests that are admitted with it.   *)
(*                                                                         *)
(* A credential is a number: legacy credentials stand in the configuration *)
(* file, the others are issued in order.  The record of a credential keeps *)
(* the number it was first issued with as its id; a rotation gives it      *)
(* another secret.  Expiry dates, permissions and the rate per minute      *)
(* (treated exactly as the daily quota is) are left out.                   *)
(***************************************************************************)
EXTENDS ConfigFile

CONSTANTS
  Requests,      \* requests in flight
  Quota,         \* daily_request_quota of every key
  MaxConcurrent, \* max_concurrent_requests of every key
  MaxDays        \* bound: days passed

ASSUME ApiKeysAssumption ==
  /\ Secrets = 1 .. Cardinality(Secrets)
  /\ Quota \in Nat \ {0} /\ MaxConcurrent \in Nat \ {0} /\ MaxDays \in Nat

VARIABLES
  memory,   \* the registry of the running server
  disk,     \* the registry file
  issued,   \* credentials that exist
  daily,    \* daily[k][g]: the day's requests counted by runtime g of key k
  req,      \* the requests
  days,
  verdict,  \* ghost: what the last answered operation said of a credential
  lapsed,   \* ghost: the server started without a registry it could read
  admitted, \* ghost: requests admitted today with key k
  strayed   \* ghost: those of them its current runtime does not know of

keyVars == <<memory, disk, issued, daily, req, days, verdict, lapsed,
             admitted, strayed>>
vars == <<configVars, keyVars>>

-----------------------------------------------------------------------------
Status == {"active", "disabled", "revoked"}
Record == [id : Secrets, secret : Secrets, status : Status,
           legacy : BOOLEAN]
Registry == [keys : Seq(Record), suppressed : SUBSET Secrets]
NoKeys == [keys |-> <<>>, suppressed |-> {}]

Has(file, secret) == \E i \in DOMAIN file.keys : file.keys[i].secret = secret
Index(file, id) == CHOOSE i \in DOMAIN file.keys : file.keys[i].id = id
Ids(file) == {file.keys[i].id : i \in DOMAIN file.keys}

(* What match_secret says of a credential. *)
Verdict(file, secret) ==
  IF ~Has(file, secret) THEN "out"
  ELSE LET i == CHOOSE j \in DOMAIN file.keys :
                  /\ file.keys[j].secret = secret
                  /\ \A h \in 1 .. (j - 1) : file.keys[h].secret # secret
       IN  IF file.keys[i].status = "revoked" THEN "out" ELSE file.keys[i].status

(* import_legacy_records *)
Import(file, tokens) ==
  LET fresh == {i \in DOMAIN tokens :
                  /\ tokens[i] \notin file.suppressed /\ ~Has(file, tokens[i])
                  /\ \A j \in 1 .. (i - 1) : tokens[j] # tokens[i]}
      new == Picked(tokens, fresh)
  IN  [file EXCEPT !.keys = @ \o [i \in DOMAIN new |->
         [id |-> new[i], secret |-> new[i], status |-> "active", legacy |-> TRUE]]]

Load(stored, tokens) ==
  Import(IF stored = <<>> THEN NoKeys ELSE stored[1], tokens)

(* The keys an operator sees: all but the revoked ones, in order. *)
Listed(file) ==
  Picked(file.keys, {i \in DOMAIN file.keys : file.keys[i].status # "revoked"})

-----------------------------------------------------------------------------
(* Faulty: the credential a rotation replaces is not suppressed. *)
SuppressNothing(file, gone) == file

(* The operations, on a staged copy of the registry.  Legacy credentials that
   go are not imported again. *)
Suppress(file, gone) ==
  [file EXCEPT !.suppressed =
     @ \cup {file.keys[i].secret : i \in {j \in gone : file.keys[j].legacy}}]

Create(file, secret) ==
  [file EXCEPT !.keys = Append(@, [id |-> secret, secret |-> secret,
                                   status |-> "active", legacy |-> FALSE])]

Update(file, id, status) ==
  [file EXCEPT !.keys[Index(file, id)].status = status]

Rotate(file, id, secret) ==
  LET i == Index(file, id)
  IN  [Suppress(file, {i}) EXCEPT
         !.keys[i] = [@ EXCEPT !.secret = secret, !.status = "active",
                               !.legacy = FALSE]]

(* ApiKeyRegistry::revoke, for each of the ids. *)
Revoke(file, ids) ==
  LET gone == {i \in DOMAIN file.keys : file.keys[i].id \in ids}
  IN  [Suppress(file, gone) EXCEPT
         !.keys = [i \in DOMAIN file.keys |->
                     IF i \in gone THEN [file.keys[i] EXCEPT !.status = "revoked"]
                     ELSE file.keys[i]]]

-----------------------------------------------------------------------------
(* The registry lock is held from staging to commit; the credentials can
   still be used by requests that were matched before. *)
Locked == \E o \in Operators : op[o].kind = "keys"

Current(id) == Len(daily[id])
Snapshot(id) == daily[id][Current(id)]
(* Faulty: it starts from zero. *)
ResumedFromZero(snapshot) == 0

(* A new runtime starts from the counters read from the one it replaces. *)
Resumed(snapshot) == snapshot

Stage(o, file, id, says, mirror) ==
  /\ ~Locked
  /\ Begin(o, [kind |-> "keys", pc |-> "staged", file |-> file, id |-> id,
               snapshot |-> IF id = {} THEN 0
                            ELSE Snapshot(CHOOSE k \in id : TRUE),
               says |-> says, mirror |-> mirror])
  /\ UNCHANGED <<toml, dotenv, acked, blind, ghosts, faults, memory, disk, daily,
                 req, days, verdict, lapsed, admitted, strayed>>

NextSecret == issued + 1
Issue == NextSecret \in Secrets /\ issued' = NextSecret

(* What an answer says of the credentials: some are out, one may be new. *)
Gone(secrets) == [s \in secrets |-> "out"]
Replaced(new, secrets) ==
  [s \in {new} \cup secrets |-> IF s = new THEN "active" ELSE "out"]

(* handler_generate_keys; `replace` retires every listed key first. *)
StageCreate(o, replace) ==
  LET listed == {k.id : k \in Range(Listed(memory))}
      gone == IF replace THEN listed ELSE {}
      out == {memory.keys[Index(memory, id)].secret : id \in gone}
  IN  /\ Issue
      /\ Stage(o, Create(Revoke(memory, gone), NextSecret), {},
               Replaced(NextSecret, out), {})

(* handler_update_api_key: a revoked key cannot be changed. *)
StageUpdate(o, id, status) ==
  LET record == memory.keys[Index(memory, id)]
  IN  /\ record.status # "revoked"
      /\ Stage(o, Update(memory, id, status), {id},
               [s \in {record.secret} |-> IF status = "revoked" THEN "out" ELSE status],
               {})
      /\ UNCHANGED issued

(* handler_rotate_api_key *)
StageRotate(o, id) ==
  LET record == memory.keys[Index(memory, id)]
  IN  /\ record.status # "revoked"
      /\ Issue
      /\ Stage(o, Rotate(memory, id, NextSecret), {id},
               Replaced(NextSecret, {record.secret}), {})

(* handler_delete_api_key *)
StageDelete(o, id) ==
  /\ Stage(o, Revoke(memory, {id}), {},
           Gone({memory.keys[Index(memory, id)].secret}), {})
  /\ UNCHANGED issued

(* handler_revoke_keys: by position in the list, never all of them; when
   only legacy keys are listed the configuration file follows. *)
StageRevokeListed(o, indices) ==
  LET listed == Listed(memory)
      chosen == indices \cap DOMAIN listed
      ids == {listed[i].id : i \in chosen}
  IN  /\ chosen # {} /\ Cardinality(ids) < Len(listed)
      /\ Stage(o, Revoke(memory, ids), {},
               Gone({listed[i].secret : i \in chosen}),
               IF \A i \in DOMAIN listed : listed[i].legacy
               THEN chosen ELSE {})
      /\ UNCHANGED issued

(* Faulty: a failed write is only logged. *)
PersistIgnored(o) ==
  /\ Doing(o, "keys", "staged")
  /\ \/ disk' = <<op[o].file>> /\ Goto(o, "persisted") /\ UNCHANGED faults
     \/ Fault /\ Goto(o, "persisted") /\ UNCHANGED disk
  /\ UNCHANGED <<toml, dotenv, acked, blind, ghosts, edits, memory, issued,
                 daily, req, days, verdict, lapsed, admitted, strayed>>

(* The staged copy is written; a failed write is answered with an error. *)
Persist(o) ==
  /\ Doing(o, "keys", "staged")
  /\ \/ disk' = <<op[o].file>> /\ Goto(o, "persisted") /\ UNCHANGED faults
     \/ Fault /\ Finish(o) /\ UNCHANGED disk
  /\ UNCHANGED <<toml, dotenv, acked, blind, ghosts, edits, memory, issued,
                 daily, req, days, verdict, lapsed, admitted, strayed>>

(* The credentials as the answer describes them from here on. *)
Said(says) == [s \in Secrets |-> IF s \in DOMAIN says THEN says[s] ELSE verdict[s]]

(* The copy becomes the registry and the lock is released.  A key whose
   runtime was replaced goes on from the counters read when it was staged. *)
Commit(o) ==
  LET fresh == op[o].id
      tokens == Read(toml).tokens
  IN  /\ Doing(o, "keys", "persisted")
      /\ memory' = op[o].file
      /\ verdict' = Said(op[o].says)
      /\ daily' = [k \in Secrets |-> IF k \in fresh
                                     THEN Append(daily[k], Resumed(op[o].snapshot))
                                     ELSE daily[k]]
      /\ strayed' = [k \in Secrets |-> IF k \in fresh
                                       THEN strayed[k] + Snapshot(k)
                                            - op[o].snapshot
                                       ELSE strayed[k]]
      /\ op' = [op EXCEPT ![o] =
                  IF op[o].mirror \cap DOMAIN tokens = {} THEN NoOp
                  ELSE [kind |-> "edit", pc |-> "write", base |-> toml,
                        edit |-> RemoveTokens(op[o].mirror)]]
      /\ UNCHANGED <<toml, dotenv, acked, blind, ghosts, edits, faults, disk,
                     issued, req, days, lapsed, admitted>>

-----------------------------------------------------------------------------
(* Requests. *)
NoRequest == [at |-> "idle"]
InFlight(k, g) == {r \in Requests : req[r] = [at |-> "held", id |-> k, runtime |-> g]}

(* match_secret, under the registry's read lock. *)
Match(r, secret) ==
  /\ req[r] = NoRequest /\ ~Locked
  /\ Verdict(memory, secret) = "active"
  /\ \E i \in DOMAIN memory.keys :
       /\ memory.keys[i].secret = secret
       /\ req' = [req EXCEPT ![r] =
                    [at |-> "matched", id |-> memory.keys[i].id,
                     runtime |-> Current(memory.keys[i].id)]]
  /\ UNCHANGED <<configVars, memory, disk, issued, daily, days, verdict,
                 lapsed, admitted, strayed>>

(* ApiKeyRuntime::admit, after the lock: the concurrency permit, then the
   quota, both of the runtime that was current at the match. *)
Admissible(k, g) ==
  /\ Cardinality(InFlight(k, g)) < MaxConcurrent
  /\ daily[k][g] < Quota

Admit(r) ==
  LET k == req[r].id
      g == req[r].runtime
  IN  /\ req[r].at = "matched"
      /\ IF Admissible(k, g)
         THEN /\ req' = [req EXCEPT ![r].at = "held"]
              /\ daily' = [daily EXCEPT ![k][g] = @ + 1]
              /\ admitted' = [admitted EXCEPT ![k] = @ + 1]
              /\ strayed' = [strayed EXCEPT ![k] =
                               IF g = Current(k) THEN @ ELSE @ + 1]
         ELSE /\ req' = [req EXCEPT ![r] = NoRequest]
              /\ UNCHANGED <<daily, admitted, strayed>>
      /\ UNCHANGED <<configVars, memory, disk, issued, days, verdict, lapsed>>

(* The response body ends or its client leaves. *)
Release(r) ==
  /\ req[r].at = "held"
  /\ req' = [req EXCEPT ![r] = NoRequest]
  /\ UNCHANGED <<configVars, memory, disk, issued, daily, days, verdict,
                 lapsed, admitted, strayed>>

(* Every window notices the new day by itself, a staged one when it is used. *)
NewDay ==
  /\ days < MaxDays /\ days' = days + 1
  /\ daily' = [k \in Secrets |-> [g \in DOMAIN daily[k] |-> 0]]
  /\ op' = [o \in Operators |-> IF op[o].kind = "keys"
                                THEN [op[o] EXCEPT !.snapshot = 0] ELSE op[o]]
  /\ admitted' = [k \in Secrets |-> 0]
  /\ strayed' = [k \in Secrets |-> 0]
  /\ UNCHANGED <<toml, dotenv, acked, blind, ghosts, edits, faults, memory, disk,
                 issued, req, verdict, lapsed>>

-----------------------------------------------------------------------------
(* The server stops anywhere and starts again: admin requests and counters
   are lost, commands go on.  An operation that was persisted but not yet
   answered has taken effect.  A registry file that cannot be read leaves
   only the legacy credentials. *)
Restart ==
  LET tokens == Read(toml).tokens
      unanswered == {o \in Operators : Doing(o, "keys", "persisted")}
  IN  /\ Fault
      /\ \/ memory' = Load(disk, tokens) /\ lapsed' = lapsed
         \/ memory' = Load(<<>>, tokens) /\ lapsed' = (lapsed \/ disk # <<>>)
      /\ verdict' = IF unanswered = {} THEN verdict
                    ELSE Said(op[CHOOSE o \in unanswered : TRUE].says)
      /\ op' = [o \in Operators |-> IF InServer(o) THEN NoOp ELSE op[o]]
      /\ daily' = [k \in Secrets |-> <<0>>]
      /\ req' = [r \in Requests |-> NoRequest]
      /\ admitted' = [k \in Secrets |-> 0]
      /\ strayed' = [k \in Secrets |-> 0]
      /\ UNCHANGED <<toml, dotenv, acked, blind, ghosts, edits, disk, issued, days>>

-----------------------------------------------------------------------------
Init ==
  /\ \E p \in Providers :
       /\ toml = <<[provider |-> p, key |-> p, pool |-> {p},
                    settings |-> {}, tokens |-> <<1, 2>>]>>
       /\ \/ dotenv = <<>>
          \/ \E k \in {p, Default} : dotenv = <<[provider |-> p, key |-> k]>>
  /\ op = [o \in Operators |-> NoOp]
  /\ acked = {} /\ blind = FALSE /\ parted = FALSE /\ writer = Default
  /\ edits = 0 /\ faults = 0
  /\ memory = Load(<<>>, <<1, 2>>)
  /\ disk = <<>>
  /\ issued = 2
  /\ daily = [k \in Secrets |-> <<0>>]
  /\ req = [r \in Requests |-> NoRequest]
  /\ days = 0
  /\ verdict = [s \in Secrets |-> "undecided"]
  /\ lapsed = FALSE
  /\ admitted = [k \in Secrets |-> 0]
  /\ strayed = [k \in Secrets |-> 0]

(* The admin endpoints of the registry. *)
Administer(o) ==
  \/ \E replace \in BOOLEAN : StageCreate(o, replace)
  \/ \E id \in Ids(memory) :
       \/ \E status \in Status : StageUpdate(o, id, status)
       \/ StageRotate(o, id)
       \/ StageDelete(o, id)
  \/ \E indices \in SUBSET (1 .. Len(Listed(memory))) :
       StageRevokeListed(o, indices)
  \/ Persist(o)
  \/ Commit(o)

(* The command that generates legacy credentials and saves them. *)
GenerateTokens(o) ==
  /\ Issue
  /\ \E replace \in BOOLEAN : BeginEdit(o, SaveTokens(<<NextSecret>>, replace))
  /\ UNCHANGED <<memory, disk, daily, req, days, verdict, lapsed, admitted,
                 strayed>>

(* The edits of the configuration files leave the registry alone. *)
Configure(o) ==
  \/ \E s \in Settings :
       \/ \E document \in Documents : Preview(o, s, document) /\ UNCHANGED keyVars
       \/ BeginEdit(o, SetModel(s)) /\ UNCHANGED keyVars
  \/ \E p \in Upstream, k \in Upstream :
       BeginSwitch(o, p, k) /\ UNCHANGED keyVars
  \/ Remember(o) /\ UNCHANGED keyVars
  \/ WriteMerged(o) /\ UNCHANGED keyVars
  \/ ReadBack(o) /\ UNCHANGED keyVars
  \/ Rollback(o) /\ UNCHANGED keyVars
  \/ WriteSwitchedToml(o) /\ UNCHANGED keyVars
  \/ WriteSwitchedEnv(o) /\ UNCHANGED keyVars
  \/ UndoSwitch(o) /\ UNCHANGED keyVars
  \/ WriteEdit(o) /\ UNCHANGED keyVars
  \/ Killed(o) /\ UNCHANGED keyVars

Use(r) ==
  \/ \E s \in Secrets : Match(r, s)
  \/ Admit(r)
  \/ Release(r)

Next ==
  \/ \E o \in Operators : Administer(o)
  \/ \E o \in Operators : GenerateTokens(o)
  \/ \E o \in Operators : Configure(o)
  \/ \E r \in Requests : Use(r)
  \/ NewDay
  \/ Restart

Spec == Init /\ [][Next]_vars

-----------------------------------------------------------------------------
TypeOK ==
  /\ toml \in {<<>>} \cup {<<c>> : c \in {Read(toml)}}
  /\ DOMAIN Read(toml) = {"provider", "key", "pool", "settings", "tokens"}
  /\ dotenv = <<>> \/ dotenv[1] \in Env
  /\ DOMAIN op = Operators /\ parted \in BOOLEAN
  /\ acked \subseteq Settings
  /\ edits \in 0 .. MaxEdits /\ faults \in 0 .. MaxFaults
  /\ \A i \in DOMAIN memory.keys : memory.keys[i] \in Record
  /\ memory.suppressed \subseteq Secrets
  /\ DOMAIN req = Requests
  /\ \A k \in Secrets : \A g \in DOMAIN daily[k] : daily[k][g] \in 0 .. Quota

(* An edit that was answered with success stays in the file, as long as no
   writer replaced content it had not read. *)
UncontestedApplyKept == ~blind => acked \subseteq Read(toml).settings

Switching == \E o \in Operators : op[o].kind = "switch" /\ op[o].pc # "toml"

KeysFit == EffectiveKeys \subseteq {EffectiveUpstream}

(* Switches, edits and applied documents that name a provider's URL and its
   keys together never configure the server to send one provider's key to
   another, whatever fails and is rolled back; outside the two writes of a
   switch. *)
KeysFitUpstream == ~blind /\ ~parted /\ ~Switching => KeysFit

(* The comment of the provider command says that the key pool is "TOML-only and
   provider-scoped": no edit that goes well leaves another provider's keys. *)
KeysAreProviderScoped == faults = 0 /\ ~blind /\ ~Switching => KeysFit

(* What an answered operation said of a credential holds now and after any
   restart: the registry in memory and what the next start would load from
   the two files say the same. *)
DecisionsHold ==
  ~lapsed =>
    \A s \in Secrets :
      verdict[s] # "undecided" =>
        /\ Verdict(memory, s) = verdict[s]
        /\ (\A o \in Operators : ~Doing(o, "keys", "persisted")) =>
             Verdict(Load(disk, Read(toml).tokens), s) = verdict[s]

(* A key exceeds its quota only by requests its current runtime does not
   know of: those that were matched before it replaced another. *)
QuotaCarriesOver ==
  \A k \in Secrets : admitted[k] <= Quota + strayed[k]
=============================================================================
