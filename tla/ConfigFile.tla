----------------------------- MODULE ConfigFile -----------------------------
(***************************************************************************)
(* The TOML configuration file and the .env file beside it, and everybody  *)
(* who rewrites them: the dashboard's and the REST API's apply workflow,   *)
(* the commands that switch the upstream provider or the model, and the    *)
(* edits of the legacy auth_tokens list.  Every one of them reads the      *)
(* whole file, edits the copy and replaces the file; nobody takes a lock,  *)
(* and the commands run in processes of their own.                         *)
(*                                                                         *)
(* A file is <<>> while it does not exist, otherwise the one-element       *)
(* sequence of its content.  A file is replaced atomically (a temporary    *)
(* file renamed over it), so a failed write leaves it as it was.           *)
(***************************************************************************)
EXTENDS Naturals, Sequences, FiniteSets, SequencesExt

CONSTANTS
  Operators,   \* who edits: an admin request of the server or a command
  Settings,    \* settings an edit can add
  Providers,   \* upstreams that can be switched to
  Secrets,     \* client credentials, 1 .. n
  Default,     \* "no provider configured": the built-in upstream, no key
  Namings,     \* what an applied document may name of a provider
  MaxEdits,    \* bound: edits begun
  MaxFaults    \* bound: reads, writes and processes that fail

Parts == {"provider", "key", "pool"}

ASSUME ConfigAssumption ==
  /\ Default \notin Providers
  /\ Namings \subseteq SUBSET Parts \ {{}}
  /\ MaxEdits \in Nat /\ MaxFaults \in Nat

VARIABLES
  toml,     \* the configuration file
  dotenv,   \* the .env file
  op,       \* op[o]: what o is in the middle of
  acked,    \* settings whose edit was answered with success
  blind,    \* ghost: a write replaced content its writer had not read
  parted,   \* ghost: upstream and keys were parted, by a switch abandoned half
            \* done or a document that names only some of them
  writer,   \* ghost: who wrote the configuration file last
  edits, faults

configVars == <<toml, dotenv, op, acked, blind, parted, writer, edits, faults>>
ghosts == <<parted, writer>>

Upstream == Providers \cup {Default}

(* An applied document, besides the setting it adds. *)
NoParts == [names |-> {}, of |-> Default]
Documents == {NoParts} \cup [names : Namings, of : Providers]

(* What the file says, as far as the edits differ: the upstream, the single
   key and the key pool (each named by the provider it belongs to), the
   settings and the legacy client credentials. *)
Content == [provider : Upstream, key : Upstream, pool : SUBSET Providers,
            settings : SUBSET Settings, tokens : Seq(Secrets)]
Env == [provider : Upstream, key : Upstream]

Empty == [provider |-> Default, key |-> Default, pool |-> {},
          settings |-> {}, tokens |-> <<>>]
Read(file) == IF file = <<>> THEN Empty ELSE file[1]

(* The write of the TOML, by a writer who knows what it replaces or not. *)
Write(o, content, known) ==
  /\ toml' = content
  /\ blind' = (blind \/ ~known)
  /\ writer' = o
NotWritten == UNCHANGED <<toml, blind, writer>>

NoOp == [kind |-> "none"]
Idle(o) == op[o] = NoOp
Doing(o, kind, pc) == op[o].kind = kind /\ op[o].pc = pc
Goto(o, pc) == op' = [op EXCEPT ![o].pc = pc]
Finish(o) == op' = [op EXCEPT ![o] = NoOp]
Begin(o, new) == edits < MaxEdits /\ edits' = edits + 1 /\ Idle(o)
                 /\ op' = [op EXCEPT ![o] = new]
Fault == faults < MaxFaults /\ faults' = faults + 1

-----------------------------------------------------------------------------
(* What the loader makes of the two files: the environment wins over the
   file, and the pool comes from the file only. *)
EffectiveUpstream ==
  IF dotenv # <<>> /\ dotenv[1].provider # Default
  THEN dotenv[1].provider ELSE Read(toml).provider
SingleKey ==
  IF dotenv # <<>> /\ dotenv[1].key # Default
  THEN dotenv[1].key ELSE Read(toml).key
EffectiveKeys == ({SingleKey} \ {Default}) \cup Read(toml).pool

-----------------------------------------------------------------------------
(* Faulty: the merged document holds the incoming keys only. *)
MergeReplaces(content, s, document) == [content EXCEPT !.settings = {s}]

(* The apply workflow of the dashboard, the REST API and the model picker:
   preview, remember the previous content, write, read back, and either
   answer or roll back.  What a document does not name stays. *)
Taken(part, document, new, old) ==
  IF part \in document.names THEN new ELSE old
Merge(content, s, document) ==
  [content EXCEPT !.settings = @ \cup {s},
                  !.provider = Taken("provider", document, document.of, @),
                  !.key = Taken("key", document, document.of, @),
                  !.pool = Taken("pool", document, {document.of}, @)]

Merged(o) == <<Merge(Read(op[o].base), op[o].setting, op[o].document)>>

(* The document names some of a provider's URL, key and pool, or all of them
   beside a .env, which has a word in it. *)
Parting(document) ==
  document.names # {} /\ (document.names # Parts \/ dotenv # <<>>)

(* preview_config: an unreadable file counts as an empty one. *)
Preview(o, s, document) ==
  /\ \/ /\ Begin(o, [kind |-> "apply", pc |-> "remember", setting |-> s,
                     document |-> document, base |-> toml, previous |-> <<>>])
        /\ UNCHANGED faults
     \/ /\ Begin(o, [kind |-> "apply", pc |-> "remember", setting |-> s,
                     document |-> document, base |-> <<>>, previous |-> <<>>])
        /\ Fault
  /\ UNCHANGED <<toml, dotenv, acked, blind, ghosts>>

(* The previous content, again with an unreadable file taken for none. *)
Remember(o) ==
  /\ Doing(o, "apply", "remember")
  /\ \/ /\ op' = [op EXCEPT ![o].pc = "write", ![o].previous = toml]
        /\ UNCHANGED faults
     \/ Goto(o, "write") /\ Fault
  /\ UNCHANGED <<toml, dotenv, acked, blind, ghosts, edits>>

WriteMerged(o) ==
  /\ Doing(o, "apply", "write")
  /\ \/ /\ Write(o, Merged(o), toml = op[o].base)
        /\ parted' = (parted \/ Parting(op[o].document))
        /\ Goto(o, "verify")
        /\ UNCHANGED faults
     \/ Finish(o) /\ Fault /\ NotWritten /\ UNCHANGED parted
  /\ UNCHANGED <<dotenv, acked, edits>>

ReadBack(o) ==
  /\ Doing(o, "apply", "verify")
  /\ \/ /\ toml = Merged(o)
        /\ acked' = acked \cup {op[o].setting}
        /\ Finish(o)
        /\ UNCHANGED faults
     \/ toml # Merged(o) /\ Goto(o, "rollback") /\ UNCHANGED <<acked, faults>>
     \/ Goto(o, "rollback") /\ Fault /\ UNCHANGED acked
  /\ UNCHANGED <<toml, dotenv, blind, ghosts, edits>>

(* Faulty: a rollback always removes the file. *)
RestoredRemoves(previous) == <<>>

Restored(previous) == previous

Rollback(o) ==
  /\ Doing(o, "apply", "rollback")
  /\ \/ /\ Write(o, Restored(op[o].previous),
                 writer = o /\ op[o].previous = op[o].base)
        /\ UNCHANGED faults
     \/ Fault /\ NotWritten
  /\ Finish(o)
  /\ UNCHANGED <<dotenv, acked, parted, edits>>

-----------------------------------------------------------------------------
(* Faulty: the key pool of the previous provider is kept. *)
SwitchedKeepsPool(content, p, k) ==
  [content EXCEPT !.provider = p, !.key = k]

(* The provider commands: the TOML is written first, then the .env if there
   is one; a .env that cannot be written restores the TOML. *)
Switched(content, p, k) ==
  [content EXCEPT !.provider = p, !.key = k, !.pool = {}]

BeginSwitch(o, p, k) ==
  /\ k \in {p, Default}
  /\ Begin(o, [kind |-> "switch", pc |-> "toml", provider |-> p, key |-> k,
               original |-> toml, env |-> dotenv])
  /\ UNCHANGED <<toml, dotenv, acked, blind, ghosts, faults>>

SwitchedToml(o) ==
  <<Switched(Read(op[o].original), op[o].provider, op[o].key)>>
SwitchedEnv(o) ==
  IF op[o].env = <<>> THEN dotenv
  ELSE <<[provider |-> op[o].provider, key |-> op[o].key]>>

WriteSwitchedToml(o) ==
  /\ Doing(o, "switch", "toml")
  /\ \/ /\ Write(o, SwitchedToml(o), toml = op[o].original)
        /\ Goto(o, "env")
        /\ UNCHANGED faults
     \/ Finish(o) /\ Fault /\ NotWritten
  /\ UNCHANGED <<dotenv, acked, parted, edits>>

(* Faulty: the command gives up where the .env could not be written. *)
EnvFailedGivesUp(o) == Finish(o)

EnvFailed(o) == Goto(o, "undo")

WriteSwitchedEnv(o) ==
  /\ Doing(o, "switch", "env")
  /\ \/ /\ dotenv' = SwitchedEnv(o)
        /\ blind' = (blind \/ dotenv # op[o].env \/ writer # o)
        /\ Finish(o)
        /\ UNCHANGED faults
     \/ /\ op[o].env # <<>> /\ Fault
        /\ EnvFailed(o)
        /\ UNCHANGED <<dotenv, blind>>
  /\ UNCHANGED <<toml, acked, ghosts, edits>>

UndoSwitch(o) ==
  /\ Doing(o, "switch", "undo")
  /\ \/ /\ Write(o, op[o].original, writer = o)
        /\ UNCHANGED <<parted, faults>>
     \/ Fault /\ parted' = TRUE /\ NotWritten
  /\ Finish(o)
  /\ UNCHANGED <<dotenv, acked, edits>>

-----------------------------------------------------------------------------
(* Edits that read the file, change one list and write it back, with no way
   back: the model commands and the legacy credential list. *)
BeginEdit(o, edit) ==
  /\ Begin(o, [kind |-> "edit", pc |-> "write", base |-> toml,
               edit |-> edit])
  /\ UNCHANGED <<toml, dotenv, acked, blind, ghosts, faults>>

SetModel(s) == [do |-> "model", setting |-> s, tokens |-> <<>>, indices |-> {}]
SaveTokens(tokens, replace) ==
  [do |-> IF replace THEN "replace" ELSE "append", setting |-> Default,
   tokens |-> tokens, indices |-> {}]
RemoveTokens(indices) ==
  [do |-> "remove", setting |-> Default, tokens |-> <<>>, indices |-> indices]

(* What s holds at some of its positions, in its order. *)
Picked(s, positions) ==
  LET kept[n \in 0 .. Len(s)] ==
        IF n = 0 THEN <<>>
        ELSE IF n \in positions THEN Append(kept[n - 1], s[n]) ELSE kept[n - 1]
  IN  kept[Len(s)]

WithoutIndices(tokens, indices) == Picked(tokens, DOMAIN tokens \ indices)

Edited(content, edit) ==
  CASE edit.do = "model"   -> Merge(content, edit.setting, NoParts)
    [] edit.do = "append"  -> [content EXCEPT !.tokens = @ \o edit.tokens]
    [] edit.do = "replace" -> [content EXCEPT !.tokens = edit.tokens]
    [] edit.do = "remove"  ->
         [content EXCEPT !.tokens = WithoutIndices(@, edit.indices)]

(* The model command also rewrites the model's line of the .env; it reports
   success only when both are written. *)
WriteEdit(o) ==
  /\ Doing(o, "edit", "write")
  /\ \/ /\ Write(o, <<Edited(Read(op[o].base), op[o].edit)>>,
                 toml = op[o].base)
        /\ \/ /\ acked' = acked \cup ({op[o].edit.setting} \ {Default})
              /\ UNCHANGED faults
           \/ op[o].edit.do = "model" /\ Fault /\ UNCHANGED acked
     \/ Fault /\ NotWritten /\ UNCHANGED acked
  /\ Finish(o)
  /\ UNCHANGED <<dotenv, parted, edits>>

(* What the server does itself; the other edits are commands. *)
InServer(o) == \/ op[o].kind \in {"keys", "apply"}
               \/ Doing(o, "edit", "write") /\ op[o].edit.do = "remove"

(* A command is killed. *)
Killed(o) ==
  /\ ~Idle(o) /\ ~InServer(o) /\ Fault
  /\ parted' = (parted \/ (op[o].kind = "switch" /\ op[o].pc # "toml"))
  /\ Finish(o)
  /\ UNCHANGED <<toml, dotenv, acked, blind, writer, edits>>
=============================================================================
