---------------------------- MODULE ApiKeysProofs ----------------------------
(***************************************************************************)
(* Proofs about ConfigFile and ApiKeys: uncontested edits are kept, the    *)
(* keys belong to the upstream, a key's quota survives the replacement of  *)
(* its runtime, and what an answered operation said of a credential stays  *)
(* true, for any number of operators, edits, failures, requests and        *)
(* restarts.                                                               *)
(***************************************************************************)
EXTENDS ApiKeys, SequenceTheorems, NaturalsInduction, WellFoundedInduction,
        TLAPS

-----------------------------------------------------------------------------
(* The shape of the files and of what an operator is in the middle of.     *)

IsContent(c) ==
  c = [provider |-> c.provider, key |-> c.key, pool |-> c.pool,
       settings |-> c.settings, tokens |-> c.tokens]
IsFile(f) == f = <<>> \/ (f = <<f[1]>> /\ IsContent(f[1]))
IsEnv(e) == e = <<>> \/ (e = <<e[1]>> /\ e[1] \in Env)

IsApply(x) ==
  /\ x.kind = "apply"
  /\ x = [kind |-> "apply", pc |-> x.pc, setting |-> x.setting,
          document |-> x.document, base |-> x.base, previous |-> x.previous]
  /\ x.pc \in {"remember", "write", "verify", "rollback"}
  /\ IsFile(x.base) /\ IsFile(x.previous)

IsSwitch(x) ==
  /\ x.kind = "switch"
  /\ x = [kind |-> "switch", pc |-> x.pc, provider |-> x.provider,
          key |-> x.key, original |-> x.original, env |-> x.env]
  /\ x.pc \in {"toml", "env", "undo"}
  /\ x.provider \in Upstream /\ x.key \in {x.provider, Default}
  /\ IsFile(x.original) /\ IsEnv(x.env)

IsEdit(x) ==
  /\ x.kind = "edit"
  /\ x = [kind |-> "edit", pc |-> "write", base |-> x.base, edit |-> x.edit]
  /\ IsFile(x.base)
  /\ x.edit.do \in {"model", "append", "replace", "remove"}
  /\ x.edit.do # "model" => x.edit.setting = Default

IsKeys(x) ==
  /\ x.kind = "keys"
  /\ x = [kind |-> "keys", pc |-> x.pc, file |-> x.file, id |-> x.id,
          snapshot |-> x.snapshot, says |-> x.says, mirror |-> x.mirror]
  /\ x.pc \in {"staged", "persisted"}
  /\ \A k \in x.id : x.id = {k}
  /\ \A k \in x.id \cap Secrets : x.snapshot \in 0 .. Quota

IsOp(x) == x = NoOp \/ IsApply(x) \/ IsSwitch(x) \/ IsEdit(x) \/ IsKeys(x)

Shapes ==
  /\ IsFile(toml) /\ IsEnv(dotenv) /\ parted \in BOOLEAN
  /\ op = [o \in Operators |-> op[o]]
  /\ \A o \in Operators : IsOp(op[o])

LEMMA ReadFile ==
  ASSUME NEW f, IsFile(f)
  PROVE  IsContent(Read(f))
BY DEF IsFile, Read, Empty, IsContent

LEMMA Written ==
  ASSUME NEW c, IsContent(c)
  PROVE  IsFile(<<c>>) /\ Read(<<c>>) = c
BY DEF IsFile, Read

LEMMA MergeEffect ==
  ASSUME NEW c, IsContent(c), NEW s, NEW document
  PROVE  LET d == Merge(c, s, document) IN
         /\ IsContent(d)
         /\ d.settings = c.settings \cup {s}
         /\ document.names = {} =>
              d.provider = c.provider /\ d.key = c.key /\ d.pool = c.pool
         /\ document.names = Parts =>
              /\ d.provider = document.of /\ d.key = document.of
              /\ d.pool = {document.of}
<1> DEFINE d == Merge(c, s, document)
           n == document.names
<1>1. {"provider", "key", "pool"} = Parts
  BY DEF Parts
<1> DEFINE p == Taken("provider", document, document.of, c.provider)
           k == Taken("key", document, document.of, c.key)
           l == Taken("pool", document, {document.of}, c.pool)
           t == c.settings \cup {s}
<1>2. d = [c EXCEPT !.settings = t, !.provider = p, !.key = k, !.pool = l]
  BY DEF Merge
<1>3. /\ n = {} => p = c.provider /\ k = c.key /\ l = c.pool
      /\ n = Parts => p = document.of /\ k = document.of /\ l = {document.of}
  BY <1>1 DEF Taken
<1> HIDE DEF p, k, l, t, d
<1>4. d = [provider |-> p, key |-> k, pool |-> l, settings |-> t,
           tokens |-> c.tokens]
  BY <1>2 DEF IsContent
<1>5. IsContent(d) /\ d.settings = t /\ d.provider = p /\ d.key = k /\ d.pool = l
  BY <1>4 DEF IsContent
<1> QED
  BY <1>3, <1>5 DEF d, t

LEMMA SwitchedEffect ==
  ASSUME NEW c, IsContent(c), NEW p, NEW k
  PROVE  /\ IsContent(Switched(c, p, k))
         /\ Switched(c, p, k).settings = c.settings
         /\ Switched(c, p, k).provider = p
         /\ Switched(c, p, k).key = k
         /\ Switched(c, p, k).pool = {}
<1> DEFINE d == [provider |-> p, key |-> k, pool |-> {},
                 settings |-> c.settings, tokens |-> c.tokens]
<1>1. [[[c EXCEPT !.provider = p] EXCEPT !.key = k] EXCEPT !.pool = {}] = d
  <2> DEFINE c1 == [c EXCEPT !.provider = p]
  <2>1. c1 = [provider |-> p, key |-> c.key, pool |-> c.pool,
              settings |-> c.settings, tokens |-> c.tokens]
    BY DEF IsContent
  <2> DEFINE c2 == [c1 EXCEPT !.key = k]
  <2> HIDE DEF c1
  <2>2. c2 = [provider |-> p, key |-> k, pool |-> c.pool,
              settings |-> c.settings, tokens |-> c.tokens]
    BY <2>1
  <2> HIDE DEF c2
  <2>3. [c2 EXCEPT !.pool = {}] = d
    BY <2>2
  <2> QED
    BY <2>3 DEF c1, c2
<1>2. Switched(c, p, k) = d
  BY <1>1 DEF Switched
<1>3. IsContent(d)
  BY DEF IsContent
<1> QED
  BY <1>2, <1>3

LEMMA EditedEffect ==
  ASSUME NEW c, IsContent(c), NEW e,
         e.do \in {"model", "append", "replace", "remove"}
  PROVE  /\ Edited(c, e).settings
              = IF e.do = "model" THEN c.settings \cup {e.setting} ELSE c.settings
         /\ Edited(c, e).provider = c.provider
         /\ Edited(c, e).key = c.key
         /\ Edited(c, e).pool = c.pool
<1>1. CASE e.do = "model"
  BY <1>1, MergeEffect DEF Edited, NoParts
<1>2. CASE e.do = "append"
  BY <1>2 DEF Edited, IsContent
<1>3. CASE e.do = "replace"
  BY <1>3 DEF Edited, IsContent
<1>4. CASE e.do = "remove"
  BY <1>4 DEF Edited, IsContent
<1> QED
  BY <1>1, <1>2, <1>3, <1>4

LEMMA EditedContent ==
  ASSUME NEW c, NEW e, IsContent(c),
         e.do \in {"model", "append", "replace", "remove"}
  PROVE  IsContent(Edited(c, e))
<1>1. CASE e.do = "model"
  BY <1>1, MergeEffect DEF Edited, NoParts
<1>2. CASE e.do = "append"
  BY <1>2 DEF Edited, IsContent
<1>3. CASE e.do = "replace"
  BY <1>3 DEF Edited, IsContent
<1>4. CASE e.do = "remove"
  BY <1>4 DEF Edited, IsContent
<1> QED
  BY <1>1, <1>2, <1>3, <1>4

-----------------------------------------------------------------------------
(* What an operator does next is put into op. *)

LEMMA Placed ==
  ASSUME Shapes, NEW o \in Operators, NEW x, op' = [op EXCEPT ![o] = x]
  PROVE  /\ op' = [p \in Operators |-> op'[p]]
         /\ op'[o] = x
         /\ \A p \in Operators \ {o} : op'[p] = op[p]
BY DEF Shapes

LEMMA PlacedShape ==
  ASSUME Shapes, NEW o \in Operators, NEW x, op' = [op EXCEPT ![o] = x],
         IsOp(x), IsFile(toml'), IsEnv(dotenv'), parted' \in BOOLEAN
  PROVE  Shapes'
<1>1. op' = [p \in Operators |-> op'[p]] /\ \A p \in Operators : IsOp(op'[p])
  BY Placed DEF Shapes
<1>2. IsFile(toml)' /\ IsEnv(dotenv)'
  BY DEF IsFile, IsContent, IsEnv, Env
<1> QED
  BY <1>1, <1>2 DEF Shapes

LEMMA GotoPlaces ==
  ASSUME NEW o \in Operators, NEW pc, Goto(o, pc)
  PROVE  op' = [op EXCEPT ![o] = [op[o] EXCEPT !.pc = pc]]
BY DEF Goto

LEMMA GotoApply ==
  ASSUME NEW x, IsApply(x), NEW pc \in {"remember", "write", "verify", "rollback"}
  PROVE  LET y == [x EXCEPT !.pc = pc] IN
         /\ IsApply(y) /\ y.pc = pc
         /\ y.base = x.base /\ y.previous = x.previous
         /\ y.setting = x.setting /\ y.document = x.document
BY DEF IsApply

LEMMA GotoSwitch ==
  ASSUME NEW x, IsSwitch(x), NEW pc \in {"toml", "env", "undo"}
  PROVE  LET y == [x EXCEPT !.pc = pc] IN
         /\ IsSwitch(y) /\ y.pc = pc
         /\ y.original = x.original /\ y.env = x.env
         /\ y.provider = x.provider /\ y.key = x.key
BY DEF IsSwitch

LEMMA GotoKeys ==
  ASSUME NEW x, IsKeys(x), NEW pc \in {"staged", "persisted"}
  PROVE  IsKeys([x EXCEPT !.pc = pc])
BY DEF IsKeys

LEMMA Kinds ==
  ASSUME NEW x, IsOp(x)
  PROVE  /\ x.kind = "apply" => IsApply(x)
         /\ x.kind = "switch" => IsSwitch(x)
         /\ x.kind = "edit" => IsEdit(x) /\ x.pc = "write"
         /\ x.kind = "keys" => IsKeys(x)
         /\ x.kind = "none" => x = NoOp
         /\ x.kind \in {"apply", "switch", "edit", "keys", "none"}
BY DEF IsOp, NoOp, IsApply, IsSwitch, IsEdit, IsKeys

-----------------------------------------------------------------------------
(* The properties of the files.                                            *)

\* What o has written and may still take back.
HasWritten(x) == x.kind = "apply" /\ x.pc \in {"verify", "rollback"}
InSwitch(x) == x.kind = "switch" /\ x.pc # "toml"
Wrote(o) == HasWritten(op[o])
Switches(o) == InSwitch(op[o])

\* The file as it was before.
Before(o) == IF op[o].kind = "apply" THEN op[o].base ELSE op[o].original

\* As long as no write was blind: what was acknowledged, and what is going to
\* be, is in the file, and is still there if the last write is taken back.
KeptInv ==
  ~blind =>
    /\ acked \subseteq Read(toml).settings
    /\ \A o \in Operators : Wrote(o) => op[o].setting \in Read(toml).settings
    /\ \A o \in Operators : (Wrote(o) \/ Switches(o)) /\ writer = o =>
         /\ acked \subseteq Read(Before(o)).settings
         /\ \A p \in Operators \ {o} :
              Wrote(p) => op[p].setting \in Read(Before(o)).settings

KeyOf(file, env) ==
  IF env # <<>> /\ env[1].key # Default THEN env[1].key ELSE Read(file).key
UpstreamOf(file, env) ==
  IF env # <<>> /\ env[1].provider # Default
  THEN env[1].provider ELSE Read(file).provider
Fits(file, env) ==
  ({KeyOf(file, env)} \ {Default}) \cup Read(file).pool
    \subseteq {UpstreamOf(file, env)}

\* The same upstream and keys.
Alike(c, d) == c.provider = d.provider /\ c.key = d.key /\ c.pool = d.pool

\* As long as no write was blind and nothing parted upstream and keys: the keys
\* belong to the upstream except while a provider is switched; and if the last
\* write is taken back they do unless another is.
FitInv ==
  ~blind /\ ~parted =>
    /\ (\A o \in Operators : ~Switches(o)) => Fits(toml, dotenv)
    /\ \A o \in Operators : writer = o =>
         /\ Wrote(o) => ((\A p \in Operators \ {o} : ~Switches(p)) =>
                            Fits(op[o].base, dotenv))
         /\ Switches(o) =>
              /\ Alike(Read(toml), [provider |-> op[o].provider,
                                    key |-> op[o].key, pool |-> {}])
              /\ (\A p \in Operators \ {o} : ~Switches(p)) =>
                   Fits(op[o].original, dotenv)

FilesInv == Shapes /\ KeptInv /\ FitInv

LEMMA AlikeFits ==
  ASSUME NEW f, NEW g, NEW env, Alike(Read(f), Read(g)), Fits(f, env)
  PROVE  Fits(g, env)
BY DEF Alike, Fits, KeyOf, UpstreamOf

LEMMA SwitchedFits ==
  ASSUME NEW f, NEW p \in Upstream, NEW k \in {p, Default},
         Alike(Read(f), [provider |-> p, key |-> k, pool |-> {}]),
         NEW env, env = <<>> \/ env = <<[provider |-> p, key |-> k]>>
  PROVE  Fits(f, env)
<1>1. Read(f).provider = p /\ Read(f).key = k /\ Read(f).pool = {}
  BY DEF Alike
<1>2. CASE env = <<>>
  BY <1>1, <1>2 DEF Fits, KeyOf, UpstreamOf
<1>3. CASE env = <<[provider |-> p, key |-> k]>>
  <2>1. env # <<>> /\ env[1].key = k /\ env[1].provider = p
    BY <1>3
  <2> QED
    BY <1>1, <2>1 DEF Fits, KeyOf, UpstreamOf
<1> QED
  BY <1>2, <1>3

-----------------------------------------------------------------------------
(* A step that writes no file and begins or ends nothing that could be     *)
(* taken back, except that an edit of its own ends.                        *)

GoesOn(x, y) ==
  /\ HasWritten(x) = HasWritten(y) /\ InSwitch(x) = InSwitch(y)
  /\ HasWritten(x) => /\ y.kind = x.kind
                      /\ y.setting = x.setting /\ y.base = x.base
  /\ InSwitch(x) => /\ y.kind = x.kind
                    /\ y.original = x.original
                    /\ y.provider = x.provider /\ y.key = x.key

Aside ==
  /\ UNCHANGED <<toml, dotenv, acked, writer, blind, parted>>
  /\ \A p \in Operators :
       \/ GoesOn(op[p], op'[p])
       \/ ~HasWritten(op'[p]) /\ ~InSwitch(op'[p]) /\ ~InSwitch(op[p])

LEMMA AsideKept ==
  ASSUME KeptInv, Aside
  PROVE  KeptInv'
<1> SUFFICES ASSUME ~blind'
             PROVE  /\ (acked \subseteq Read(toml).settings)'
                    /\ \A o \in Operators :
                         Wrote(o)' => op'[o].setting \in Read(toml').settings
                    /\ \A o \in Operators : (Wrote(o) \/ Switches(o))' /\ writer' = o =>
                         /\ acked' \subseteq Read(Before(o)').settings
                         /\ \A p \in Operators \ {o} :
                              Wrote(p)' => op'[p].setting \in Read(Before(o)').settings
  BY DEF KeptInv
<1>1. \A p \in Operators :
        /\ Wrote(p)' => Wrote(p) /\ op'[p].setting = op[p].setting
        /\ (Wrote(p) \/ Switches(p))' =>
             (Wrote(p) \/ Switches(p)) /\ Before(p)' = Before(p)
  BY DEF Aside, GoesOn, Wrote, Switches, HasWritten, InSwitch, Before
<1>2. toml' = toml /\ acked' = acked /\ writer' = writer /\ blind' = blind
  BY DEF Aside
<1>3. Read(toml') = Read(toml)
  BY <1>2
<1>4. (acked \subseteq Read(toml).settings)'
  BY <1>2, <1>3 DEF KeptInv, Read
<1> QED
  BY <1>1, <1>2, <1>3, <1>4 DEF KeptInv

LEMMA AsideFit ==
  ASSUME FitInv, Aside
  PROVE  FitInv'
<1>1. toml' = toml /\ dotenv' = dotenv /\ writer' = writer /\ blind' = blind
      /\ parted' = parted
  BY DEF Aside
<1>2. \A p \in Operators :
        /\ Switches(p)' = Switches(p)
        /\ Switches(p)' => /\ op'[p].original = op[p].original
                           /\ op'[p].provider = op[p].provider
                           /\ op'[p].key = op[p].key
        /\ Wrote(p)' => Wrote(p) /\ op'[p].base = op[p].base
  BY DEF Aside, GoesOn, Wrote, Switches, HasWritten, InSwitch
<1> SUFFICES ASSUME ~blind, ~parted
             PROVE  /\ (\A o \in Operators : ~Switches(o)') => Fits(toml, dotenv)
                    /\ \A o \in Operators : writer = o =>
                         /\ Wrote(o)' =>
                              ((\A p \in Operators \ {o} : ~Switches(p)') =>
                                 Fits(op'[o].base, dotenv))
                         /\ Switches(o)' =>
                              /\ Alike(Read(toml), [provider |-> op'[o].provider,
                                                    key |-> op'[o].key, pool |-> {}])
                              /\ (\A p \in Operators \ {o} : ~Switches(p)') =>
                                   Fits(op'[o].original, dotenv)
  BY <1>1 DEF FitInv, Fits, Alike, Read, KeyOf, UpstreamOf
<1> QED
  BY <1>2 DEF FitInv

LEMMA AsideKeeps ==
  ASSUME KeptInv, FitInv, Aside
  PROVE  KeptInv' /\ FitInv'
BY AsideKept, AsideFit

(* What most steps do: one operator's position changes. *)
LEMMA OneGoesOn ==
  ASSUME Shapes, NEW o \in Operators, NEW x, op' = [op EXCEPT ![o] = x],
         UNCHANGED <<toml, dotenv, acked, writer, blind, parted>>,
         \/ GoesOn(op[o], x)
         \/ ~HasWritten(x) /\ ~InSwitch(x) /\ ~InSwitch(op[o])
  PROVE  Aside
<1>1. \A p \in Operators \ {o} : GoesOn(op[p], op'[p])
  BY Placed DEF GoesOn
<1>2. op'[o] = x
  BY Placed
<1> QED
  BY <1>1, <1>2 DEF Aside

LEMMA QuietStep ==
  ASSUME FilesInv, NEW o \in Operators, NEW x, IsOp(x),
         op' = [op EXCEPT ![o] = x],
         UNCHANGED <<toml, dotenv, acked, writer, blind, parted>>,
         \/ GoesOn(op[o], x)
         \/ ~HasWritten(x) /\ ~InSwitch(x) /\ ~InSwitch(op[o])
  PROVE  FilesInv'
<1>1. IsFile(toml') /\ IsEnv(dotenv') /\ parted' \in BOOLEAN
  BY DEF FilesInv, Shapes
<1>2. Shapes'
  BY <1>1, PlacedShape DEF FilesInv
<1>3. Aside
  BY OneGoesOn DEF FilesInv
<1> QED
  BY <1>2, <1>3, AsideKeeps DEF FilesInv

LEMMA BeginQuiet ==
  ASSUME FilesInv, NEW o \in Operators, NEW x, IsOp(x), Begin(o, x),
         ~HasWritten(x), ~InSwitch(x),
         UNCHANGED <<toml, dotenv, acked, writer, blind, parted>>
  PROVE  FilesInv'
<1>1. op' = [op EXCEPT ![o] = x] /\ op[o] = NoOp
  BY DEF Begin, Idle
<1>2. ~InSwitch(op[o])
  BY <1>1 DEF NoOp, InSwitch
<1> QED
  BY <1>1, <1>2, QuietStep

LEMMA NothingIsNothing == IsOp(NoOp) /\ ~HasWritten(NoOp) /\ ~InSwitch(NoOp)
BY DEF IsOp, NoOp, HasWritten, InSwitch

LEMMA FinishQuiet ==
  ASSUME FilesInv, NEW o \in Operators, Finish(o), ~InSwitch(op[o]),
         UNCHANGED <<toml, dotenv, acked, writer, blind, parted>>
  PROVE  FilesInv'
BY QuietStep, NothingIsNothing DEF Finish

LEMMA UnchangedFiles ==
  ASSUME FilesInv, UNCHANGED configVars
  PROVE  FilesInv'
<1>1. UNCHANGED <<toml, dotenv, acked, writer, blind, parted, op>>
  BY DEF configVars
<1>2. Aside
  BY <1>1 DEF Aside, GoesOn
<1>3. Shapes'
  BY <1>1 DEF FilesInv, Shapes, IsFile, IsContent, IsEnv, Env
<1> QED
  BY <1>2, <1>3, AsideKeeps DEF FilesInv

(* A blind write excuses everything but the shapes. *)
LEMMA BlindStep ==
  ASSUME Shapes', blind'
  PROVE  FilesInv'
BY DEF FilesInv, KeptInv, FitInv

-----------------------------------------------------------------------------
(* The apply workflow. *)

LEMMA PreviewKeeps ==
  ASSUME FilesInv, NEW o \in Operators, NEW s \in Settings,
         NEW document \in Documents, Preview(o, s, document)
  PROVE  FilesInv'
<1> DEFINE x(base) == [kind |-> "apply", pc |-> "remember", setting |-> s,
                       document |-> document, base |-> base, previous |-> <<>>]
<1>1. IsFile(toml) /\ IsFile(<<>>)
  BY DEF FilesInv, Shapes, IsFile
<1>2. ASSUME NEW base, IsFile(base)
      PROVE  IsOp(x(base)) /\ ~HasWritten(x(base)) /\ ~InSwitch(x(base))
  BY <1>1, <1>2 DEF IsOp, IsApply, HasWritten, InSwitch
<1>3. UNCHANGED <<toml, dotenv, acked, writer, blind, parted>>
  BY DEF Preview, ghosts
<1>4. Begin(o, x(toml)) \/ Begin(o, x(<<>>))
  BY DEF Preview
<1> QED
  BY <1>1, <1>2, <1>3, <1>4, BeginQuiet

LEMMA RememberKeeps ==
  ASSUME FilesInv, NEW o \in Operators, Remember(o)
  PROVE  FilesInv'
<1>1. IsApply(op[o]) /\ ~InSwitch(op[o]) /\ ~HasWritten(op[o])
  BY Kinds DEF FilesInv, Shapes, Remember, Doing, InSwitch, HasWritten
<1>2. UNCHANGED <<toml, dotenv, acked, writer, blind, parted>>
  BY DEF Remember, ghosts
<1>3. CASE op' = [op EXCEPT ![o].pc = "write", ![o].previous = toml]
  <2> DEFINE x == [kind |-> "apply", pc |-> "write", setting |-> op[o].setting,
                   document |-> op[o].document, base |-> op[o].base, previous |-> toml]
  <2>1. IsFile(toml)
    BY DEF FilesInv, Shapes
  <2>2. IsOp(x) /\ ~HasWritten(x) /\ ~InSwitch(x)
    BY <1>1, <2>1 DEF IsOp, IsApply, HasWritten, InSwitch
  <2>3. op' = [op EXCEPT ![o] = x]
    <3>1. op[o] = [kind |-> "apply", pc |-> op[o].pc, setting |-> op[o].setting,
                   document |-> op[o].document, base |-> op[o].base, previous |-> op[o].previous]
      BY <1>1 DEF IsApply
    <3>2. op = [p \in Operators |-> op[p]]
      BY DEF FilesInv, Shapes
    <3>3. [op[o] EXCEPT !.pc = "write"]
            = [kind |-> "apply", pc |-> "write", setting |-> op[o].setting,
               document |-> op[o].document, base |-> op[o].base, previous |-> op[o].previous]
      BY <3>1
    <3> DEFINE y == [op[o] EXCEPT !.pc = "write"]
               f == [op EXCEPT ![o] = y]
    <3>4. op' = [f EXCEPT ![o].previous = toml]
      BY <1>3
    <3>5. f = [p \in Operators |-> IF p = o THEN y ELSE op[p]]
      BY <3>2
    <3> HIDE DEF f
    <3>6. op' = [p \in Operators |-> IF p = o THEN [y EXCEPT !.previous = toml] ELSE op[p]]
      BY <3>4, <3>5
    <3>7. y = [kind |-> "apply", pc |-> "write", setting |-> op[o].setting,
               document |-> op[o].document, base |-> op[o].base, previous |-> op[o].previous]
      BY <3>3
    <3> HIDE DEF y
    <3>8. [y EXCEPT !.previous = toml] = x
      BY <3>7
    <3> QED
      BY <3>2, <3>6, <3>8
  <2> QED
    BY <1>1, <1>2, <2>2, <2>3, QuietStep
<1>4. CASE Goto(o, "write")
  <2>1. IsApply([op[o] EXCEPT !.pc = "write"])
    BY <1>1, GotoApply
  <2>2. [op[o] EXCEPT !.pc = "write"].pc = "write"
    BY <1>1, GotoApply
  <2>3. /\ IsOp([op[o] EXCEPT !.pc = "write"])
        /\ ~HasWritten([op[o] EXCEPT !.pc = "write"])
        /\ ~InSwitch([op[o] EXCEPT !.pc = "write"])
    BY <2>1, <2>2 DEF IsOp, HasWritten, InSwitch, IsApply
  <2> QED
    BY <1>1, <1>2, <1>4, <2>3, GotoPlaces, QuietStep
<1> QED
  BY <1>3, <1>4 DEF Remember

LEMMA WriteMergedKeeps ==
  ASSUME FilesInv, NEW o \in Operators, WriteMerged(o)
  PROVE  FilesInv'
<1>1. IsApply(op[o]) /\ ~InSwitch(op[o]) /\ ~HasWritten(op[o])
  BY Kinds DEF FilesInv, Shapes, WriteMerged, Doing, InSwitch, HasWritten
<1>2. IsContent(Read(op[o].base))
  BY <1>1, ReadFile DEF IsApply
<1>3. CASE Finish(o) /\ NotWritten /\ UNCHANGED parted
  BY <1>1, <1>3, FinishQuiet DEF WriteMerged, NotWritten
<1>4. CASE /\ Write(o, Merged(o), toml = op[o].base) /\ Goto(o, "verify")
           /\ parted' = (parted \/ Parting(op[o].document))
  <2> DEFINE x == [op[o] EXCEPT !.pc = "verify"]
             c == Merge(Read(op[o].base), op[o].setting, op[o].document)
  <2>1. /\ IsApply(x) /\ x.pc = "verify"
        /\ x.base = op[o].base /\ x.setting = op[o].setting
    BY <1>1, GotoApply
  <2>2. op' = [op EXCEPT ![o] = x]
    BY <1>4, GotoPlaces
  <2>3. IsFile(<<c>>) /\ Read(<<c>>) = c
    BY <1>2, MergeEffect, Written
  <2>4. toml' = <<c>> /\ dotenv' = dotenv /\ acked' = acked
        /\ parted' = (parted \/ Parting(op[o].document))
        /\ writer' = o /\ blind' = (blind \/ toml # op[o].base)
    BY <1>4 DEF WriteMerged, Write, Merged
  <2>5. Shapes'
    <3>1. parted' \in BOOLEAN
      BY <2>4 DEF FilesInv, Shapes
    <3> QED
      BY <2>1, <2>2, <2>3, <2>4, <3>1, PlacedShape DEF FilesInv, Shapes, IsOp
  <2>6. CASE blind'
    BY <2>5, <2>6, BlindStep
  <2>7. CASE ~blind'
    <3>1. toml = op[o].base /\ ~blind
      BY <2>4, <2>7
    <3>2. /\ op'[o] = x
          /\ \A p \in Operators \ {o} : op'[p] = op[p]
      BY <2>2, Placed DEF FilesInv
    <3>3. HasWritten(x) /\ ~InSwitch(x) /\ x.kind = "apply"
      BY <2>1 DEF HasWritten, InSwitch, IsApply
    <3> HIDE DEF x
    <3>4. /\ c.settings = Read(toml).settings \cup {op[o].setting}
          /\ op[o].document.names = {} => Alike(Read(toml), c)
          /\ op[o].document.names = Parts =>
               /\ c.provider = op[o].document.of /\ c.key = op[o].document.of
               /\ c.pool = {op[o].document.of}
      BY <1>2, <3>1, MergeEffect DEF Alike
    <3> HIDE DEF c
    <3>5. Read(toml') = c
      BY <2>3, <2>4
    <3>6. KeptInv'
      <4>1. \A p \in Operators \ {o} : Wrote(p)' => Wrote(p) /\ op'[p] = op[p]
        BY <3>2 DEF Wrote
      <4>2. Before(o)' = toml
        BY <2>1, <3>1, <3>2, <3>3 DEF Before
      <4>3. acked \subseteq Read(toml).settings
        BY <3>1 DEF FilesInv, KeptInv
      <4>4. \A p \in Operators \ {o} :
              Wrote(p)' => op'[p].setting \in Read(toml).settings
        BY <3>1, <4>1 DEF FilesInv, KeptInv
      <4>5. op'[o].setting \in c.settings
        BY <2>1, <3>2, <3>4
      <4>6. \A p \in Operators : Wrote(p)' => op'[p].setting \in c.settings
        BY <3>4, <4>4, <4>5
      <4>7. acked' \subseteq c.settings
        BY <2>4, <3>4, <4>3
      <4>8. Read(Before(o)') = Read(toml)
        BY <4>2
      <4> QED
        BY <2>4, <3>5, <4>3, <4>4, <4>6, <4>7, <4>8 DEF KeptInv, Read
    <3>7. FitInv'
      <4> SUFFICES ASSUME ~parted'
                   PROVE  FitInv'
        BY DEF FitInv
      <4>1. /\ ~parted
            /\ \/ op[o].document.names = {}
               \/ op[o].document.names = Parts /\ dotenv = <<>>
        BY <2>4 DEF Parting
      <4>2. \A p \in Operators : Switches(p)' <=> Switches(p)
        BY <1>1, <3>2, <3>3 DEF Switches
      <4>3. (\A p \in Operators : ~Switches(p)') => Fits(toml, dotenv)
        BY <3>1, <4>1, <4>2 DEF FilesInv, FitInv
      <4>4. (\A p \in Operators : ~Switches(p)') => Fits(toml', dotenv)
        <5>1. CASE op[o].document.names = {}
          BY <3>4, <3>5, <4>3, <5>1, AlikeFits
        <5>2. CASE op[o].document.names = Parts /\ dotenv = <<>>
          BY <3>4, <3>5, <5>2 DEF Fits, KeyOf, UpstreamOf
        <5> QED
          BY <4>1, <5>1, <5>2
      <4>5. ~Switches(o) /\ ~Switches(o)'
        BY <1>1, <3>2, <3>3 DEF Switches
      <4>6. (\A p \in Operators \ {o} : ~Switches(p)') => Fits(op'[o].base, dotenv)
        BY <2>1, <3>1, <3>2, <4>3, <4>5
      <4> QED
        BY <2>4, <4>4, <4>5, <4>6 DEF FitInv, Fits, KeyOf, UpstreamOf, Read, Alike
    <3> QED
      BY <2>5, <3>6, <3>7 DEF FilesInv
  <2> QED
    BY <2>6, <2>7
<1> QED
  BY <1>3, <1>4 DEF WriteMerged

LEMMA ReadBackKeeps ==
  ASSUME FilesInv, NEW o \in Operators, ReadBack(o)
  PROVE  FilesInv'
<1>1. IsApply(op[o]) /\ ~InSwitch(op[o]) /\ HasWritten(op[o])
  BY Kinds DEF FilesInv, Shapes, ReadBack, Doing, InSwitch, HasWritten
<1>2. CASE Goto(o, "rollback") /\ UNCHANGED acked
  <2> DEFINE x == [op[o] EXCEPT !.pc = "rollback"]
  <2>1. /\ IsApply(x) /\ x.pc = "rollback"
        /\ x.base = op[o].base /\ x.setting = op[o].setting
    BY <1>1, GotoApply
  <2>2. op' = [op EXCEPT ![o] = x]
    BY <1>2, GotoPlaces
  <2>3. GoesOn(op[o], x)
    <3>1. HasWritten(x) /\ ~InSwitch(x) /\ x.kind = op[o].kind
      BY <1>1, <2>1 DEF HasWritten, InSwitch, IsApply
    <3> QED
      BY <1>1, <2>1, <3>1 DEF GoesOn, HasWritten, InSwitch
  <2>4. IsOp(x)
    BY <2>1 DEF IsOp
  <2>5. UNCHANGED <<toml, dotenv, acked, writer, blind, parted>>
    BY <1>2 DEF ReadBack, ghosts
  <2> QED
    BY <2>2, <2>3, <2>4, <2>5, QuietStep
<1>3. CASE toml = Merged(o) /\ acked' = acked \cup {op[o].setting} /\ Finish(o)
  <2>1. /\ op' = [op EXCEPT ![o] = NoOp]
        /\ UNCHANGED <<toml, dotenv, writer, blind, parted>>
    BY <1>3 DEF ReadBack, ghosts, Finish
  <2>2. /\ op'[o] = NoOp
        /\ \A p \in Operators \ {o} : op'[p] = op[p]
    BY <2>1, Placed DEF FilesInv
  <2>3. Shapes'
    <3>1. IsFile(toml') /\ IsEnv(dotenv') /\ parted' \in BOOLEAN
      BY <2>1 DEF FilesInv, Shapes
    <3> QED
      BY <2>1, <3>1, NothingIsNothing, PlacedShape DEF FilesInv
  <2>4. Wrote(o) /\ ~Wrote(o)' /\ ~Switches(o)' /\ ~Switches(o)
    BY <1>1, <2>2, NothingIsNothing DEF Wrote, Switches
  <2>5. \A p \in Operators \ {o} :
          /\ Wrote(p)' <=> Wrote(p)
          /\ Switches(p)' <=> Switches(p)
          /\ op'[p] = op[p] /\ Before(p)' = Before(p)
    BY <2>2 DEF Wrote, Switches, Before
  <2>6. KeptInv'
    <3> SUFFICES ASSUME ~blind'
                 PROVE  KeptInv'
      BY DEF KeptInv
    <3>1. ~blind
      BY <2>1
    <3>2. op[o].setting \in Read(toml).settings /\ acked \subseteq Read(toml).settings
      BY <2>4, <3>1 DEF FilesInv, KeptInv
    <3>3. acked' \subseteq Read(toml').settings
      BY <1>3, <2>1, <3>2
    <3>4. \A p \in Operators : Wrote(p)' => op'[p].setting \in Read(toml').settings
      BY <2>1, <2>4, <2>5, <3>1 DEF FilesInv, KeptInv
    <3>5. ASSUME NEW p \in Operators, (Wrote(p) \/ Switches(p))', writer' = p
          PROVE  /\ acked' \subseteq Read(Before(p)').settings
                 /\ \A q \in Operators \ {p} :
                      Wrote(q)' => op'[q].setting \in Read(Before(p)').settings
      <4>1. p # o /\ (Wrote(p) \/ Switches(p)) /\ writer = p /\ Before(p)' = Before(p)
        BY <2>1, <2>4, <2>5, <3>5
      <4>2. /\ acked \subseteq Read(Before(p)).settings
            /\ \A q \in Operators \ {p} :
                 Wrote(q) => op[q].setting \in Read(Before(p)).settings
        BY <3>1, <4>1 DEF FilesInv, KeptInv
      <4>3. acked' \subseteq Read(Before(p)).settings
        BY <1>3, <2>4, <4>1, <4>2
      <4> QED
        BY <2>4, <2>5, <4>1, <4>2, <4>3
    <3> QED
      BY <3>3, <3>4, <3>5 DEF KeptInv, Read
  <2>7. FitInv'
    <3> SUFFICES ASSUME ~blind', ~parted'
                 PROVE  FitInv'
      BY DEF FitInv
    <3>1. ~blind /\ ~parted
      BY <2>1
    <3>2. (\A p \in Operators : ~Switches(p)') => Fits(toml, dotenv)
      BY <2>4, <2>5, <3>1 DEF FilesInv, FitInv
    <3>3. ASSUME NEW p \in Operators, writer = p
          PROVE  /\ Wrote(p)' =>
                      ((\A q \in Operators \ {p} : ~Switches(q)') =>
                         Fits(op'[p].base, dotenv))
                 /\ Switches(p)' =>
                      /\ Alike(Read(toml), [provider |-> op'[p].provider,
                                            key |-> op'[p].key, pool |-> {}])
                      /\ (\A q \in Operators \ {p} : ~Switches(q)') =>
                           Fits(op'[p].original, dotenv)
      <4>1. CASE p = o
        BY <2>4, <4>1
      <4>2. CASE p # o
        <5>1. (\A q \in Operators \ {p} : ~Switches(q)') =>
                (\A q \in Operators \ {p} : ~Switches(q))
          BY <2>4, <2>5
        <5>2. op'[p] = op[p] /\ (Wrote(p)' <=> Wrote(p))
              /\ (Switches(p)' <=> Switches(p))
          BY <2>5, <4>2
        <5> QED
          BY <3>1, <3>3, <5>1, <5>2 DEF FilesInv, FitInv
      <4> QED
        BY <4>1, <4>2
    <3> QED
      BY <2>1, <3>2, <3>3 DEF FitInv
  <2> QED
    BY <2>3, <2>6, <2>7 DEF FilesInv
<1> QED
  BY <1>2, <1>3 DEF ReadBack

(* A write that takes o's last one back. *)
LEMMA TakenBack ==
  ASSUME FilesInv, NEW o \in Operators, Wrote(o) \/ Switches(o),
         op' = [op EXCEPT ![o] = NoOp], toml' = Before(o), writer' = o,
         UNCHANGED <<dotenv, acked, parted>>,
         blind' \/ (~blind /\ writer = o)
  PROVE  FilesInv'
<1>1. IsOp(op[o]) /\ (IsApply(op[o]) \/ IsSwitch(op[o]))
  BY Kinds DEF FilesInv, Shapes, Wrote, Switches, HasWritten, InSwitch
<1>2. IsFile(Before(o))
  BY <1>1 DEF Before, IsApply, IsSwitch
<1>3. /\ op'[o] = NoOp
      /\ \A p \in Operators \ {o} : op'[p] = op[p]
  BY Placed DEF FilesInv
<1>4. Shapes'
  BY <1>2, NothingIsNothing, PlacedShape DEF FilesInv, Shapes
<1>5. CASE blind'
  BY <1>4, <1>5, BlindStep
<1>6. CASE ~blind'
  <2>1. ~blind /\ writer = o
    BY <1>6
  <2>2. ~Wrote(o)' /\ ~Switches(o)'
    BY <1>3, NothingIsNothing DEF Wrote, Switches
  <2>3. \A p \in Operators \ {o} :
          /\ Wrote(p)' <=> Wrote(p)
          /\ Switches(p)' <=> Switches(p)
          /\ op'[p] = op[p]
    BY <1>3 DEF Wrote, Switches
  <2>4. KeptInv'
    <3>1. /\ acked \subseteq Read(Before(o)).settings
          /\ \A p \in Operators \ {o} :
               Wrote(p) => op[p].setting \in Read(Before(o)).settings
      BY <2>1 DEF FilesInv, KeptInv
    <3>2. acked' \subseteq Read(toml').settings
      BY <3>1
    <3>3. \A p \in Operators : Wrote(p)' => op'[p].setting \in Read(toml').settings
      BY <2>2, <2>3, <3>1
    <3>4. \A p \in Operators : ~((Wrote(p) \/ Switches(p))' /\ writer' = p)
      BY <2>2
    <3> QED
      BY <3>2, <3>3, <3>4 DEF KeptInv, Read
  <2>5. FitInv'
    <3> SUFFICES ASSUME ~parted'
                 PROVE  FitInv'
      BY DEF FitInv
    <3>1. ~parted
      OBVIOUS
    <3>2. ASSUME \A p \in Operators : ~Switches(p)'
          PROVE  Fits(toml', dotenv)
      <4>1. \A p \in Operators \ {o} : ~Switches(p)
        BY <2>3, <3>2
      <4>2. CASE Switches(o)
        <5>1. Before(o) = op[o].original
          BY <4>2 DEF Before, Switches, InSwitch
        <5> QED
          BY <2>1, <3>1, <4>1, <4>2, <5>1 DEF FilesInv, FitInv
      <4>3. CASE ~Switches(o)
        <5>1. Wrote(o) /\ Before(o) = op[o].base
          BY <4>3 DEF Before, Wrote, HasWritten
        <5> QED
          BY <2>1, <3>1, <4>1, <5>1 DEF FilesInv, FitInv
      <4> QED
        BY <4>2, <4>3
    <3>3. \A p \in Operators : ~((Wrote(p) \/ Switches(p))' /\ writer' = p)
      BY <2>2
    <3> QED
      BY <3>2, <3>3 DEF FitInv, Fits, KeyOf, UpstreamOf, Read, Alike
  <2> QED
    BY <1>4, <2>4, <2>5 DEF FilesInv
<1> QED
  BY <1>5, <1>6

(* A switch abandoned half done excuses the keys. *)
LEMMA PartedStep ==
  ASSUME FilesInv, NEW o \in Operators, ~HasWritten(op[o]),
         op' = [op EXCEPT ![o] = NoOp], parted',
         UNCHANGED <<toml, dotenv, acked, writer, blind>>
  PROVE  FilesInv'
<1>1. IsFile(toml') /\ IsEnv(dotenv') /\ parted' \in BOOLEAN
  BY DEF FilesInv, Shapes
<1>2. Shapes'
  BY <1>1, NothingIsNothing, PlacedShape DEF FilesInv
<1>3. FitInv'
  BY DEF FitInv
<1>4. /\ op'[o] = NoOp
      /\ \A p \in Operators \ {o} : op'[p] = op[p]
  BY Placed DEF FilesInv
<1>5. KeptInv'
  <2>1. /\ ~Wrote(o)' /\ ~Switches(o)'
        /\ \A p \in Operators \ {o} :
             /\ Wrote(p)' <=> Wrote(p)
             /\ Switches(p)' <=> Switches(p)
             /\ op'[p] = op[p] /\ Before(p)' = Before(p)
    BY <1>4, NothingIsNothing DEF Wrote, Switches, Before
  <2> QED
    BY <2>1 DEF FilesInv, KeptInv, Read
<1> QED
  BY <1>2, <1>3, <1>5 DEF FilesInv

LEMMA RollbackKeeps ==
  ASSUME FilesInv, NEW o \in Operators, Rollback(o)
  PROVE  FilesInv'
<1>1. IsApply(op[o]) /\ ~InSwitch(op[o]) /\ HasWritten(op[o])
  BY Kinds DEF FilesInv, Shapes, Rollback, Doing, InSwitch, HasWritten
<1>2. CASE NotWritten
  BY <1>1, <1>2, FinishQuiet DEF Rollback, NotWritten
<1>3. CASE Write(o, Restored(op[o].previous),
                 writer = o /\ op[o].previous = op[o].base)
  <2>1. /\ toml' = op[o].previous /\ writer' = o
        /\ blind' = (blind \/ ~(writer = o /\ op[o].previous = op[o].base))
        /\ UNCHANGED <<dotenv, acked, parted>>
        /\ op' = [op EXCEPT ![o] = NoOp]
    BY <1>3 DEF Rollback, Write, Restored, Finish
  <2>2. CASE ~blind /\ writer = o /\ op[o].previous = op[o].base
    <3>1. Before(o) = op[o].previous /\ Wrote(o)
      BY <1>1, <2>2 DEF Before, Wrote, IsApply
    <3> QED
      BY <2>1, <2>2, <3>1, TakenBack
  <2>3. CASE ~(~blind /\ writer = o /\ op[o].previous = op[o].base)
    <3>1. blind'
      BY <2>1, <2>3
    <3>2. IsFile(toml') /\ IsEnv(dotenv') /\ parted' \in BOOLEAN
      BY <1>1, <2>1 DEF FilesInv, Shapes, IsApply
    <3>3. Shapes'
      BY <2>1, <3>2, NothingIsNothing, PlacedShape DEF FilesInv
    <3> QED
      BY <3>1, <3>3, BlindStep
  <2> QED
    BY <2>2, <2>3
<1> QED
  BY <1>2, <1>3 DEF Rollback

-----------------------------------------------------------------------------
(* The switch of the provider. *)

LEMMA BeginSwitchKeeps ==
  ASSUME FilesInv, NEW o \in Operators, NEW p \in Upstream, NEW k \in Upstream,
         BeginSwitch(o, p, k)
  PROVE  FilesInv'
<1> DEFINE x == [kind |-> "switch", pc |-> "toml", provider |-> p, key |-> k,
                 original |-> toml, env |-> dotenv]
<1>1. IsFile(toml) /\ IsEnv(dotenv) /\ k \in {p, Default}
  BY DEF FilesInv, Shapes, BeginSwitch
<1>2. IsOp(x) /\ ~HasWritten(x) /\ ~InSwitch(x)
  BY <1>1 DEF IsOp, IsSwitch, HasWritten, InSwitch
<1>3. UNCHANGED <<toml, dotenv, acked, writer, blind, parted>> /\ Begin(o, x)
  BY DEF BeginSwitch, ghosts
<1> QED
  BY <1>2, <1>3, BeginQuiet

LEMMA WriteSwitchedTomlKeeps ==
  ASSUME FilesInv, NEW o \in Operators, WriteSwitchedToml(o)
  PROVE  FilesInv'
<1>1. IsSwitch(op[o]) /\ ~InSwitch(op[o]) /\ ~HasWritten(op[o])
  BY Kinds DEF FilesInv, Shapes, WriteSwitchedToml, Doing, InSwitch, HasWritten
<1>2. IsContent(Read(op[o].original))
  BY <1>1, ReadFile DEF IsSwitch
<1>3. CASE Finish(o) /\ NotWritten
  BY <1>1, <1>3, FinishQuiet DEF WriteSwitchedToml, NotWritten
<1>4. CASE Write(o, SwitchedToml(o), toml = op[o].original) /\ Goto(o, "env")
  <2> DEFINE x == [op[o] EXCEPT !.pc = "env"]
             c == Switched(Read(op[o].original), op[o].provider, op[o].key)
  <2>1. /\ IsSwitch(x) /\ x.pc = "env"
        /\ x.original = op[o].original /\ x.provider = op[o].provider
        /\ x.key = op[o].key
    BY <1>1, GotoSwitch
  <2>2. op' = [op EXCEPT ![o] = x]
    BY <1>4, GotoPlaces
  <2>3. IsFile(<<c>>) /\ Read(<<c>>) = c
    BY <1>2, SwitchedEffect, Written
  <2>4. toml' = <<c>> /\ dotenv' = dotenv /\ acked' = acked /\ parted' = parted
        /\ writer' = o /\ blind' = (blind \/ toml # op[o].original)
    BY <1>4 DEF WriteSwitchedToml, Write, SwitchedToml
  <2>5. Shapes'
    BY <2>1, <2>2, <2>3, <2>4, PlacedShape DEF FilesInv, Shapes, IsOp
  <2>6. CASE blind'
    BY <2>5, <2>6, BlindStep
  <2>7. CASE ~blind'
    <3>1. toml = op[o].original /\ ~blind
      BY <2>4, <2>7
    <3>2. /\ op'[o] = x
          /\ \A p \in Operators \ {o} : op'[p] = op[p]
      BY <2>2, Placed DEF FilesInv
    <3>3. ~HasWritten(x) /\ InSwitch(x) /\ x.kind = "switch"
      BY <2>1 DEF HasWritten, InSwitch, IsSwitch
    <3> HIDE DEF x
    <3>4. /\ c.settings = Read(toml).settings
          /\ c.provider = op[o].provider /\ c.key = op[o].key /\ c.pool = {}
      BY <1>2, <3>1, SwitchedEffect
    <3> HIDE DEF c
    <3>5. Read(toml') = c
      BY <2>3, <2>4
    <3>6. KeptInv'
      <4>1. \A p \in Operators \ {o} : Wrote(p)' => Wrote(p) /\ op'[p] = op[p]
        BY <3>2 DEF Wrote
      <4>2. Before(o)' = toml /\ ~Wrote(o)'
        BY <2>1, <3>1, <3>2, <3>3 DEF Before, Wrote
      <4>3. acked \subseteq Read(toml).settings
        BY <3>1 DEF FilesInv, KeptInv
      <4>4. \A p \in Operators \ {o} :
              Wrote(p)' => op'[p].setting \in Read(toml).settings
        BY <3>1, <4>1 DEF FilesInv, KeptInv
      <4>5. \A p \in Operators : Wrote(p)' => op'[p].setting \in c.settings
        BY <3>4, <4>2, <4>4
      <4>6. acked' \subseteq c.settings
        BY <2>4, <3>4, <4>3
      <4>7. Read(Before(o)') = Read(toml)
        BY <4>2
      <4> QED
        BY <2>4, <3>5, <4>3, <4>4, <4>5, <4>6, <4>7 DEF KeptInv, Read
    <3>7. FitInv'
      <4> SUFFICES ASSUME ~parted'
                   PROVE  FitInv'
        BY DEF FitInv
      <4>0. ~parted
        BY <2>4, Zenon
      <4>1. /\ Switches(o)' /\ ~Switches(o) /\ ~Wrote(o)'
            /\ \A p \in Operators \ {o} : Switches(p)' <=> Switches(p)
        BY <1>1, <3>2, <3>3 DEF Switches, Wrote
      <4>2. Alike(Read(toml'), [provider |-> op'[o].provider,
                                key |-> op'[o].key, pool |-> {}])
        BY <2>1, <3>2, <3>4, <3>5 DEF Alike
      <4>3. (\A p \in Operators \ {o} : ~Switches(p)') => Fits(op'[o].original, dotenv)
        BY <2>1, <3>1, <3>2, <4>0, <4>1 DEF FilesInv, FitInv
      <4> QED
        BY <2>4, <4>1, <4>2, <4>3 DEF FitInv, Fits, KeyOf, UpstreamOf, Read, Alike
    <3> QED
      BY <2>5, <3>6, <3>7 DEF FilesInv
  <2> QED
    BY <2>6, <2>7
<1> QED
  BY <1>3, <1>4 DEF WriteSwitchedToml

LEMMA WriteSwitchedEnvKeeps ==
  ASSUME FilesInv, NEW o \in Operators, WriteSwitchedEnv(o)
  PROVE  FilesInv'
<1>1. IsSwitch(op[o]) /\ InSwitch(op[o]) /\ ~HasWritten(op[o])
  BY Kinds DEF FilesInv, Shapes, WriteSwitchedEnv, Doing, InSwitch, HasWritten
<1>2. CASE EnvFailed(o) /\ UNCHANGED <<dotenv, blind>>
  <2> DEFINE x == [op[o] EXCEPT !.pc = "undo"]
  <2>1. /\ IsSwitch(x) /\ x.pc = "undo"
        /\ x.original = op[o].original /\ x.provider = op[o].provider
        /\ x.key = op[o].key
    BY <1>1, GotoSwitch
  <2>2. op' = [op EXCEPT ![o] = x]
    BY <1>2, GotoPlaces DEF EnvFailed
  <2>3. GoesOn(op[o], x)
    <3>1. ~HasWritten(x) /\ InSwitch(x) /\ x.kind = op[o].kind
      BY <1>1, <2>1 DEF HasWritten, InSwitch, IsSwitch
    <3> QED
      BY <1>1, <2>1, <3>1 DEF GoesOn, HasWritten, InSwitch
  <2>4. IsOp(x)
    BY <2>1 DEF IsOp
  <2>5. UNCHANGED <<toml, dotenv, acked, writer, blind, parted>>
    BY <1>2 DEF WriteSwitchedEnv, ghosts
  <2> QED
    BY <2>2, <2>3, <2>4, <2>5, QuietStep
<1>3. CASE /\ dotenv' = SwitchedEnv(o)
           /\ blind' = (blind \/ dotenv # op[o].env \/ writer # o)
           /\ Finish(o)
  <2> DEFINE e == [provider |-> op[o].provider, key |-> op[o].key]
  <2>1. /\ op' = [op EXCEPT ![o] = NoOp]
        /\ UNCHANGED <<toml, acked, writer, parted>>
    BY <1>3 DEF WriteSwitchedEnv, ghosts, Finish
  <2>2. IsEnv(<<e>>)
    BY <1>1 DEF IsEnv, Env, IsSwitch, Upstream
  <2>3. Shapes'
    <3>1. IsFile(toml') /\ IsEnv(dotenv') /\ parted' \in BOOLEAN
      BY <1>3, <2>1, <2>2 DEF FilesInv, Shapes, SwitchedEnv
    <3> QED
      BY <2>1, <3>1, NothingIsNothing, PlacedShape DEF FilesInv
  <2>4. CASE blind'
    BY <2>3, <2>4, BlindStep
  <2>5. CASE ~blind'
    <3>1. ~blind /\ dotenv = op[o].env /\ writer = o
      BY <1>3, <2>5
    <3>2. /\ op'[o] = NoOp
          /\ \A p \in Operators \ {o} : op'[p] = op[p]
      BY <2>1, Placed DEF FilesInv
    <3>3. /\ ~Wrote(o)' /\ ~Switches(o)' /\ Switches(o)
          /\ \A p \in Operators \ {o} :
               /\ Wrote(p)' <=> Wrote(p)
               /\ Switches(p)' <=> Switches(p)
      BY <1>1, <3>2, NothingIsNothing DEF Wrote, Switches
    <3>4. KeptInv'
      BY <2>1, <3>1, <3>2, <3>3 DEF FilesInv, KeptInv, Read
    <3>5. FitInv'
      <4> SUFFICES ASSUME ~parted'
                   PROVE  FitInv'
        BY DEF FitInv
      <4>1. ~parted
        BY <2>1, Zenon
      <4>2. Alike(Read(toml), [provider |-> op[o].provider,
                               key |-> op[o].key, pool |-> {}])
        BY <3>1, <3>3, <4>1 DEF FilesInv, FitInv
      <4>3. dotenv' = <<>> \/ dotenv' = <<e>>
        BY <1>3, <3>1 DEF SwitchedEnv
      <4>4. Fits(toml, dotenv')
        BY <1>1, <4>2, <4>3, SwitchedFits DEF IsSwitch
      <4> QED
        BY <2>1, <3>1, <3>3, <4>4 DEF FitInv, Fits, KeyOf, UpstreamOf, Read, Alike
    <3> QED
      BY <2>3, <3>4, <3>5 DEF FilesInv
  <2> QED
    BY <2>4, <2>5
<1> QED
  BY <1>2, <1>3 DEF WriteSwitchedEnv

LEMMA UndoSwitchKeeps ==
  ASSUME FilesInv, NEW o \in Operators, UndoSwitch(o)
  PROVE  FilesInv'
<1>1. IsSwitch(op[o]) /\ InSwitch(op[o]) /\ ~HasWritten(op[o])
  BY Kinds DEF FilesInv, Shapes, UndoSwitch, Doing, InSwitch, HasWritten
<1>2. CASE parted' = TRUE /\ NotWritten
  BY <1>1, <1>2, PartedStep DEF UndoSwitch, NotWritten, Finish
<1>3. CASE Write(o, op[o].original, writer = o) /\ UNCHANGED parted
  <2>1. /\ toml' = op[o].original /\ writer' = o
        /\ blind' = (blind \/ writer # o)
        /\ UNCHANGED <<dotenv, acked, parted>>
        /\ op' = [op EXCEPT ![o] = NoOp]
    BY <1>3 DEF UndoSwitch, Write, Finish
  <2>2. CASE ~blind /\ writer = o
    <3>1. Before(o) = op[o].original /\ Switches(o)
      BY <1>1 DEF Before, Switches, IsSwitch
    <3> QED
      BY <2>1, <2>2, <3>1, TakenBack
  <2>3. CASE ~(~blind /\ writer = o)
    <3>1. blind'
      BY <2>1, <2>3
    <3>2. IsFile(toml') /\ IsEnv(dotenv') /\ parted' \in BOOLEAN
      BY <1>1, <2>1 DEF FilesInv, Shapes, IsSwitch
    <3>3. Shapes'
      BY <2>1, <3>2, NothingIsNothing, PlacedShape DEF FilesInv
    <3> QED
      BY <3>1, <3>3, BlindStep
  <2> QED
    BY <2>2, <2>3
<1> QED
  BY <1>2, <1>3 DEF UndoSwitch

-----------------------------------------------------------------------------
(* Edits without a way back, and commands that are killed. *)

LEMMA BeginEditKeeps ==
  ASSUME FilesInv, NEW o \in Operators, NEW e,
         e.do \in {"model", "append", "replace", "remove"},
         e.do # "model" => e.setting = Default, BeginEdit(o, e)
  PROVE  FilesInv'
<1> DEFINE x == [kind |-> "edit", pc |-> "write", base |-> toml, edit |-> e]
<1>1. IsFile(toml)
  BY DEF FilesInv, Shapes
<1>2. IsOp(x) /\ ~HasWritten(x) /\ ~InSwitch(x)
  BY <1>1 DEF IsOp, IsEdit, HasWritten, InSwitch
<1>3. UNCHANGED <<toml, dotenv, acked, writer, blind, parted>> /\ Begin(o, x)
  BY DEF BeginEdit, ghosts
<1> QED
  BY <1>2, <1>3, BeginQuiet

LEMMA WriteEditKeeps ==
  ASSUME FilesInv, NEW o \in Operators, WriteEdit(o)
  PROVE  FilesInv'
<1>1. IsEdit(op[o]) /\ ~InSwitch(op[o]) /\ ~HasWritten(op[o])
  BY Kinds DEF FilesInv, Shapes, WriteEdit, Doing, InSwitch, HasWritten
<1>2. IsContent(Read(op[o].base))
  BY <1>1, ReadFile DEF IsEdit
<1>3. CASE NotWritten /\ UNCHANGED acked
  BY <1>1, <1>3, FinishQuiet DEF WriteEdit, NotWritten
<1>4. CASE /\ Write(o, <<Edited(Read(op[o].base), op[o].edit)>>, toml = op[o].base)
           /\ \/ acked' = acked \cup ({op[o].edit.setting} \ {Default})
              \/ acked' = acked
  <2> DEFINE c == Edited(Read(op[o].base), op[o].edit)
  <2>1. op' = [op EXCEPT ![o] = NoOp]
    BY DEF WriteEdit, Finish
  <2> op[o].edit.do \in {"model", "append", "replace", "remove"}
    BY <1>1 DEF IsEdit
  <2> IsContent(c)
    <3>1. PICK f, e : f = Read(op[o].base) /\ e = op[o].edit
      OBVIOUS
    <3>2. IsContent(f)
      BY <1>2, <3>1
    <3>3. e.do \in {"model", "append", "replace", "remove"}
      BY <3>1
    <3>4. IsContent(Edited(f, e))
      BY <3>2, <3>3, EditedContent
    <3> QED
      BY <3>1, <3>4
  <2>2. IsFile(<<c>>) /\ Read(<<c>>) = c
    BY Written
  <2>3. toml' = <<c>> /\ dotenv' = dotenv /\ parted' = parted
        /\ writer' = o /\ blind' = (blind \/ toml # op[o].base)
    BY <1>4 DEF WriteEdit, Write
  <2>4. Shapes'
    BY <2>1, <2>2, <2>3, NothingIsNothing, PlacedShape DEF FilesInv, Shapes
  <2>5. CASE blind'
    BY <2>4, <2>5, BlindStep
  <2>6. CASE ~blind'
    <3>1. toml = op[o].base /\ ~blind
      BY <2>3, <2>6
    <3>2. /\ op'[o] = NoOp
          /\ \A p \in Operators \ {o} : op'[p] = op[p]
      BY <2>1, Placed DEF FilesInv
    <3>3. /\ c.settings = IF op[o].edit.do = "model"
                          THEN Read(toml).settings \cup {op[o].edit.setting}
                          ELSE Read(toml).settings
          /\ c.provider = Read(toml).provider /\ c.key = Read(toml).key
          /\ c.pool = Read(toml).pool
      BY <1>1, <1>2, <3>1, EditedEffect DEF IsEdit
    <3> HIDE DEF c
    <3>4. Read(toml') = c
      BY <2>2, <2>3
    <3>5. /\ ~Wrote(o)' /\ ~Switches(o)' /\ ~Switches(o)
          /\ \A p \in Operators \ {o} :
               /\ Wrote(p)' <=> Wrote(p)
               /\ Switches(p)' <=> Switches(p)
               /\ op'[p] = op[p]
      BY <1>1, <3>2, NothingIsNothing DEF Wrote, Switches
    <3>6. KeptInv'
      <4>1. Read(toml).settings \subseteq c.settings
        BY <3>3
      <4>2. acked \subseteq Read(toml).settings
        BY <3>1 DEF FilesInv, KeptInv
      <4>3. {op[o].edit.setting} \ {Default} \subseteq c.settings
        BY <1>1, <3>3 DEF IsEdit
      <4>4. acked' \subseteq Read(toml').settings
        BY <1>4, <3>4, <4>1, <4>2, <4>3
      <4>5. \A p \in Operators : Wrote(p)' => op'[p].setting \in Read(toml').settings
        BY <3>1, <3>4, <3>5, <4>1 DEF FilesInv, KeptInv
      <4> QED
        BY <2>3, <3>5, <4>4, <4>5 DEF KeptInv, Read
    <3>7. FitInv'
      <4> SUFFICES ASSUME ~parted'
                   PROVE  FitInv'
        BY DEF FitInv
      <4>1. ~parted
        BY <2>3, Zenon
      <4>2. Alike(Read(toml), Read(toml'))
        BY <3>3, <3>4 DEF Alike
      <4>3. (\A p \in Operators : ~Switches(p)') => Fits(toml', dotenv)
        BY <3>1, <3>5, <4>1, <4>2, AlikeFits DEF FilesInv, FitInv
      <4> QED
        BY <2>3, <3>5, <4>3 DEF FitInv, Fits, KeyOf, UpstreamOf, Read, Alike
    <3> QED
      BY <2>4, <3>6, <3>7 DEF FilesInv
  <2> QED
    BY <2>5, <2>6
<1> QED
  BY <1>3, <1>4 DEF WriteEdit

LEMMA KilledKeeps ==
  ASSUME FilesInv, NEW o \in Operators, Killed(o)
  PROVE  FilesInv'
<1>1. ~HasWritten(op[o])
  BY DEF Killed, InServer, HasWritten
<1>2. /\ Finish(o) /\ UNCHANGED <<toml, dotenv, acked, blind, writer>>
      /\ parted' = (parted \/ InSwitch(op[o]))
  BY DEF Killed, InSwitch
<1>3. CASE InSwitch(op[o])
  BY <1>1, <1>2, <1>3, PartedStep DEF Finish
<1>4. CASE ~InSwitch(op[o])
  <2>1. parted' = parted
    BY <1>2, <1>4 DEF FilesInv, Shapes
  <2> QED
    BY <1>2, <1>4, <2>1, FinishQuiet
<1> QED
  BY <1>3, <1>4

-----------------------------------------------------------------------------
(* What is counted of a key.                                               *)

\* What was admitted today with a key: what its current runtime counted, and
\* what it does not know of.
QuotaInv ==
  /\ daily \in [Secrets -> Seq(0 .. Quota)]
  /\ admitted \in [Secrets -> Int] /\ strayed \in [Secrets -> Int]
  /\ \A k \in Secrets :
       daily[k] # <<>> /\ admitted[k] = Snapshot(k) + strayed[k]
  /\ req = [r \in Requests |-> req[r]]
  /\ \A r \in Requests :
       \/ req[r] = NoRequest
       \/ /\ req[r] = [at |-> req[r].at, id |-> req[r].id,
                       runtime |-> req[r].runtime]
          /\ req[r].at \in {"matched", "held"}
          /\ req[r].id \in Secrets => req[r].runtime \in DOMAIN daily[req[r].id]

LEMMA SnapshotBounded ==
  ASSUME QuotaInv, NEW k \in Secrets
  PROVE  /\ Current(k) \in DOMAIN daily[k]
         /\ Snapshot(k) \in 0 .. Quota
<1>1. daily[k] \in Seq(0 .. Quota) /\ daily[k] # <<>>
  BY DEF QuotaInv
<1>2. PICK s : s = daily[k]
  OBVIOUS
<1>3. s \in Seq(0 .. Quota) /\ s # <<>>
  BY <1>1, <1>2
<1>4. Len(s) \in Nat /\ DOMAIN s = 1 .. Len(s)
  BY <1>3, LenProperties
<1>5. Len(s) # 0
  BY <1>3, EmptySeq
<1>6. Len(s) \in DOMAIN s
  BY <1>4, <1>5
<1>7. s[Len(s)] \in 0 .. Quota
  BY <1>3, <1>4, <1>6, ElementOfSeq
<1> QED
  BY <1>2, <1>6, <1>7 DEF Snapshot, Current

-----------------------------------------------------------------------------
(* The registry's own steps do not touch the files. *)

LEMMA StageKeepsFiles ==
  ASSUME FilesInv, QuotaInv, NEW o \in Operators, NEW file, NEW id, NEW says,
         NEW mirror, Stage(o, file, id, says, mirror),
         \A k \in id : id = {k}
  PROVE  FilesInv'
<1> DEFINE n == IF id = {} THEN 0 ELSE Snapshot(CHOOSE k \in id : TRUE)
           x == [kind |-> "keys", pc |-> "staged", file |-> file, id |-> id,
                 snapshot |-> n, says |-> says, mirror |-> mirror]
<1>1. \A k \in id \cap Secrets : n \in 0 .. Quota
  <2> SUFFICES ASSUME NEW k \in id, k \in Secrets
               PROVE  n \in 0 .. Quota
    OBVIOUS
  <2>1. n = Snapshot(k)
    OBVIOUS
  <2> QED
    BY <2>1, SnapshotBounded
<1>2. UNCHANGED <<toml, dotenv, acked, writer, blind, parted>> /\ Begin(o, x)
  BY DEF Stage, ghosts
<1> HIDE DEF n
<1>3. IsOp(x) /\ ~HasWritten(x) /\ ~InSwitch(x)
  BY <1>1 DEF IsOp, IsKeys, HasWritten, InSwitch
<1> QED
  BY <1>2, <1>3, BeginQuiet

LEMMA PersistKeepsFiles ==
  ASSUME FilesInv, NEW o \in Operators, Persist(o)
  PROVE  FilesInv'
<1>1. IsKeys(op[o]) /\ ~InSwitch(op[o])
  BY Kinds DEF FilesInv, Shapes, Persist, Doing, InSwitch
<1>2. UNCHANGED <<toml, dotenv, acked, writer, blind, parted>>
  BY DEF Persist, ghosts
<1>3. CASE Finish(o)
  BY <1>1, <1>2, <1>3, FinishQuiet
<1>4. CASE Goto(o, "persisted")
  <2> DEFINE x == [op[o] EXCEPT !.pc = "persisted"]
  <2>1. IsKeys(x)
    BY <1>1, GotoKeys
  <2>2. op' = [op EXCEPT ![o] = x]
    BY <1>4, GotoPlaces
  <2> HIDE DEF x
  <2>3. IsOp(x) /\ ~HasWritten(x) /\ ~InSwitch(x)
    BY <2>1 DEF IsOp, IsKeys, HasWritten, InSwitch
  <2> QED
    BY <1>1, <1>2, <2>2, <2>3, QuietStep
<1> QED
  BY <1>3, <1>4 DEF Persist

LEMMA CommitKeepsFiles ==
  ASSUME FilesInv, NEW o \in Operators, Commit(o)
  PROVE  FilesInv'
<1> DEFINE e == [kind |-> "edit", pc |-> "write", base |-> toml,
                 edit |-> RemoveTokens(op[o].mirror)]
<1>1. ~InSwitch(op[o])
  BY DEF Commit, Doing, InSwitch
<1>2. UNCHANGED <<toml, dotenv, acked, writer, blind, parted>>
  BY DEF Commit, ghosts
<1>3. CASE op' = [op EXCEPT ![o] = NoOp]
  BY <1>1, <1>2, <1>3, NothingIsNothing, QuietStep
<1>4. CASE op' = [op EXCEPT ![o] = e]
  <2>1. IsFile(toml)
    BY DEF FilesInv, Shapes
  <2>2. IsOp(e) /\ ~HasWritten(e) /\ ~InSwitch(e)
    BY <2>1 DEF IsOp, IsEdit, RemoveTokens, HasWritten, InSwitch
  <2> QED
    BY <1>1, <1>2, <1>4, <2>2, QuietStep
<1> QED
  BY <1>3, <1>4 DEF Commit

LEMMA GenerateTokensKeepsFiles ==
  ASSUME FilesInv, NEW o \in Operators, GenerateTokens(o)
  PROVE  FilesInv'
<1>1. PICK replace \in BOOLEAN :
        BeginEdit(o, SaveTokens(<<NextSecret>>, replace))
  BY DEF GenerateTokens
<1> DEFINE e == SaveTokens(<<NextSecret>>, replace)
<1>2. /\ e.do \in {"model", "append", "replace", "remove"}
      /\ e.do # "model" => e.setting = Default
  BY DEF SaveTokens
<1> HIDE DEF e
<1> QED
  BY <1>1, <1>2, BeginEditKeeps DEF e

LEMMA NewDayKeepsFiles ==
  ASSUME FilesInv, NewDay
  PROVE  FilesInv'
<1>1. UNCHANGED <<toml, dotenv, acked, writer, blind, parted>>
  BY DEF NewDay, ghosts
<1>2. ASSUME NEW p \in Operators
      PROVE  IsOp(op'[p]) /\ (GoesOn(op[p], op'[p])
               \/ (~HasWritten(op'[p]) /\ ~InSwitch(op'[p]) /\ ~InSwitch(op[p])))
  <2>1. CASE op[p].kind = "keys"
    <3> DEFINE y == [op[p] EXCEPT !.snapshot = 0]
    <3>1. IsKeys(op[p])
      BY <2>1, Kinds DEF FilesInv, Shapes
    <3>2. op'[p] = y
      BY <2>1 DEF NewDay
    <3>3. 0 \in 0 .. Quota
      BY ApiKeysAssumption
    <3>4. IsKeys(y)
      BY <3>1, <3>3 DEF IsKeys
    <3> HIDE DEF y
    <3> QED
      BY <2>1, <3>2, <3>4 DEF IsOp, IsKeys, HasWritten, InSwitch
  <2>2. CASE op[p].kind # "keys"
    <3>1. op'[p] = op[p]
      BY <2>2 DEF NewDay
    <3>2. IsOp(op[p])
      BY DEF FilesInv, Shapes
    <3>3. IsOp(op'[p])
      BY <3>1, <3>2
    <3>4. GoesOn(op[p], op'[p])
      BY <3>1 DEF GoesOn
    <3> QED
      BY <3>3, <3>4
  <2> QED
    BY <2>1, <2>2
<1>3. Aside
  BY <1>1, <1>2 DEF Aside
<1>4. Shapes'
  <2>1. op' = [p \in Operators |-> op'[p]]
    BY DEF NewDay
  <2>2. IsFile(toml)' /\ IsEnv(dotenv)' /\ parted' \in BOOLEAN
    BY <1>1 DEF FilesInv, Shapes, IsFile, IsContent, IsEnv, Env
  <2> QED
    BY <1>2, <2>1, <2>2 DEF Shapes
<1> QED
  BY <1>3, <1>4, AsideKeeps DEF FilesInv

LEMMA RestartKeepsFiles ==
  ASSUME FilesInv, Restart
  PROVE  FilesInv'
<1>1. UNCHANGED <<toml, dotenv, acked, writer, blind, parted>>
  BY DEF Restart, ghosts
<1>2. ASSUME NEW p \in Operators
      PROVE  IsOp(op'[p]) /\ (GoesOn(op[p], op'[p])
               \/ (~HasWritten(op'[p]) /\ ~InSwitch(op'[p]) /\ ~InSwitch(op[p])))
  <2>1. CASE InServer(p)
    <3>1. op'[p] = NoOp
      BY <2>1 DEF Restart
    <3>2. ~InSwitch(op[p])
      BY <2>1 DEF InServer, Doing, InSwitch
    <3> QED
      BY <3>1, <3>2, NothingIsNothing
  <2>2. CASE ~InServer(p)
    <3>1. op'[p] = op[p]
      BY <2>2 DEF Restart
    <3>2. IsOp(op[p])
      BY DEF FilesInv, Shapes
    <3>3. IsOp(op'[p])
      BY <3>1, <3>2
    <3>4. GoesOn(op[p], op'[p])
      BY <3>1 DEF GoesOn
    <3> QED
      BY <3>3, <3>4
  <2> QED
    BY <2>1, <2>2
<1>3. Aside
  BY <1>1, <1>2 DEF Aside
<1>4. Shapes'
  <2>1. op' = [p \in Operators |-> op'[p]]
    BY DEF Restart
  <2>2. IsFile(toml)' /\ IsEnv(dotenv)' /\ parted' \in BOOLEAN
    BY <1>1 DEF FilesInv, Shapes, IsFile, IsContent, IsEnv, Env
  <2> QED
    BY <1>2, <2>1, <2>2 DEF Shapes
<1> QED
  BY <1>3, <1>4, AsideKeeps DEF FilesInv

LEMMA InitFiles ==
  ASSUME Init
  PROVE  FilesInv
<1>1. PICK p \in Providers :
        /\ toml = <<[provider |-> p, key |-> p, pool |-> {p},
                     settings |-> {}, tokens |-> <<1, 2>>]>>
        /\ \/ dotenv = <<>>
           \/ \E k \in {p, Default} : dotenv = <<[provider |-> p, key |-> k]>>
  BY DEF Init
<1>2. /\ Read(toml).provider = p /\ Read(toml).key = p /\ Read(toml).pool = {p}
      /\ IsFile(toml)
  BY <1>1 DEF Read, IsFile, IsContent
<1>3. op = [o \in Operators |-> NoOp] /\ acked = {} /\ parted = FALSE
  BY DEF Init
<1>4. IsEnv(dotenv)
  BY <1>1 DEF IsEnv, Env, Upstream
<1>5. Shapes
  BY <1>2, <1>3, <1>4, NothingIsNothing DEF Shapes
<1>6. \A o \in Operators : ~Wrote(o) /\ ~Switches(o)
  BY <1>3, NothingIsNothing DEF Wrote, Switches
<1>7. KeptInv
  BY <1>3, <1>6 DEF KeptInv
<1>8. Fits(toml, dotenv)
  <2>1. CASE dotenv = <<>>
    BY <1>2, <2>1 DEF Fits, KeyOf, UpstreamOf
  <2>2. ASSUME NEW k \in {p, Default}, dotenv = <<[provider |-> p, key |-> k]>>
        PROVE  Fits(toml, dotenv)
    <3>1. dotenv # <<>> /\ dotenv[1].provider = p /\ dotenv[1].key = k
      BY <2>2
    <3> QED
      BY <1>2, <3>1 DEF Fits, KeyOf, UpstreamOf
  <2> QED
    BY <1>1, <2>1, <2>2
<1> QED
  BY <1>5, <1>6, <1>7, <1>8 DEF FilesInv, FitInv

-----------------------------------------------------------------------------
(* The counters.                                                           *)

LEMMA ChangedAt ==
  ASSUME NEW s \in Seq(0 .. Quota), NEW g \in DOMAIN s, NEW n \in 0 .. Quota
  PROVE  /\ [s EXCEPT ![g] = n] \in Seq(0 .. Quota)
         /\ Len([s EXCEPT ![g] = n]) = Len(s)
         /\ DOMAIN [s EXCEPT ![g] = n] = DOMAIN s
         /\ [s EXCEPT ![g] = n] # <<>>
<1>1. /\ [s EXCEPT ![g] = n] \in Seq(0 .. Quota)
      /\ Len([s EXCEPT ![g] = n]) = Len(s)
  BY ExceptSeq
<1>2. DOMAIN [s EXCEPT ![g] = n] = DOMAIN s
  OBVIOUS
<1>3. g \in DOMAIN [s EXCEPT ![g] = n]
  BY <1>2
<1>4. [s EXCEPT ![g] = n] # <<>>
  BY <1>3
<1> QED
  BY <1>1, <1>2, <1>4

LEMMA Appended ==
  ASSUME NEW S, NEW s \in Seq(S), NEW n \in S
  PROVE  /\ Append(s, n) \in Seq(S) /\ Append(s, n) # <<>>
         /\ Append(s, n)[Len(Append(s, n))] = n
         /\ DOMAIN s \subseteq DOMAIN Append(s, n)
<1>1. /\ Append(s, n) \in Seq(S) /\ Append(s, n) # <<>>
      /\ Len(Append(s, n)) = Len(s) + 1
      /\ Append(s, n)[Len(Append(s, n))] = n
  <2>1. /\ Append(s, n) \in Seq(S) /\ Append(s, n) # <<>>
        /\ Len(Append(s, n)) = Len(s) + 1
        /\ Append(s, n)[Len(s) + 1] = n
    BY AppendProperties
  <2> QED
    BY <2>1, Zenon
<1>2. /\ DOMAIN s = 1 .. Len(s) /\ Len(s) \in Nat
      /\ DOMAIN Append(s, n) = 1 .. Len(Append(s, n))
  BY <1>1, LenProperties
<1>3. DOMAIN s \subseteq DOMAIN Append(s, n)
  BY <1>1, <1>2
<1> QED
  BY <1>1, <1>3

LEMMA UncountedStep ==
  ASSUME QuotaInv, UNCHANGED <<daily, req, admitted, strayed>>
  PROVE  QuotaInv'
BY DEF QuotaInv, Snapshot, Current

LEMMA MatchCounts ==
  ASSUME QuotaInv, NEW r \in Requests, NEW s \in Secrets, Match(r, s)
  PROVE  QuotaInv'
<1>1. PICK i \in DOMAIN memory.keys :
        req' = [req EXCEPT ![r] =
                  [at |-> "matched", id |-> memory.keys[i].id,
                   runtime |-> Current(memory.keys[i].id)]]
  BY DEF Match
<1>2. PICK k : k = memory.keys[i].id
  OBVIOUS
<1> DEFINE x == [at |-> "matched", id |-> k, runtime |-> Current(k)]
<1>3. /\ req' = [p \in Requests |-> req'[p]] /\ req'[r] = x
      /\ \A p \in Requests \ {r} : req'[p] = req[p]
  BY <1>1, <1>2 DEF QuotaInv
<1>4. UNCHANGED <<daily, admitted, strayed>>
  BY DEF Match
<1>5. k \in Secrets => Current(k) \in DOMAIN daily[k]
  BY SnapshotBounded
<1>6. \A p \in Requests :
        \/ req'[p] = NoRequest
        \/ /\ req'[p] = [at |-> req'[p].at, id |-> req'[p].id,
                         runtime |-> req'[p].runtime]
           /\ req'[p].at \in {"matched", "held"}
           /\ req'[p].id \in Secrets => req'[p].runtime \in DOMAIN daily[req'[p].id]
  <2> TAKE p \in Requests
  <2>1. CASE p = r
    BY <1>3, <1>5, <2>1
  <2>2. CASE p # r
    BY <1>3, <2>2 DEF QuotaInv
  <2> QED
    BY <2>1, <2>2
<1>7. /\ (daily \in [Secrets -> Seq(0 .. Quota)])'
      /\ (admitted \in [Secrets -> Int] /\ strayed \in [Secrets -> Int])'
      /\ (\A j \in Secrets : daily[j] # <<>> /\ admitted[j] = Snapshot(j) + strayed[j])'
  BY <1>4 DEF QuotaInv, Snapshot, Current
<1> QED
  BY <1>3, <1>4, <1>6, <1>7 DEF QuotaInv

LEMMA ReleaseCounts ==
  ASSUME QuotaInv, NEW r \in Requests, Release(r)
  PROVE  QuotaInv'
<1>1. req' = [req EXCEPT ![r] = NoRequest] /\ UNCHANGED <<daily, admitted, strayed>>
  BY DEF Release
<1> QED
  BY <1>1 DEF QuotaInv, Snapshot, Current

LEMMA AdmitCounts ==
  ASSUME QuotaInv, NEW r \in Requests, Admit(r)
  PROVE  QuotaInv'
<1>1. CASE ~Admissible(req[r].id, req[r].runtime)
  <2>1. /\ req' = [req EXCEPT ![r] = NoRequest]
        /\ UNCHANGED <<daily, admitted, strayed>>
    BY <1>1 DEF Admit
  <2> QED
    BY <2>1 DEF QuotaInv, Snapshot, Current
<1>2. CASE Admissible(req[r].id, req[r].runtime)
  <2>1. PICK k, g : k = req[r].id /\ g = req[r].runtime
    OBVIOUS
  <2>2. /\ req[r] = [at |-> "matched", id |-> k, runtime |-> g]
        /\ k \in Secrets => g \in DOMAIN daily[k]
    BY <2>1 DEF QuotaInv, Admit, NoRequest
  <2>3. /\ req' = [req EXCEPT ![r].at = "held"]
        /\ daily' = [daily EXCEPT ![k][g] = @ + 1]
        /\ admitted' = [admitted EXCEPT ![k] = @ + 1]
        /\ strayed' = [strayed EXCEPT ![k] = IF g = Current(k) THEN @ ELSE @ + 1]
        /\ daily[k][g] < Quota
    BY <1>2, <2>1 DEF Admit, Admissible
  <2>4. /\ req' = [p \in Requests |-> req'[p]]
        /\ req'[r] = [at |-> "held", id |-> k, runtime |-> g]
        /\ \A p \in Requests \ {r} : req'[p] = req[p]
    <3>1. [req[r] EXCEPT !.at = "held"] = [at |-> "held", id |-> k, runtime |-> g]
      BY <2>2
    <3>2. req' = [req EXCEPT ![r] = [req[r] EXCEPT !.at = "held"]]
      BY <2>3
    <3> QED
      BY <3>1, <3>2 DEF QuotaInv
  <2>5. CASE k \notin Secrets
    <3>1. UNCHANGED <<daily, admitted, strayed>>
      BY <2>3, <2>5 DEF QuotaInv
    <3> QED
      BY <2>4, <2>5, <3>1 DEF QuotaInv, Snapshot, Current
  <2>6. CASE k \in Secrets
    <3>1. PICK s : s = daily[k]
      OBVIOUS
    <3>2. s \in Seq(0 .. Quota) /\ g \in DOMAIN s /\ s[g] < Quota
      BY <2>2, <2>3, <2>6, <3>1 DEF QuotaInv
    <3>3. s[g] \in 0 .. Quota /\ g \in 1 .. Len(s)
      BY <3>2, ElementOfSeq, LenProperties
    <3>4. s[g] + 1 \in 0 .. Quota
      BY <3>2, <3>3, ApiKeysAssumption
    <3> DEFINE t == [s EXCEPT ![g] = s[g] + 1]
    <3>5. /\ t \in Seq(0 .. Quota) /\ Len(t) = Len(s)
          /\ DOMAIN t = DOMAIN s /\ t # <<>>
      BY <3>2, <3>4, ChangedAt
    <3>6. t[g] = s[g] + 1 /\ \A h \in DOMAIN s \ {g} : t[h] = s[h]
      BY <3>2
    <3>7. daily' = [daily EXCEPT ![k] = t]
      BY <2>3, <3>1
    <3> HIDE DEF t
    <3>8. daily' \in [Secrets -> Seq(0 .. Quota)]
      BY <2>6, <3>5, <3>7 DEF QuotaInv
    <3>9. daily'[k] = t /\ \A j \in Secrets \ {k} : daily'[j] = daily[j]
      BY <2>6, <3>7 DEF QuotaInv
    <3>10. \A j \in Secrets : DOMAIN daily'[j] = DOMAIN daily[j]
      BY <3>1, <3>5, <3>9
    <3>11. /\ admitted' \in [Secrets -> Int] /\ strayed' \in [Secrets -> Int]
           /\ \A j \in Secrets \ {k} : admitted'[j] = admitted[j]
                                       /\ strayed'[j] = strayed[j]
           /\ admitted'[k] = admitted[k] + 1
           /\ strayed'[k] = IF g = Current(k) THEN strayed[k] ELSE strayed[k] + 1
      BY <2>3, <2>6 DEF QuotaInv
    <3>12. admitted'[k] = t[Len(t)] + strayed'[k]
      <4>1. /\ admitted[k] = s[Len(s)] + strayed[k] /\ Current(k) = Len(s)
            /\ admitted[k] \in Int /\ strayed[k] \in Int
        BY <2>6, <3>1 DEF QuotaInv, Snapshot, Current
      <4>2. Len(s) \in DOMAIN s /\ s[Len(s)] \in 0 .. Quota
        BY <2>6, <3>1, SnapshotBounded DEF Snapshot, Current
      <4>3. CASE g = Len(s)
        <5>1. t[Len(t)] = s[Len(s)] + 1
          BY <3>5, <3>6, <4>3
        <5>2. strayed'[k] = strayed[k]
          BY <3>11, <4>1, <4>3
        <5>3. admitted'[k] = (s[Len(s)] + strayed[k]) + 1
          BY <3>11, <4>1
        <5> QED
          BY <4>1, <4>2, <5>1, <5>2, <5>3
      <4>4. CASE g # Len(s)
        <5>1. t[Len(t)] = s[Len(s)]
          BY <3>5, <3>6, <4>2, <4>4
        <5>2. strayed'[k] = strayed[k] + 1
          BY <3>11, <4>1, <4>4
        <5>3. admitted'[k] = (s[Len(s)] + strayed[k]) + 1
          BY <3>11, <4>1
        <5> QED
          BY <4>1, <4>2, <5>1, <5>2, <5>3
      <4> QED
        BY <4>3, <4>4
    <3>13. \A j \in Secrets : daily'[j] # <<>> /\ admitted'[j] = Snapshot(j)' + strayed'[j]
      <4> TAKE j \in Secrets
      <4>1. Snapshot(j)' = daily'[j][Len(daily'[j])]
        BY DEF Snapshot, Current
      <4>2. CASE j = k
        BY <3>5, <3>9, <3>12, <4>1, <4>2
      <4>3. CASE j # k
        BY <3>9, <3>11, <4>1, <4>3 DEF QuotaInv, Snapshot, Current
      <4> QED
        BY <4>2, <4>3
    <3>14. ASSUME NEW p \in Requests
           PROVE  \/ req'[p] = NoRequest
                  \/ /\ req'[p] = [at |-> req'[p].at, id |-> req'[p].id,
                                   runtime |-> req'[p].runtime]
                     /\ req'[p].at \in {"matched", "held"}
                     /\ req'[p].id \in Secrets =>
                          req'[p].runtime \in DOMAIN daily'[req'[p].id]
      <4>1. CASE p = r
        BY <2>2, <2>4, <3>10, <4>1
      <4>2. CASE p # r
        BY <2>4, <3>10, <4>2 DEF QuotaInv
      <4> QED
        BY <4>1, <4>2
    <3> QED
      BY <2>4, <3>8, <3>11, <3>13, <3>14 DEF QuotaInv
  <2> QED
    BY <2>5, <2>6
<1> QED
  BY <1>1, <1>2

LEMMA CommitCounts ==
  ASSUME FilesInv, QuotaInv, NEW o \in Operators, Commit(o)
  PROVE  QuotaInv'
<1>1. PICK fresh, n : fresh = op[o].id /\ n = op[o].snapshot
  OBVIOUS
<1>2. \A k \in fresh \cap Secrets : n \in 0 .. Quota
  BY <1>1, Kinds DEF FilesInv, Shapes, Commit, Doing, IsKeys
<1>3. /\ daily' = [k \in Secrets |-> IF k \in fresh THEN Append(daily[k], n)
                                     ELSE daily[k]]
      /\ strayed' = [k \in Secrets |-> IF k \in fresh
                                       THEN strayed[k] + Snapshot(k) - n
                                       ELSE strayed[k]]
      /\ UNCHANGED <<req, admitted>>
  BY <1>1 DEF Commit, Resumed
<1>4. ASSUME NEW k \in Secrets
      PROVE  /\ daily'[k] \in Seq(0 .. Quota) /\ daily'[k] # <<>>
             /\ DOMAIN daily[k] \subseteq DOMAIN daily'[k]
             /\ strayed'[k] \in Int
             /\ admitted'[k] = daily'[k][Len(daily'[k])] + strayed'[k]
  <2>1. /\ daily[k] \in Seq(0 .. Quota) /\ daily[k] # <<>>
        /\ admitted[k] = Snapshot(k) + strayed[k]
        /\ admitted[k] \in Int /\ strayed[k] \in Int /\ admitted'[k] = admitted[k]
    BY <1>3 DEF QuotaInv
  <2>2. Snapshot(k) \in Int
    BY SnapshotBounded, ApiKeysAssumption
  <2>3. CASE k \in fresh
    <3>1. n \in 0 .. Quota /\ n \in Int
      BY <1>2, <2>3, ApiKeysAssumption
    <3>2. PICK s : s = daily[k]
      OBVIOUS
    <3>3. daily'[k] = Append(s, n) /\ strayed'[k] = strayed[k] + Snapshot(k) - n
      BY <1>3, <2>3, <3>2
    <3>4. s \in Seq(0 .. Quota)
      BY <2>1, <3>2
    <3>5. /\ Append(s, n) \in Seq(0 .. Quota) /\ Append(s, n) # <<>>
          /\ Append(s, n)[Len(Append(s, n))] = n
          /\ DOMAIN s \subseteq DOMAIN Append(s, n)
      BY <3>1, <3>4, Appended
    <3>6. daily'[k][Len(daily'[k])] = n
      BY <3>3, <3>5
    <3>7. strayed'[k] \in Int /\ admitted'[k] = n + strayed'[k]
      BY <2>1, <2>2, <3>1, <3>3
    <3> QED
      BY <3>2, <3>3, <3>5, <3>6, <3>7
  <2>4. CASE k \notin fresh
    <3>1. daily'[k] = daily[k] /\ strayed'[k] = strayed[k]
      BY <1>3, <2>4
    <3> QED
      BY <2>1, <3>1 DEF Snapshot, Current
  <2> QED
    BY <2>3, <2>4
<1>5. (daily \in [Secrets -> Seq(0 .. Quota)])'
  BY <1>3, <1>4
<1>6. (admitted \in [Secrets -> Int] /\ strayed \in [Secrets -> Int])'
  BY <1>3, <1>4 DEF QuotaInv
<1>7. (\A k \in Secrets : daily[k] # <<>> /\ admitted[k] = Snapshot(k) + strayed[k])'
  BY <1>4 DEF Snapshot, Current
<1>8. ASSUME NEW p \in Requests
      PROVE  \/ req'[p] = NoRequest
             \/ /\ req'[p] = [at |-> req'[p].at, id |-> req'[p].id,
                              runtime |-> req'[p].runtime]
                /\ req'[p].at \in {"matched", "held"}
                /\ req'[p].id \in Secrets =>
                     req'[p].runtime \in DOMAIN daily'[req'[p].id]
  <2>1. \A k \in Secrets : DOMAIN daily[k] \subseteq DOMAIN daily'[k]
    BY <1>4
  <2> QED
    BY <1>3, <2>1 DEF QuotaInv
<1> QED
  BY <1>3, <1>5, <1>6, <1>7, <1>8 DEF QuotaInv

LEMMA NewDayCounts ==
  ASSUME QuotaInv, NewDay
  PROVE  QuotaInv'
<1>1. /\ daily' = [k \in Secrets |-> [g \in DOMAIN daily[k] |-> 0]]
      /\ admitted' = [k \in Secrets |-> 0] /\ strayed' = [k \in Secrets |-> 0]
      /\ req' = req
  BY DEF NewDay
<1>2. ASSUME NEW k \in Secrets
      PROVE  /\ daily'[k] \in Seq(0 .. Quota) /\ daily'[k] # <<>>
             /\ DOMAIN daily'[k] = DOMAIN daily[k]
             /\ daily'[k][Len(daily'[k])] = 0
  <2>1. PICK s : s = daily[k]
    OBVIOUS
  <2>2. s \in Seq(0 .. Quota) /\ Len(s) \in DOMAIN s
    BY <2>1, SnapshotBounded DEF QuotaInv, Current
  <2>3. Len(s) \in Nat /\ DOMAIN s = 1 .. Len(s) /\ 0 \in 0 .. Quota
    BY <2>2, LenProperties, ApiKeysAssumption
  <2> DEFINE t == [g \in 1 .. Len(s) |-> 0]
  <2>4. t \in Seq(0 .. Quota) /\ DOMAIN t = 1 .. Len(s) /\ Len(t) = Len(s)
    BY <2>3
  <2>5. daily'[k] = t
    BY <1>1, <2>1, <2>3
  <2>6. t[Len(t)] = 0
    BY <2>2, <2>3, <2>4
  <2>7. t # <<>>
    BY <2>2, <2>3, <2>4
  <2> HIDE DEF t
  <2> QED
    BY <2>1, <2>3, <2>4, <2>5, <2>6, <2>7
<1>3. (daily \in [Secrets -> Seq(0 .. Quota)])'
  <2>1. daily' = [k \in Secrets |-> daily'[k]]
    BY <1>1
  <2>2. PICK D : D = Seq(0 .. Quota)
    OBVIOUS
  <2>3. \A k \in Secrets : daily'[k] \in D
    BY <1>2, <2>2
  <2>4. daily' \in [Secrets -> D]
    BY <2>1, <2>3
  <2> QED
    BY <2>2, <2>4, Zenon
<1>4. (\A k \in Secrets : daily[k] # <<>> /\ admitted[k] = Snapshot(k) + strayed[k])'
  <2>1. ASSUME NEW k \in Secrets
        PROVE  daily'[k] # <<>> /\ admitted'[k] = Snapshot(k)' + strayed'[k]
    <3>1. admitted'[k] = 0 /\ strayed'[k] = 0
      BY <1>1
    <3>2. Snapshot(k)' = 0
      BY <1>2, Zenon DEF Snapshot, Current
    <3> QED
      BY <1>2, <3>1, <3>2
  <2> QED
    BY <2>1
<1>5. (admitted \in [Secrets -> Int] /\ strayed \in [Secrets -> Int])'
  BY <1>1
<1>6. ASSUME NEW p \in Requests
      PROVE  \/ req'[p] = NoRequest
             \/ /\ req'[p] = [at |-> req'[p].at, id |-> req'[p].id,
                              runtime |-> req'[p].runtime]
                /\ req'[p].at \in {"matched", "held"}
                /\ req'[p].id \in Secrets =>
                     req'[p].runtime \in DOMAIN daily'[req'[p].id]
  BY <1>1, <1>2 DEF QuotaInv
<1> QED
  BY <1>1, <1>3, <1>4, <1>5, <1>6 DEF QuotaInv

LEMMA FreshCounts ==
  ASSUME daily = [k \in Secrets |-> << 0 >>], req = [r \in Requests |-> NoRequest],
         admitted = [k \in Secrets |-> 0], strayed = [k \in Secrets |-> 0]
  PROVE  QuotaInv
<1>1. <<0>> \in Seq(0 .. Quota) /\ <<0>> # <<>> /\ Len(<<0>>) = 1 /\ <<0>>[1] = 0
  BY ApiKeysAssumption
<1>2. \A k \in Secrets : Snapshot(k) = 0
  BY <1>1 DEF Snapshot, Current
<1> QED
  BY <1>1, <1>2 DEF QuotaInv

LEMMA RestartCounts ==
  ASSUME Restart
  PROVE  QuotaInv'
<1>1. /\ daily' = [k \in Secrets |-> <<0>>]
      /\ req' = [r \in Requests |-> NoRequest]
      /\ admitted' = [k \in Secrets |-> 0] /\ strayed' = [k \in Secrets |-> 0]
  BY DEF Restart
<1>2. <<0>> \in Seq(0 .. Quota) /\ <<0>> # <<>> /\ Len(<<0>>) = 1 /\ <<0>>[1] = 0
  BY ApiKeysAssumption
<1>3. \A k \in Secrets : Snapshot(k)' = 0
  BY <1>1, <1>2 DEF Snapshot, Current
<1> QED
  BY <1>1, <1>2, <1>3 DEF QuotaInv

-----------------------------------------------------------------------------
KeysInv == FilesInv /\ QuotaInv

LEMMA ConfigureKeepsFiles ==
  ASSUME FilesInv, NEW o \in Operators, Configure(o)
  PROVE  FilesInv'
<1>1. ASSUME NEW s \in Settings, BeginEdit(o, SetModel(s))
      PROVE  FilesInv'
  <2> DEFINE e == SetModel(s)
  <2>1. e.do = "model"
    BY DEF SetModel
  <2> HIDE DEF e
  <2> QED
    BY <1>1, <2>1, BeginEditKeeps DEF e
<1> QED
  BY <1>1, PreviewKeeps, RememberKeeps, WriteMergedKeeps, ReadBackKeeps,
     RollbackKeeps, BeginSwitchKeeps, WriteSwitchedTomlKeeps,
     WriteSwitchedEnvKeeps, UndoSwitchKeeps, WriteEditKeeps, KilledKeeps
     DEF Configure

LEMMA AdministerKeeps ==
  ASSUME KeysInv, NEW o \in Operators, Administer(o)
  PROVE  KeysInv'
<1>1. ASSUME NEW file, NEW id, NEW says, NEW mirror,
             Stage(o, file, id, says, mirror), \A k \in id : id = {k}
      PROVE  KeysInv'
  BY <1>1, StageKeepsFiles, UncountedStep DEF KeysInv, Stage
<1>2. ASSUME NEW replace \in BOOLEAN, StageCreate(o, replace)
      PROVE  KeysInv'
  BY <1>1, <1>2 DEF StageCreate
<1>3. ASSUME NEW id, NEW status \in Status, StageUpdate(o, id, status)
      PROVE  KeysInv'
  BY <1>1, <1>3 DEF StageUpdate
<1>4. ASSUME NEW id, StageRotate(o, id)
      PROVE  KeysInv'
  BY <1>1, <1>4 DEF StageRotate
<1>5. ASSUME NEW id, StageDelete(o, id)
      PROVE  KeysInv'
  BY <1>1, <1>5 DEF StageDelete
<1>6. ASSUME NEW indices, StageRevokeListed(o, indices)
      PROVE  KeysInv'
  BY <1>1, <1>6 DEF StageRevokeListed
<1>7. CASE Persist(o)
  BY <1>7, PersistKeepsFiles, UncountedStep DEF KeysInv, Persist
<1>8. CASE Commit(o)
  BY <1>8, CommitKeepsFiles, CommitCounts DEF KeysInv
<1> QED
  BY <1>2, <1>3, <1>4, <1>5, <1>6, <1>7, <1>8 DEF Administer

LEMMA UseKeeps ==
  ASSUME KeysInv, NEW r \in Requests, Use(r)
  PROVE  KeysInv'
<1>1. UNCHANGED configVars
  BY DEF Use, Match, Admit, Release
<1>2. FilesInv'
  BY <1>1, UnchangedFiles DEF KeysInv
<1>3. QuotaInv'
  BY MatchCounts, AdmitCounts, ReleaseCounts DEF KeysInv, Use
<1> QED
  BY <1>2, <1>3 DEF KeysInv

LEMMA InitKeys == Init => KeysInv
BY InitFiles, FreshCounts DEF Init, KeysInv

LEMMA NextKeepsKeys == KeysInv /\ [Next]_vars => KeysInv'
<1> SUFFICES ASSUME KeysInv, [Next]_vars
             PROVE  KeysInv'
  OBVIOUS
<1>1. ASSUME NEW o \in Operators, GenerateTokens(o)
      PROVE  KeysInv'
  BY <1>1, GenerateTokensKeepsFiles, UncountedStep DEF KeysInv, GenerateTokens
<1>2. ASSUME NEW o \in Operators, Configure(o)
      PROVE  KeysInv'
  <2>1. UNCHANGED keyVars
    BY <1>2 DEF Configure
  <2> QED
    BY <1>2, <2>1, ConfigureKeepsFiles, UncountedStep DEF KeysInv, keyVars
<1>3. CASE NewDay
  BY <1>3, NewDayKeepsFiles, NewDayCounts DEF KeysInv
<1>4. CASE Restart
  BY <1>4, RestartKeepsFiles, RestartCounts DEF KeysInv
<1>5. CASE UNCHANGED vars
  BY <1>5, UnchangedFiles, UncountedStep DEF KeysInv, vars, keyVars
<1> QED
  BY <1>1, <1>2, <1>3, <1>4, <1>5, AdministerKeeps, UseKeeps DEF Next

(* An edit of the configuration file that was answered with success stays in
   it, whatever the other writers do and whichever of them are rolled back or
   killed, as long as nobody replaced content it had not read. *)
THEOREM UncontestedAppliesKept == Spec => []UncontestedApplyKept
<1>1. KeysInv => UncontestedApplyKept
  BY DEF KeysInv, FilesInv, KeptInv, UncontestedApplyKept
<1> QED
  BY <1>1, InitKeys, NextKeepsKeys, PTL DEF Spec

(* Every configured key belongs to the configured upstream, outside the two
   writes of a provider switch: provider switches, complete documents that are
   applied, their rollbacks and the other edits keep it so, unless a switch was
   abandoned between its writes, a document named only part of a provider, or a
   writer replaced what it had not read. *)
THEOREM KeysBelongToUpstream == Spec => []KeysFitUpstream
<1>1. KeysInv => KeysFitUpstream
  <2> SUFFICES ASSUME KeysInv, ~blind, ~parted, ~Switching
               PROVE  EffectiveKeys \subseteq {EffectiveUpstream}
    BY DEF KeysFitUpstream, KeysFit
  <2>1. \A o \in Operators : ~Switches(o)
    BY DEF Switching, Switches, InSwitch
  <2>2. Fits(toml, dotenv)
    BY <2>1 DEF KeysInv, FilesInv, FitInv
  <2> QED
    BY <2>2 DEF Fits, KeyOf, UpstreamOf, EffectiveKeys, EffectiveUpstream, SingleKey
<1> QED
  BY <1>1, InitKeys, NextKeepsKeys, PTL DEF Spec

(* Whatever replaces a key's runtime, the day's requests with the key exceed
   its quota by no more than the requests that were matched before. *)
THEOREM QuotasCarryOver == Spec => []QuotaCarriesOver
<1>1. KeysInv => QuotaCarriesOver
  <2> SUFFICES ASSUME QuotaInv, NEW k \in Secrets
               PROVE  admitted[k] <= Quota + strayed[k]
    BY DEF KeysInv, QuotaCarriesOver
  <2>1. Snapshot(k) \in 0 .. Quota /\ Quota \in Nat
    BY SnapshotBounded, ApiKeysAssumption
  <2>2. admitted[k] = Snapshot(k) + strayed[k] /\ strayed[k] \in Int
    BY DEF QuotaInv
  <2> QED
    BY <2>1, <2>2
<1> QED
  BY <1>1, InitKeys, NextKeepsKeys, PTL DEF Spec

-----------------------------------------------------------------------------
(* Recursion over the naturals up to a bound.                              *)

LEMMA Induction ==
  ASSUME NEW S, 0 \in S, \A n \in Nat : n \in S => n + 1 \in S
  PROVE  Nat \subseteq S
<1> DEFINE missing == Nat \ S
<1> SUFFICES ASSUME missing # {} PROVE FALSE
  OBVIOUS
<1>1. PICK least \in missing :
        \A m \in missing : ~(<<m, least>> \in OpToRel(<, Nat))
  BY NatLessThanWellFounded, WFMin, missing \subseteq Nat
<1>2. \A m \in missing : ~(m < least)
  BY <1>1 DEF OpToRel
<1>3. least \in Nat /\ least # 0 /\ least - 1 \in Nat /\ least - 1 < least
  OBVIOUS
<1>4. least - 1 \in S
  BY <1>2, <1>3
<1>5. (least - 1) + 1 = least
  BY <1>3
<1> QED
  BY <1>3, <1>4, <1>5

\* f is built from a by the functions G[1], G[2], ...
Solves(f, m, a, G) ==
  \A n \in 0 .. m : f[n] = IF n = 0 THEN a ELSE G[n][f[n - 1]]

LEMMA RecursionStep ==
  ASSUME NEW S, NEW a \in S, NEW m \in Nat, NEW G, G[m + 1] \in [S -> S],
         NEW f \in [0 .. m -> S], Solves(f, m, a, G)
  PROVE  \E g \in [0 .. m + 1 -> S] : Solves(g, m + 1, a, G)
<1> DEFINE h == G[m + 1]
           last == h[f[m]]
           g == [n \in 0 .. m + 1 |-> IF n = m + 1 THEN last ELSE f[n]]
<1>1. m \in 0 .. m /\ f[m] \in S
  OBVIOUS
<1>2. last \in S
  BY <1>1
<1> HIDE DEF last
<1>3. g \in [0 .. m + 1 -> S]
  BY <1>2
<1>4. g[m + 1] = last
  OBVIOUS
<1>5. \A n \in 0 .. m : g[n] = f[n]
  OBVIOUS
<1> HIDE DEF g
<1>6. ASSUME NEW n \in 0 .. m + 1
      PROVE  g[n] = IF n = 0 THEN a ELSE G[n][g[n - 1]]
  <2>1. CASE n = m + 1
    <3>1. n # 0 /\ n - 1 = m /\ m \in 0 .. m
      BY <2>1
    <3>2. g[n - 1] = f[m]
      BY <1>5, <3>1
    <3> QED
      BY <1>4, <2>1, <3>1, <3>2 DEF last
  <2>2. CASE n \in 1 .. m
    <3>1. n \in 0 .. m /\ n - 1 \in 0 .. m /\ n # 0
      BY <2>2
    <3>2. g[n] = f[n] /\ g[n - 1] = f[n - 1]
      BY <1>5, <3>1
    <3>3. f[n] = G[n][f[n - 1]]
      BY <3>1 DEF Solves
    <3> QED
      BY <3>1, <3>2, <3>3
  <2>3. CASE n = 0
    <3>1. 0 \in 0 .. m
      OBVIOUS
    <3>2. g[0] = f[0] /\ f[0] = a
      BY <1>5, <3>1 DEF Solves
    <3> QED
      BY <2>3, <3>2
  <2>4. n = m + 1 \/ n = 0 \/ n \in 1 .. m
    OBVIOUS
  <2> QED
    BY <2>1, <2>2, <2>3, <2>4
<1> QED
  BY <1>3, <1>6 DEF Solves

LEMMA Recursion ==
  ASSUME NEW N \in Nat, NEW S, NEW a \in S, NEW G,
         \A n \in 1 .. N : G[n] \in [S -> S]
  PROVE  \E f \in [0 .. N -> S] : Solves(f, N, a, G)
<1> DEFINE good == {m \in Nat : m <= N => \E f \in [0 .. m -> S] : Solves(f, m, a, G)}
<1>1. 0 \in good
  <2> DEFINE first == [n \in 0 .. 0 |-> a]
  <2>1. first \in [0 .. 0 -> S]
    OBVIOUS
  <2>2. Solves(first, 0, a, G)
    BY DEF Solves
  <2> HIDE DEF first
  <2> QED
    BY <2>1, <2>2
<1>2. ASSUME NEW m \in Nat, m \in good PROVE m + 1 \in good
  <2> SUFFICES ASSUME m + 1 <= N
               PROVE  \E g \in [0 .. m + 1 -> S] : Solves(g, m + 1, a, G)
    OBVIOUS
  <2>1. m <= N /\ m + 1 \in 1 .. N
    OBVIOUS
  <2>2. PICK f \in [0 .. m -> S] : Solves(f, m, a, G)
    BY <1>2, <2>1
  <2> QED
    BY <2>1, <2>2, RecursionStep
<1>3. N \in good
  <2> HIDE DEF good
  <2> QED
    BY <1>1, <1>2, Induction
<1> QED
  BY <1>3

-----------------------------------------------------------------------------
(* What is picked of a sequence.                                           *)

\* kept[n] is what is picked of the first n.
Picking(kept, s, positions) ==
  /\ kept[0] = <<>>
  /\ \A n \in 1 .. Len(s) :
       kept[n] = IF n \in positions THEN Append(kept[n - 1], s[n]) ELSE kept[n - 1]
  /\ Picked(s, positions) = kept[Len(s)]

LEMMA PickedStep ==
  ASSUME NEW X, NEW s \in Seq(X), NEW positions
  PROVE  \E kept \in [0 .. Len(s) -> Seq(X)] : Picking(kept, s, positions)
<1> DEFINE N == Len(s)
           Grown(n, t) == IF n \in positions THEN Append(t, s[n]) ELSE t
           G == [n \in 1 .. N |-> [t \in Seq(X) |-> Grown(n, t)]]
           Rule(f) == [n \in 0 .. N |->
                         IF n = 0 THEN <<>>
                         ELSE IF n \in positions THEN Append(f[n - 1], s[n]) ELSE f[n - 1]]
           kept == CHOOSE f : f = Rule(f)
<1>1. N \in Nat /\ \A n \in 1 .. N : s[n] \in X
  BY LenProperties, ElementOfSeq
<1>2. \A n \in 1 .. N : G[n] \in [Seq(X) -> Seq(X)]
  <2> SUFFICES ASSUME NEW n \in 1 .. N, NEW t \in Seq(X)
               PROVE  Grown(n, t) \in Seq(X)
    BY Zenon
  <2>1. Append(t, s[n]) \in Seq(X)
    BY <1>1, AppendProperties
  <2> QED
    BY <2>1
<1>3. <<>> \in Seq(X)
  BY EmptySeq
<1>4. PICK f \in [0 .. N -> Seq(X)] : Solves(f, N, <<>>, G)
  <2> HIDE DEF G, N
  <2> QED
    BY <1>1, <1>2, <1>3, Recursion
<1>5. \A n \in 0 .. N :
        f[n] = IF n = 0 THEN <<>>
               ELSE IF n \in positions THEN Append(f[n - 1], s[n]) ELSE f[n - 1]
  <2> SUFFICES ASSUME NEW n \in 0 .. N
               PROVE  f[n] = IF n = 0 THEN <<>> ELSE Grown(n, f[n - 1])
    OBVIOUS
  <2>1. f[n] = IF n = 0 THEN <<>> ELSE G[n][f[n - 1]]
    BY <1>4 DEF Solves
  <2>2. ASSUME n # 0
        PROVE  G[n][f[n - 1]] = Grown(n, f[n - 1])
    <3>1. n \in 1 .. N /\ n - 1 \in 0 .. N
      BY <1>1, <2>2
    <3>2. f[n - 1] \in Seq(X)
      BY <3>1
    <3> HIDE DEF Grown
    <3> QED
      BY <3>1, <3>2, Zenon
  <2> QED
    BY <2>1, <2>2
<1> HIDE DEF G, Grown
<1>6. f = Rule(f)
  BY <1>5
<1>7. kept = Rule(kept)
  BY <1>6
<1>8. Picked(s, positions) = kept[N]
  BY DEF Picked
<1> HIDE DEF kept
<1>9. \A n \in 0 .. N :
        kept[n] = IF n = 0 THEN <<>>
                  ELSE IF n \in positions THEN Append(kept[n - 1], s[n]) ELSE kept[n - 1]
  BY <1>7
<1>10. kept[0] = <<>>
  BY <1>1, <1>9
<1>11. \A n \in 1 .. N :
        kept[n] = IF n \in positions THEN Append(kept[n - 1], s[n]) ELSE kept[n - 1]
  BY <1>1, <1>9
<1>12. \A n \in 0 .. N : kept[n] \in Seq(X)
  <2> DEFINE good == {n \in Nat : n <= N => kept[n] \in Seq(X)}
  <2>1. 0 \in good
    BY <1>3, <1>10
  <2>2. ASSUME NEW n \in Nat, n \in good PROVE n + 1 \in good
    <3> SUFFICES ASSUME n + 1 <= N PROVE kept[n + 1] \in Seq(X)
      OBVIOUS
    <3>1. n <= N /\ n + 1 \in 1 .. N /\ (n + 1) - 1 = n
      BY <1>1
    <3>2. kept[n] \in Seq(X)
      BY <2>2, <3>1
    <3>3. Append(kept[n], s[n + 1]) \in Seq(X)
      BY <1>1, <3>1, <3>2, AppendProperties
    <3> QED
      BY <1>11, <3>1, <3>2, <3>3
  <2>3. Nat \subseteq good
    <3> HIDE DEF good
    <3> QED
      BY <2>1, <2>2, Induction
  <2> QED
    BY <1>1, <2>3
<1>13. kept \in [0 .. N -> Seq(X)]
  <2>1. kept = [n \in 0 .. N |-> kept[n]]
    BY <1>7
  <2> QED
    BY <1>12, <2>1
<1> QED
  BY <1>8, <1>10, <1>11, <1>13 DEF Picking
-----------------------------------------------------------------------------
(* What answered operations said of the credentials.  L holds every legacy *)
(* credential that ever was in the configuration file, n is how many       *)
(* credentials were issued.                                                *)

KeyRecord == [id : Nat, secret : Nat, status : Status, legacy : BOOLEAN]

\* A registry whose legacy records are those of L: whatever was legacy and no
\* longer is cannot be imported again.
Sound(file, L, n) ==
  /\ file = [keys |-> file.keys, suppressed |-> file.suppressed]
  /\ file.keys \in Seq(KeyRecord)
  /\ \A i \in DOMAIN file.keys :
       LET k == file.keys[i] IN
       /\ k.id \in 1 .. n /\ k.secret \in 1 .. n
       /\ k.legacy => k.secret \in L /\ k.id = k.secret
       /\ ~k.legacy => k.secret \notin L
       /\ k.id \in L => k.id = k.secret \/ k.id \in file.suppressed
       /\ \A j \in DOMAIN file.keys \ {i} :
            file.keys[j].id # k.id /\ file.keys[j].secret # k.secret

Shown(status) == IF status = "revoked" THEN "out" ELSE status

\* A registry that agrees with what was said, and goes on to after an import.
Settled(file, L, n, says) ==
  \A s \in Secrets : says[s] # "undecided" =>
    /\ s \in 1 .. n
    /\ \A i \in DOMAIN file.keys :
         file.keys[i].secret = s => Shown(file.keys[i].status) = says[s]
    /\ ~Has(file, s) => says[s] = "out" /\ (s \in file.suppressed \/ s \notin L)

Rooted(f, L) == Read(f).tokens \in Seq(L)

RootedOp(x, L) ==
  /\ x.kind = "apply" => Rooted(x.base, L) /\ Rooted(x.previous, L)
  /\ x.kind = "switch" => Rooted(x.original, L)
  /\ x.kind = "edit" => Rooted(x.base, L) /\ x.edit.tokens \in Seq(L)

TokensInv(L) ==
  Rooted(toml, L) /\ \A o \in Operators : RootedOp(op[o], L)

Stored(stored) == IF stored = <<>> THEN NoKeys ELSE stored[1]
Answered(says, w) == [s \in Secrets |-> IF s \in DOMAIN says THEN says[s] ELSE w[s]]
Keying(o) == op[o].kind = "keys"
Persisted(o) == Doing(o, "keys", "persisted")

\* The registry in memory, the one on disk and the one being staged.
RegistriesInv(L) ==
  /\ Sound(memory, L, issued) /\ Settled(memory, L, issued, verdict)
  /\ Sound(Stored(disk), L, issued)
  /\ (\A o \in Operators : ~Persisted(o)) => Settled(Stored(disk), L, issued, verdict)
  /\ \A o \in Operators : Keying(o) =>
       /\ Sound(op[o].file, L, issued)
       /\ Settled(op[o].file, L, issued, Answered(op[o].says, verdict))
       /\ Persisted(o) => disk = <<op[o].file>>
       /\ \A p \in Operators : Keying(p) => p = o

SaysInv(L) ==
  /\ issued \in Nat /\ L \subseteq 1 .. issued
  /\ TokensInv(L)
  /\ ~lapsed => RegistriesInv(L)

-----------------------------------------------------------------------------
(* What the operations make of a registry.                                 *)

\* t[j] is s[origin[j]], nothing picked twice.
From(t, s, m, positions, origin) ==
  /\ origin \in [1 .. Len(t) -> positions \cap (1 .. m)]
  /\ \A j \in 1 .. Len(t) :
       /\ t[j] = s[origin[j]]
       /\ \A k \in 1 .. Len(t) : k # j => origin[k] # origin[j]

LEMMA PickedFrom ==
  ASSUME NEW X, NEW s \in Seq(X), NEW positions
  PROVE  /\ Picked(s, positions) \in Seq(X)
         /\ \E origin : From(Picked(s, positions), s, Len(s), positions, origin)
<1>1. PICK kept \in [0 .. Len(s) -> Seq(X)] : Picking(kept, s, positions)
  BY PickedStep
<1> USE <1>1 DEF Picking
<1> DEFINE N == Len(s)
<1>2. N \in Nat /\ \A n \in 1 .. N : s[n] \in X
  BY LenProperties, ElementOfSeq
<1> DEFINE good == {n \in Nat : n <= N => \E origin : From(kept[n], s, n, positions, origin)}
<1>3. 0 \in good
  <2> DEFINE none == [j \in 1 .. 0 |-> 0]
  <2>1. Len(kept[0]) = 0
    BY <1>1, EmptySeq
  <2>2. From(kept[0], s, 0, positions, none)
    BY <2>1 DEF From
  <2> QED
    BY <2>2
<1>4. ASSUME NEW n \in Nat, n \in good
      PROVE  n + 1 \in good
  <2> SUFFICES ASSUME n + 1 <= N
               PROVE  \E origin : From(kept[n + 1], s, n + 1, positions, origin)
    OBVIOUS
  <2> USE DEF From
  <2>1. n <= N /\ n \in 0 .. N /\ n + 1 \in 1 .. N /\ (n + 1) - 1 = n
    BY <1>2
  <2>2. PICK origin : From(kept[n], s, n, positions, origin)
    BY <1>4, <2>1
  <2>3. CASE n + 1 \notin positions
    <3>1. kept[n + 1] = kept[n]
      BY <1>1, <2>1, <2>3
    <3>2. origin \in [1 .. Len(kept[n]) -> positions \cap (1 .. n + 1)]
      BY <2>2
    <3>3. From(kept[n + 1], s, n + 1, positions, origin)
      BY <2>2, <3>1, <3>2
    <3> QED
      BY <3>3
  <2>4. CASE n + 1 \in positions
    <3> DEFINE t == kept[n]
               t2 == Append(t, s[n + 1])
               m == Len(t)
               origin2 == [j \in 1 .. m + 1 |-> IF j = m + 1 THEN n + 1 ELSE origin[j]]
    <3>1. kept[n + 1] = t2
      BY <1>1, <2>1, <2>4
    <3>2. t \in Seq(X) /\ s[n + 1] \in X
      BY <1>2, <2>1
    <3>3. /\ m \in Nat /\ Len(t2) = m + 1 /\ t2[m + 1] = s[n + 1]
          /\ \A j \in 1 .. m : t2[j] = t[j]
      BY <3>2, AppendProperties, LenProperties
    <3>4. \A j \in 1 .. m : /\ origin[j] \in positions /\ origin[j] \in 1 .. n
                            /\ t[j] = s[origin[j]]
                            /\ \A k \in 1 .. m : k # j => origin[k] # origin[j]
      BY <2>2
    <3> HIDE DEF t, t2, m
    <3>5. origin2 \in [1 .. m + 1 -> positions \cap (1 .. n + 1)]
      BY <2>1, <2>4, <3>3, <3>4
    <3>6. /\ origin2[m + 1] = n + 1
          /\ \A j \in 1 .. m : origin2[j] = origin[j]
      BY <3>3
    <3>7. \A j \in 1 .. m + 1 : j = m + 1 \/ j \in 1 .. m
      BY <3>3
    <3> HIDE DEF origin2
    <3>8. \A j \in 1 .. m + 1 : t2[j] = s[origin2[j]]
      BY <3>3, <3>4, <3>6, <3>7
    <3>9. \A j \in 1 .. m + 1 : \A k \in 1 .. m + 1 : k # j => origin2[k] # origin2[j]
      BY <2>1, <3>4, <3>6, <3>7
    <3>10. From(t2, s, n + 1, positions, origin2)
      BY <3>3, <3>5, <3>8, <3>9
    <3> QED
      BY <3>1, <3>10
  <2> QED
    BY <2>3, <2>4
<1>5. N \in good
  <2> HIDE DEF good
  <2> QED
    BY <1>2, <1>3, <1>4, Induction
<1>6. PICK origin : From(kept[N], s, N, positions, origin)
  BY <1>2, <1>5
<1>7. Picked(s, positions) \in Seq(X)
  BY <1>1, <1>2
<1>8. Picked(s, positions) = kept[N]
  BY <1>1
<1> HIDE DEF N
<1>9. \E o : From(Picked(s, positions), s, N, positions, o)
  BY <1>6, <1>8
<1> QED
  BY <1>7, <1>9 DEF N

LEMMA IndexOf ==
  ASSUME NEW L, NEW n, NEW file, Sound(file, L, n), NEW i \in DOMAIN file.keys
  PROVE  Index(file, file.keys[i].id) = i
<1> DEFINE id == file.keys[i].id
<1>1. \A j \in DOMAIN file.keys : file.keys[j].id = id => j = i
  BY DEF Sound
<1>2. Index(file, id) \in DOMAIN file.keys /\ file.keys[Index(file, id)].id = id
  BY DEF Index
<1> QED
  BY <1>1, <1>2

\* The records of G are those of F, another status apart.
Restates(F, G) ==
  /\ G = [keys |-> G.keys, suppressed |-> G.suppressed]
  /\ G.keys \in Seq(KeyRecord)
  /\ DOMAIN G.keys = DOMAIN F.keys
  /\ \A i \in DOMAIN F.keys :
       /\ G.keys[i].id = F.keys[i].id /\ G.keys[i].secret = F.keys[i].secret
       /\ G.keys[i].legacy = F.keys[i].legacy
  /\ F.suppressed \subseteq G.suppressed

LEMMA RestatedSound ==
  ASSUME NEW L, NEW n, NEW F, Sound(F, L, n), NEW G, Restates(F, G)
  PROVE  Sound(G, L, n)
BY DEF Sound, Restates

LEMMA RestatedSettled ==
  ASSUME NEW L, NEW n, NEW F, NEW w, Settled(F, L, n, w), Sound(F, L, n),
         NEW G, Restates(F, G), NEW says,
         \A s \in DOMAIN says : Has(F, s) /\ says[s] # "undecided",
         \A i \in DOMAIN F.keys :
           Shown(G.keys[i].status) = IF F.keys[i].secret \in DOMAIN says
                                     THEN says[F.keys[i].secret]
                                     ELSE Shown(F.keys[i].status)
  PROVE  Settled(G, L, n, Answered(says, w))
<1> SUFFICES ASSUME NEW s \in Secrets, Answered(says, w)[s] # "undecided"
             PROVE  /\ s \in 1 .. n
                    /\ \A i \in DOMAIN G.keys :
                         G.keys[i].secret = s => Shown(G.keys[i].status) = Answered(says, w)[s]
                    /\ ~Has(G, s) => /\ Answered(says, w)[s] = "out"
                                     /\ s \in G.suppressed \/ s \notin L
  BY DEF Settled
<1>1. Answered(says, w)[s] = IF s \in DOMAIN says THEN says[s] ELSE w[s]
  BY DEF Answered
<1>2. Has(G, s) <=> Has(F, s)
  BY DEF Has, Restates
<1>3. CASE s \in DOMAIN says
  <2>1. s \in 1 .. n
    BY <1>3 DEF Has, Sound
  <2> QED
    BY <1>1, <1>2, <1>3, <2>1 DEF Restates
<1>4. CASE s \notin DOMAIN says
  BY <1>1, <1>2, <1>4 DEF Restates, Settled
<1> QED
  BY <1>3, <1>4

\* The credentials of the tokens that an import adds to F.
Imported(F, tokens, new) ==
  /\ Import(F, tokens) =
       [keys |-> F.keys \o [i \in DOMAIN new |->
                   [id |-> new[i], secret |-> new[i], status |-> "active",
                    legacy |-> TRUE]],
        suppressed |-> F.suppressed]
  /\ \A i \in 1 .. Len(new) :
       /\ new[i] \notin F.suppressed /\ ~Has(F, new[i])
       /\ \A j \in 1 .. Len(new) : j # i => new[j] # new[i]

LEMMA ImportAdds ==
  ASSUME NEW F, NEW tokens, NEW L, F = [keys |-> F.keys, suppressed |-> F.suppressed],
         tokens \in Seq(L)
  PROVE  \E new \in Seq(L) : Imported(F, tokens, new)
<1> DEFINE fresh == {i \in DOMAIN tokens :
                       /\ tokens[i] \notin F.suppressed /\ ~Has(F, tokens[i])
                       /\ \A j \in 1 .. (i - 1) : tokens[j] # tokens[i]}
           new == Picked(tokens, fresh)
<1>1. new \in Seq(L)
  BY PickedFrom
<1>2. PICK origin : From(new, tokens, Len(tokens), fresh, origin)
  <2> HIDE DEF fresh
  <2> QED
    BY PickedFrom
<1>3. Import(F, tokens) =
        [keys |-> F.keys \o [i \in DOMAIN new |->
                    [id |-> new[i], secret |-> new[i], status |-> "active",
                     legacy |-> TRUE]],
         suppressed |-> F.suppressed]
  <2> DEFINE more == [i \in DOMAIN new |->
                    [id |-> new[i], secret |-> new[i], status |-> "active",
                     legacy |-> TRUE]]
  <2>1. Import(F, tokens) = [F EXCEPT !.keys = @ \o more]
    BY DEF Import
  <2> HIDE DEF more
  <2>2. Import(F, tokens) = [keys |-> F.keys \o more, suppressed |-> F.suppressed]
    BY <2>1
  <2> QED
    BY <2>2 DEF more
<1> HIDE DEF new
<1>4. ASSUME NEW i \in 1 .. Len(new)
      PROVE  /\ origin[i] \in fresh /\ new[i] = tokens[origin[i]]
             /\ origin[i] \in 1 .. Len(tokens)
             /\ \A j \in 1 .. Len(new) : j # i => origin[j] # origin[i]
  <2> HIDE DEF fresh
  <2> QED
    BY <1>2 DEF From
<1>5. ASSUME NEW i \in 1 .. Len(new)
      PROVE  /\ new[i] \notin F.suppressed /\ ~Has(F, new[i])
             /\ \A j \in 1 .. Len(new) : j # i => new[j] # new[i]
  <2>2. ASSUME NEW j \in 1 .. Len(new), j # i
        PROVE  new[j] # new[i]
    <3>2. origin[i] < origin[j] \/ origin[j] < origin[i]
      BY <1>4, <2>2
    <3>3. CASE origin[i] < origin[j]
      <4>1. origin[i] \in 1 .. (origin[j] - 1)
        BY <1>4, <3>3
      <4> QED
        BY <1>4, <4>1
    <3>4. CASE origin[j] < origin[i]
      <4>1. origin[j] \in 1 .. (origin[i] - 1)
        BY <1>4, <3>4
      <4> QED
        BY <1>4, <4>1
    <3> QED
      BY <3>2, <3>3, <3>4
  <2> QED
    BY <1>4, <2>2
<1> QED
  BY <1>1, <1>3, <1>5 DEF Imported

\* u is s, of length a, and then t, of length b.
Joins(u, s, t, a, b) ==
  /\ a \in Nat /\ b \in Nat /\ DOMAIN u = 1 .. a + b
  /\ \A i \in 1 .. a : u[i] = s[i]
  /\ \A j \in 1 .. b : u[a + j] = t[j]
  /\ \A i \in 1 .. a + b : i \in 1 .. a \/ \E j \in 1 .. b : i = a + j

LEMMA ConcatJoins ==
  ASSUME NEW X, NEW s \in Seq(X), NEW t \in Seq(X), NEW u, u = s \o t,
         NEW a, a = Len(s), NEW b, b = Len(t)
  PROVE  u \in Seq(X) /\ Joins(u, s, t, a, b)
<1>1. /\ u \in Seq(X) /\ Len(u) = a + b
      /\ \A i \in 1 .. a + b : u[i] = IF i <= a THEN s[i] ELSE t[i - a]
  BY ConcatProperties
<1>2. a \in Nat /\ b \in Nat /\ DOMAIN u = 1 .. a + b
  BY <1>1, LenProperties
<1>3. \A i \in 1 .. a : u[i] = s[i]
  BY <1>1, <1>2
<1>4. ASSUME NEW j \in 1 .. b
      PROVE  u[a + j] = t[j]
  <2>1. a + j \in 1 .. a + b /\ ~(a + j <= a) /\ (a + j) - a = j
    BY <1>2
  <2> QED
    BY <1>1, <2>1
<1>5. ASSUME NEW i \in 1 .. a + b, i \notin 1 .. a
      PROVE  \E j \in 1 .. b : i = a + j
  <2>1. i - a \in 1 .. b /\ i = a + (i - a)
    BY <1>2, <1>5
  <2> QED
    BY <2>1
<1> QED
  BY <1>1, <1>2, <1>3, <1>4, <1>5 DEF Joins

LEMMA ImportSound ==
  ASSUME NEW F, NEW tokens, NEW L, NEW n, Sound(F, L, n), tokens \in Seq(L),
         L \subseteq 1 .. n, n \in Nat
  PROVE  /\ Sound(Import(F, tokens), L, n)
         /\ \A w : Settled(F, L, n, w) => Settled(Import(F, tokens), L, n, w)
<1>1. PICK new \in Seq(L) : Imported(F, tokens, new)
  BY ImportAdds DEF Sound
<1> DEFINE more == [i \in DOMAIN new |->
                      [id |-> new[i], secret |-> new[i], status |-> "active",
                       legacy |-> TRUE]]
           a == Len(F.keys)
           b == Len(new)
           G == Import(F, tokens)
<1>2. /\ F.keys \in Seq(KeyRecord) /\ a \in Nat /\ DOMAIN F.keys = 1 .. a
      /\ b \in Nat /\ DOMAIN new = 1 .. b
      /\ \A i \in 1 .. b : new[i] \in L /\ new[i] \in Nat
  BY LenProperties, ElementOfSeq DEF Sound
<1>3. /\ more \in Seq(KeyRecord) /\ Len(more) = b
      /\ \A i \in 1 .. b : more[i].id = new[i] /\ more[i].secret = new[i]
                           /\ more[i].status = "active" /\ more[i].legacy = TRUE
  <2>1. \A i \in 1 .. b : [id |-> new[i], secret |-> new[i], status |-> "active",
                           legacy |-> TRUE] \in KeyRecord
    BY <1>2 DEF KeyRecord, Status
  <2>2. more = [i \in 1 .. b |-> more[i]] /\ \A i \in 1 .. b : more[i] \in KeyRecord
    BY <1>2, <2>1
  <2>3. more \in Seq(KeyRecord) /\ Len(more) = b
    BY <1>2, <2>2, IsASeq
  <2> QED
    BY <1>2, <2>3
<1> HIDE DEF more
<1>4. G = [keys |-> F.keys \o more, suppressed |-> F.suppressed]
  BY <1>1 DEF more, Imported
<1> HIDE DEF G
<1>5. /\ G.keys = F.keys \o more /\ G.suppressed = F.suppressed
      /\ G = [keys |-> G.keys, suppressed |-> G.suppressed]
  BY <1>4
<1>6. /\ G.keys \in Seq(KeyRecord) /\ DOMAIN G.keys = 1 .. a + b
      /\ \A i \in 1 .. a : G.keys[i] = F.keys[i]
      /\ \A j \in 1 .. b : G.keys[a + j] = more[j]
      /\ \A i \in 1 .. a + b : i \in 1 .. a \/ \E j \in 1 .. b : i = a + j
  <2>1. /\ F.keys \in Seq(KeyRecord) /\ more \in Seq(KeyRecord)
        /\ G.keys = F.keys \o more /\ a = Len(F.keys) /\ b = Len(more)
    BY <1>2, <1>3, <1>5
  <2> HIDE DEF KeyRecord, a, b
  <2>2. G.keys \in Seq(KeyRecord) /\ Joins(G.keys, F.keys, more, a, b)
    BY <2>1, ConcatJoins
  <2> QED
    BY <2>2 DEF Joins
<1>7. \A j \in 1 .. b : a + j \notin 1 .. a /\ a + j \in 1 .. a + b
  BY <1>2
<1>8. \A j \in 1 .. b :
        /\ G.keys[a + j].id = new[j] /\ G.keys[a + j].secret = new[j]
        /\ G.keys[a + j].status = "active" /\ G.keys[a + j].legacy = TRUE
        /\ new[j] \in L /\ new[j] \in 1 .. n
        /\ new[j] \notin F.suppressed /\ ~Has(F, new[j])
        /\ \A k \in 1 .. b : k # j => new[k] # new[j]
  BY <1>1, <1>2, <1>3, <1>6 DEF Imported
<1> HIDE DEF a, b
<1>9. ASSUME NEW i \in 1 .. b, NEW j \in 1 .. a
      PROVE  F.keys[j].secret # new[i] /\ F.keys[j].id # new[i]
  <2>1. new[i] \notin F.suppressed /\ ~Has(F, new[i]) /\ new[i] \in L
    BY <1>8
  <2>2. F.keys[j].secret # new[i]
    BY <1>2, <2>1 DEF Has
  <2>3. F.keys[j].id \in L => \/ F.keys[j].id = F.keys[j].secret
                              \/ F.keys[j].id \in F.suppressed
    BY <1>2 DEF Sound
  <2> QED
    BY <2>1, <2>2, <2>3
<1>10. ASSUME NEW i \in 1 .. a + b, NEW j \in 1 .. a + b, i # j
       PROVE  G.keys[j].id # G.keys[i].id /\ G.keys[j].secret # G.keys[i].secret
  <2>1. CASE i \in 1 .. a /\ j \in 1 .. a
    <3>1. F.keys[j].id # F.keys[i].id /\ F.keys[j].secret # F.keys[i].secret
      BY <1>2, <1>10, <2>1 DEF Sound
    <3>2. G.keys[i] = F.keys[i] /\ G.keys[j] = F.keys[j]
      BY <1>6, <2>1
    <3> QED
      BY <3>1, <3>2
  <2>2. ASSUME NEW k \in 1 .. b, i = a + k, j \in 1 .. a
        PROVE  G.keys[j].id # G.keys[i].id /\ G.keys[j].secret # G.keys[i].secret
    <3>1. F.keys[j].secret # new[k] /\ F.keys[j].id # new[k]
      BY <1>9, <2>2
    <3>2. G.keys[j] = F.keys[j] /\ G.keys[i].id = new[k] /\ G.keys[i].secret = new[k]
      BY <1>6, <1>8, <2>2
    <3> QED
      BY <3>1, <3>2
  <2>3. ASSUME NEW k \in 1 .. b, j = a + k, i \in 1 .. a
        PROVE  G.keys[j].id # G.keys[i].id /\ G.keys[j].secret # G.keys[i].secret
    <3>1. F.keys[i].secret # new[k] /\ F.keys[i].id # new[k]
      BY <1>9, <2>3
    <3>2. G.keys[i] = F.keys[i] /\ G.keys[j].id = new[k] /\ G.keys[j].secret = new[k]
      BY <1>6, <1>8, <2>3
    <3> QED
      BY <3>1, <3>2
  <2>4. ASSUME NEW k \in 1 .. b, i = a + k, NEW h \in 1 .. b, j = a + h
        PROVE  G.keys[j].id # G.keys[i].id /\ G.keys[j].secret # G.keys[i].secret
    <3>1. h # k
      BY <1>10, <2>4
    <3> QED
      BY <1>8, <2>4, <3>1
  <2> QED
    BY <1>6, <2>1, <2>2, <2>3, <2>4
<1>11. ASSUME NEW i \in 1 .. a + b
       PROVE  LET k == G.keys[i] IN
              /\ k.id \in 1 .. n /\ k.secret \in 1 .. n
              /\ k.legacy => k.secret \in L /\ k.id = k.secret
              /\ ~k.legacy => k.secret \notin L
              /\ k.id \in L => k.id = k.secret \/ k.id \in G.suppressed
  <2>1. CASE i \in 1 .. a
    BY <1>2, <1>5, <1>6, <2>1 DEF Sound
  <2>2. ASSUME NEW j \in 1 .. b, i = a + j
        PROVE  LET k == G.keys[i] IN
              /\ k.id \in 1 .. n /\ k.secret \in 1 .. n
              /\ k.legacy => k.secret \in L /\ k.id = k.secret
              /\ ~k.legacy => k.secret \notin L
              /\ k.id \in L => k.id = k.secret \/ k.id \in G.suppressed
    BY <1>8, <2>2
  <2> QED
    BY <1>6, <2>1, <2>2
<1>12. Sound(G, L, n)
  BY <1>5, <1>6, <1>10, <1>11 DEF Sound
<1>13. ASSUME NEW w, Settled(F, L, n, w)
       PROVE  Settled(G, L, n, w)
  <2> SUFFICES ASSUME NEW s \in Secrets, w[s] # "undecided"
               PROVE  /\ s \in 1 .. n
                      /\ \A i \in DOMAIN G.keys :
                           G.keys[i].secret = s => Shown(G.keys[i].status) = w[s]
                      /\ ~Has(G, s) => w[s] = "out" /\ (s \in G.suppressed \/ s \notin L)
    BY DEF Settled
  <2>1. /\ s \in 1 .. n
        /\ \A i \in DOMAIN F.keys :
             F.keys[i].secret = s => Shown(F.keys[i].status) = w[s]
        /\ ~Has(F, s) => w[s] = "out" /\ (s \in F.suppressed \/ s \notin L)
    BY <1>13 DEF Settled
  <2>2. Has(F, s) => Has(G, s)
    <3> SUFFICES ASSUME NEW i \in DOMAIN F.keys, F.keys[i].secret = s
                 PROVE  Has(G, s)
      BY DEF Has
    <3>1. i \in DOMAIN G.keys /\ G.keys[i] = F.keys[i]
      BY <1>2, <1>6, <1>7
    <3> QED
      BY <3>1 DEF Has
  <2>3. ASSUME NEW i \in DOMAIN G.keys, G.keys[i].secret = s
        PROVE  Shown(G.keys[i].status) = w[s]
    <3>1. CASE i \in 1 .. a
      BY <1>2, <1>6, <2>1, <2>3, <3>1
    <3>2. ASSUME NEW j \in 1 .. b, i = a + j
          PROVE  Shown(G.keys[i].status) = w[s]
      <4>1. s \in L /\ s \notin F.suppressed /\ ~Has(F, s)
        BY <1>8, <2>3, <3>2
      <4> QED
        BY <2>1, <4>1
    <3> QED
      BY <1>6, <3>1, <3>2
  <2> QED
    BY <1>5, <2>1, <2>2, <2>3
<1> QED
  BY <1>12, <1>13 DEF G

\* A new credential, or a new legacy one, changes nothing for the others.
LEMMA IssuedSound ==
  ASSUME NEW n \in Nat, NEW L, L \subseteq 1 .. n, NEW F, Sound(F, L, n),
         NEW L2, L2 = L \/ L2 = L \cup {n + 1}
  PROVE  /\ Sound(F, L2, n + 1)
         /\ \A w : Settled(F, L, n, w) => Settled(F, L2, n + 1, w)
<1>1. \A x \in 1 .. n : x \in 1 .. n + 1 /\ x # n + 1
  OBVIOUS
<1>2. \A x \in 1 .. n : x \in L2 <=> x \in L
  BY <1>1
<1>3. Sound(F, L2, n + 1)
  BY <1>1, <1>2 DEF Sound
<1>4. ASSUME NEW w, Settled(F, L, n, w)
      PROVE  Settled(F, L2, n + 1, w)
  BY <1>1, <1>2, <1>4 DEF Settled
<1> QED
  BY <1>3, <1>4

LEMMA NoKeysSound ==
  ASSUME NEW L, NEW n
  PROVE  Sound(NoKeys, L, n)
<1>1. NoKeys.keys = <<>> /\ DOMAIN NoKeys.keys = {}
  BY DEF NoKeys
<1>2. NoKeys.keys \in Seq(KeyRecord)
  BY <1>1, EmptySeq
<1>3. NoKeys = [keys |-> NoKeys.keys, suppressed |-> NoKeys.suppressed]
  BY DEF NoKeys
<1> QED
  BY <1>1, <1>2, <1>3 DEF Sound

\* What suppressing some of the legacy credentials leaves.
LEMMA SuppressEffect ==
  ASSUME NEW F, F = [keys |-> F.keys, suppressed |-> F.suppressed], NEW gone
  PROVE  Suppress(F, gone) =
           [keys |-> F.keys,
            suppressed |-> F.suppressed
              \cup {F.keys[i].secret : i \in {j \in gone : F.keys[j].legacy}}]
<1> DEFINE more == {F.keys[i].secret : i \in {j \in gone : F.keys[j].legacy}}
<1>1. Suppress(F, gone) = [F EXCEPT !.suppressed = @ \cup more]
  BY DEF Suppress
<1> HIDE DEF more
<1>2. Suppress(F, gone) = [keys |-> F.keys, suppressed |-> F.suppressed \cup more]
  BY <1>1
<1> QED
  BY <1>2 DEF more

LEMMA RevokeRestates ==
  ASSUME NEW L, NEW n, NEW F, Sound(F, L, n), NEW ids
  PROVE  /\ Restates(F, Revoke(F, ids))
         /\ \A i \in DOMAIN F.keys :
              Revoke(F, ids).keys[i].status = IF F.keys[i].id \in ids THEN "revoked"
                                              ELSE F.keys[i].status
<1> DEFINE gone == {i \in DOMAIN F.keys : F.keys[i].id \in ids}
           ks == [i \in DOMAIN F.keys |->
                    IF i \in gone THEN [F.keys[i] EXCEPT !.status = "revoked"]
                    ELSE F.keys[i]]
           more == {F.keys[i].secret : i \in {j \in gone : F.keys[j].legacy}}
           S == Suppress(F, gone)
<1>1. S = [keys |-> F.keys, suppressed |-> F.suppressed \cup more]
  BY SuppressEffect DEF Sound
<1>2. Revoke(F, ids) = [S EXCEPT !.keys = ks]
  BY DEF Revoke
<1> HIDE DEF ks, more, S
<1>3. Revoke(F, ids) = [keys |-> ks, suppressed |-> F.suppressed \cup more]
  BY <1>1, <1>2
<1>4. F.keys \in Seq(KeyRecord) /\ DOMAIN F.keys = 1 .. Len(F.keys) /\ Len(F.keys) \in Nat
  BY LenProperties DEF Sound
<1>5. ASSUME NEW i \in DOMAIN F.keys
      PROVE  /\ ks[i] \in KeyRecord
             /\ ks[i].id = F.keys[i].id /\ ks[i].secret = F.keys[i].secret
             /\ ks[i].legacy = F.keys[i].legacy
             /\ ks[i].status = IF F.keys[i].id \in ids THEN "revoked" ELSE F.keys[i].status
  <2>1. F.keys[i] \in KeyRecord
    BY <1>4, ElementOfSeq
  <2>2. CASE i \in gone
    <3>1. ks[i] = [F.keys[i] EXCEPT !.status = "revoked"]
      BY <2>2 DEF ks
    <3>2. ks[i] = [id |-> F.keys[i].id, secret |-> F.keys[i].secret,
                   status |-> "revoked", legacy |-> F.keys[i].legacy]
      BY <2>1, <3>1 DEF KeyRecord
    <3> QED
      BY <2>1, <2>2, <3>2 DEF KeyRecord, Status
  <2>3. CASE i \notin gone
    <3>1. ks[i] = F.keys[i]
      BY <2>3 DEF ks
    <3> QED
      BY <2>1, <2>3, <3>1
  <2> QED
    BY <2>2, <2>3
<1>6. ks \in Seq(KeyRecord) /\ DOMAIN ks = DOMAIN F.keys
  <2>1. DOMAIN ks = 1 .. Len(F.keys) /\ ks = [i \in 1 .. Len(F.keys) |-> ks[i]]
    BY <1>4 DEF ks
  <2>2. \A i \in 1 .. Len(F.keys) : ks[i] \in KeyRecord
    BY <1>4, <1>5
  <2>3. ks \in [1 .. Len(F.keys) -> KeyRecord]
    <3> HIDE DEF KeyRecord
    <3> QED
      BY <2>1, <2>2
  <2> QED
    BY <1>4, <2>1, <2>3, IsASeq DEF Sound
<1> QED
  BY <1>3, <1>5, <1>6 DEF Restates

LEMMA UpdateRestates ==
  ASSUME NEW L, NEW n, NEW F, Sound(F, L, n), NEW i \in DOMAIN F.keys,
         NEW status \in Status
  PROVE  LET G == Update(F, F.keys[i].id, status) IN
         /\ Restates(F, G)
         /\ G.keys[i].status = status
         /\ \A j \in DOMAIN F.keys \ {i} : G.keys[j] = F.keys[j]
<1> DEFINE k == [F.keys[i] EXCEPT !.status = status]
           ks == [F.keys EXCEPT ![i] = k]
<1>1. Index(F, F.keys[i].id) = i
  BY IndexOf
<1>2. Update(F, F.keys[i].id, status) = [F EXCEPT !.keys[i].status = status]
  BY <1>1 DEF Update
<1>3. F = [keys |-> F.keys, suppressed |-> F.suppressed]
  BY DEF Sound
<1>4. Update(F, F.keys[i].id, status) = [keys |-> ks, suppressed |-> F.suppressed]
  BY <1>2, <1>3
<1>5. F.keys \in Seq(KeyRecord) /\ DOMAIN F.keys = 1 .. Len(F.keys) /\ Len(F.keys) \in Nat
  BY LenProperties DEF Sound
<1>6. F.keys[i] \in KeyRecord
  BY <1>5, ElementOfSeq
<1>7. k = [id |-> F.keys[i].id, secret |-> F.keys[i].secret, status |-> status,
           legacy |-> F.keys[i].legacy]
  BY <1>6 DEF KeyRecord
<1>8. k \in KeyRecord /\ k.id = F.keys[i].id /\ k.secret = F.keys[i].secret
      /\ k.legacy = F.keys[i].legacy /\ k.status = status
  BY <1>6, <1>7 DEF KeyRecord
<1> HIDE DEF k
<1>9. /\ ks \in Seq(KeyRecord) /\ DOMAIN ks = DOMAIN F.keys
      /\ ks[i] = k /\ \A j \in DOMAIN F.keys \ {i} : ks[j] = F.keys[j]
  <2> HIDE DEF KeyRecord
  <2>1. ks \in Seq(KeyRecord) /\ Len(ks) = Len(F.keys)
    BY <1>5, <1>8, ExceptSeq
  <2> QED
    BY <1>5, <2>1, LenProperties
<1> HIDE DEF ks
<1> QED
  BY <1>4, <1>8, <1>9 DEF Restates

LEMMA CreateSettles ==
  ASSUME NEW n \in Nat, NEW L, L \subseteq 1 .. n, NEW F, Sound(F, L, n),
         NEW w, Settled(F, L, n, w), NEW w2,
         \A s \in Secrets : w2[s] = IF s = n + 1 THEN "active" ELSE w[s]
  PROVE  /\ Sound(Create(F, n + 1), L, n + 1)
         /\ Settled(Create(F, n + 1), L, n + 1, w2)
<1> DEFINE G == Create(F, n + 1)
           k == [id |-> n + 1, secret |-> n + 1, status |-> "active", legacy |-> FALSE]
           ks == Append(F.keys, k)
           a == Len(F.keys)
<1>1. G = [keys |-> ks, suppressed |-> F.suppressed]
  <2>1. G = [F EXCEPT !.keys = ks]
    BY DEF Create
  <2> HIDE DEF ks, G
  <2>2. F = [keys |-> F.keys, suppressed |-> F.suppressed]
    BY DEF Sound
  <2> QED
    BY <2>1, <2>2
<1>2. k \in KeyRecord /\ k.id = n + 1 /\ k.secret = n + 1 /\ k.status = "active"
      /\ k.legacy = FALSE
  BY DEF KeyRecord, Status
<1>3. F.keys \in Seq(KeyRecord) /\ DOMAIN F.keys = 1 .. a /\ a \in Nat
  BY LenProperties DEF Sound
<1> HIDE DEF k, G
<1>4. /\ ks \in Seq(KeyRecord) /\ DOMAIN ks = 1 .. a + 1 /\ ks[a + 1] = k
      /\ \A i \in 1 .. a : ks[i] = F.keys[i]
  <2>1. /\ ks \in Seq(KeyRecord) /\ Len(ks) = a + 1 /\ ks[a + 1] = k
        /\ \A i \in 1 .. a : ks[i] = F.keys[i]
    <3> HIDE DEF KeyRecord
    <3> QED
      BY <1>2, <1>3, AppendProperties
  <2> QED
    BY <2>1, LenProperties
<1> HIDE DEF ks, a
<1>5. /\ G.keys \in Seq(KeyRecord) /\ DOMAIN G.keys = 1 .. a + 1 /\ G.keys[a + 1] = k
      /\ \A i \in 1 .. a : G.keys[i] = F.keys[i]
      /\ G.suppressed = F.suppressed /\ G = [keys |-> G.keys, suppressed |-> G.suppressed]
      /\ \A i \in 1 .. a + 1 : i \in 1 .. a \/ i = a + 1
  BY <1>1, <1>3, <1>4
<1>6. n + 1 \notin L /\ \A x \in 1 .. n : x # n + 1 /\ x \in 1 .. n + 1
  OBVIOUS
<1>7. \A i \in 1 .. a : F.keys[i].id \in 1 .. n /\ F.keys[i].secret \in 1 .. n
  BY <1>3 DEF Sound
<1>8. ASSUME NEW i \in 1 .. a + 1, NEW j \in 1 .. a + 1, i # j
      PROVE  G.keys[j].id # G.keys[i].id /\ G.keys[j].secret # G.keys[i].secret
  <2>1. CASE i \in 1 .. a /\ j \in 1 .. a
    <3>1. F.keys[j].id # F.keys[i].id /\ F.keys[j].secret # F.keys[i].secret
      BY <1>3, <1>8, <2>1 DEF Sound
    <3> QED
      BY <1>5, <2>1, <3>1
  <2>2. CASE i = a + 1 /\ j \in 1 .. a
    BY <1>2, <1>5, <1>6, <1>7, <2>2
  <2>3. CASE j = a + 1 /\ i \in 1 .. a
    BY <1>2, <1>5, <1>6, <1>7, <2>3
  <2> QED
    BY <1>5, <1>8, <2>1, <2>2, <2>3
<1>9. ASSUME NEW i \in 1 .. a + 1
      PROVE  LET r == G.keys[i] IN
             /\ r.id \in 1 .. n + 1 /\ r.secret \in 1 .. n + 1
             /\ r.legacy => r.secret \in L /\ r.id = r.secret
             /\ ~r.legacy => r.secret \notin L
             /\ r.id \in L => r.id = r.secret \/ r.id \in G.suppressed
  <2>1. CASE i \in 1 .. a
    BY <1>3, <1>5, <1>6, <1>7, <2>1 DEF Sound
  <2>2. CASE i = a + 1
    BY <1>2, <1>5, <1>6, <2>2
  <2> QED
    BY <1>5, <2>1, <2>2
<1>10. Sound(G, L, n + 1)
  BY <1>5, <1>8, <1>9 DEF Sound
<1>11. ASSUME NEW s \in Secrets, w2[s] # "undecided"
       PROVE  /\ s \in 1 .. n + 1
              /\ \A i \in DOMAIN G.keys :
                   G.keys[i].secret = s => Shown(G.keys[i].status) = w2[s]
              /\ ~Has(G, s) => w2[s] = "out" /\ (s \in G.suppressed \/ s \notin L)
  <2>1. CASE s = n + 1
    <3>1. Has(G, s)
      <4>1. a + 1 \in DOMAIN G.keys /\ G.keys[a + 1].secret = s
        BY <1>2, <1>3, <1>5, <2>1
      <4> QED
        BY <4>1 DEF Has
    <3>2. ASSUME NEW i \in DOMAIN G.keys, G.keys[i].secret = s
          PROVE  Shown(G.keys[i].status) = "active"
      <4>1. i = a + 1
        BY <1>5, <1>6, <1>7, <2>1, <3>2
      <4> QED
        BY <1>2, <1>5, <4>1 DEF Shown
    <3> QED
      BY <2>1, <3>1, <3>2
  <2>2. CASE s # n + 1
    <3>1. /\ w2[s] = w[s] /\ s \in 1 .. n
          /\ \A i \in DOMAIN F.keys :
               F.keys[i].secret = s => Shown(F.keys[i].status) = w[s]
          /\ ~Has(F, s) => w[s] = "out" /\ (s \in F.suppressed \/ s \notin L)
      BY <1>11, <2>2 DEF Settled
    <3>2. Has(F, s) => Has(G, s)
      <4> SUFFICES ASSUME NEW i \in DOMAIN F.keys, F.keys[i].secret = s
                   PROVE  Has(G, s)
        BY DEF Has
      <4>1. i \in DOMAIN G.keys /\ G.keys[i] = F.keys[i]
        BY <1>3, <1>5
      <4> QED
        BY <4>1 DEF Has
    <3>3. ASSUME NEW i \in DOMAIN G.keys, G.keys[i].secret = s
          PROVE  Shown(G.keys[i].status) = w[s]
      <4>1. i \in 1 .. a
        BY <1>2, <1>5, <2>2, <3>3
      <4> QED
        BY <1>3, <1>5, <3>1, <3>3, <4>1
    <3> QED
      BY <1>5, <1>6, <3>1, <3>2, <3>3
  <2> QED
    BY <2>1, <2>2
<1>12. Settled(G, L, n + 1, w2)
  BY <1>11 DEF Settled
<1> QED
  BY <1>10, <1>12 DEF G

\* The record at i has the credential n + 1 instead; the old one, if it was
\* legacy, is suppressed.
LEMMA RotateSettles ==
  ASSUME NEW n \in Nat, NEW L, L \subseteq 1 .. n, NEW F, Sound(F, L, n),
         NEW w, Settled(F, L, n, w), NEW i \in DOMAIN F.keys, NEW w2,
         \A s \in Secrets : w2[s] = IF s = n + 1 THEN "active"
                                    ELSE IF s = F.keys[i].secret THEN "out" ELSE w[s]
  PROVE  /\ Sound(Rotate(F, F.keys[i].id, n + 1), L, n + 1)
         /\ Settled(Rotate(F, F.keys[i].id, n + 1), L, n + 1, w2)
<1> DEFINE G == Rotate(F, F.keys[i].id, n + 1)
           more == {F.keys[h].secret : h \in {j \in {i} : F.keys[j].legacy}}
           k == [id |-> F.keys[i].id, secret |-> n + 1, status |-> "active",
                 legacy |-> FALSE]
           ks == [F.keys EXCEPT ![i] = k]
           S == Suppress(F, {i})
<1>1. F.keys \in Seq(KeyRecord) /\ DOMAIN F.keys = 1 .. Len(F.keys) /\ Len(F.keys) \in Nat
  BY LenProperties DEF Sound
<1>2. F.keys[i] \in KeyRecord
  BY <1>1, ElementOfSeq
<1>3. G = [keys |-> ks, suppressed |-> F.suppressed \cup more]
  <2>1. S = [keys |-> F.keys, suppressed |-> F.suppressed \cup more]
    BY SuppressEffect DEF Sound
  <2>2. Index(F, F.keys[i].id) = i
    BY IndexOf
  <2>3. G = [S EXCEPT !.keys[i] = [@ EXCEPT !.secret = n + 1, !.status = "active",
                                            !.legacy = FALSE]]
    BY <2>2 DEF Rotate
  <2> DEFINE old == S.keys[i]
             k1 == [old EXCEPT !.secret = n + 1, !.status = "active", !.legacy = FALSE]
  <2>4. k1 = k
    <3>1. old = [id |-> F.keys[i].id, secret |-> F.keys[i].secret,
                 status |-> F.keys[i].status, legacy |-> F.keys[i].legacy]
      BY <1>2, <2>1 DEF KeyRecord
    <3> HIDE DEF old
    <3> DEFINE k2 == [old EXCEPT !.secret = n + 1]
               k3 == [k2 EXCEPT !.status = "active"]
    <3>2. k2 = [id |-> F.keys[i].id, secret |-> n + 1,
                status |-> F.keys[i].status, legacy |-> F.keys[i].legacy]
      BY <3>1
    <3> HIDE DEF k2
    <3>3. k3 = [id |-> F.keys[i].id, secret |-> n + 1,
                status |-> "active", legacy |-> F.keys[i].legacy]
      BY <3>2
    <3> HIDE DEF k3
    <3> DEFINE no == FALSE
    <3> HIDE DEF no
    <3>4. [k3 EXCEPT !.legacy = no] = [id |-> F.keys[i].id, secret |-> n + 1,
                                       status |-> "active", legacy |-> no]
      BY <3>3
    <3>5. [[[old EXCEPT !.secret = n + 1] EXCEPT !.status = "active"]
             EXCEPT !.legacy = no] = [id |-> F.keys[i].id, secret |-> n + 1,
                                       status |-> "active", legacy |-> no]
      BY <3>4 DEF k2, k3
    <3> QED
      BY <3>5, Zenon DEF no
  <2>5. G = [S EXCEPT !.keys[i] = k1]
    BY <2>3
  <2> HIDE DEF k1, k, more, S, G
  <2>6. G = [S EXCEPT !.keys[i] = k]
    BY <2>4, <2>5
  <2>7. G = [keys |-> [F.keys EXCEPT ![i] = k], suppressed |-> F.suppressed \cup more]
    BY <2>1, <2>6
  <2> QED
    BY <2>7
<1>4. /\ k \in KeyRecord /\ k.id = F.keys[i].id /\ k.secret = n + 1
      /\ k.status = "active" /\ k.legacy = FALSE
  BY <1>2 DEF KeyRecord, Status
<1>5. F.keys[i].legacy => F.keys[i].secret \in F.suppressed \cup more
  OBVIOUS
<1> HIDE DEF k, G, more
<1>6. /\ ks \in Seq(KeyRecord) /\ DOMAIN ks = DOMAIN F.keys
      /\ ks[i] = k /\ \A j \in DOMAIN F.keys \ {i} : ks[j] = F.keys[j]
  <2> HIDE DEF KeyRecord
  <2>1. ks \in Seq(KeyRecord) /\ Len(ks) = Len(F.keys)
    BY <1>1, <1>4, ExceptSeq
  <2> QED
    BY <1>1, <2>1, LenProperties
<1> HIDE DEF ks
<1>7. /\ G.keys \in Seq(KeyRecord) /\ DOMAIN G.keys = DOMAIN F.keys
      /\ G.keys[i] = k /\ \A j \in DOMAIN F.keys \ {i} : G.keys[j] = F.keys[j]
      /\ G.suppressed = F.suppressed \cup more
      /\ G = [keys |-> G.keys, suppressed |-> G.suppressed]
  BY <1>3, <1>6
<1>8. n + 1 \notin L /\ \A x \in 1 .. n : x # n + 1 /\ x \in 1 .. n + 1
  OBVIOUS
<1>9. \A j \in DOMAIN F.keys :
        LET r == F.keys[j] IN
        /\ r.id \in 1 .. n /\ r.secret \in 1 .. n
        /\ r.legacy => r.secret \in L /\ r.id = r.secret
        /\ ~r.legacy => r.secret \notin L
        /\ r.id \in L => r.id = r.secret \/ r.id \in F.suppressed
        /\ \A h \in DOMAIN F.keys \ {j} :
             F.keys[h].id # r.id /\ F.keys[h].secret # r.secret
  BY DEF Sound
<1>10. ASSUME NEW j \in DOMAIN F.keys, NEW h \in DOMAIN F.keys, j # h
       PROVE  G.keys[h].id # G.keys[j].id /\ G.keys[h].secret # G.keys[j].secret
  <2>1. F.keys[h].id # F.keys[j].id /\ F.keys[h].secret # F.keys[j].secret
    BY <1>9, <1>10
  <2>2. CASE j # i /\ h # i
    BY <1>7, <2>1, <2>2
  <2>3. CASE j = i
    BY <1>4, <1>7, <1>8, <1>9, <1>10, <2>1, <2>3
  <2>4. CASE h = i
    BY <1>4, <1>7, <1>8, <1>9, <1>10, <2>1, <2>4
  <2> QED
    BY <2>2, <2>3, <2>4
<1>11. ASSUME NEW j \in DOMAIN F.keys
       PROVE  LET r == G.keys[j] IN
             /\ r.id \in 1 .. n + 1 /\ r.secret \in 1 .. n + 1
             /\ r.legacy => r.secret \in L /\ r.id = r.secret
             /\ ~r.legacy => r.secret \notin L
             /\ r.id \in L => r.id = r.secret \/ r.id \in G.suppressed
  <2>1. CASE j # i
    BY <1>7, <1>8, <1>9, <2>1
  <2>2. CASE j = i
    <3>1. F.keys[i].id \in L => F.keys[i].id \in G.suppressed
      <4> SUFFICES ASSUME F.keys[i].id \in L, F.keys[i].id \notin F.suppressed
                   PROVE  F.keys[i].id \in G.suppressed
        BY <1>7
      <4>1. F.keys[i].id = F.keys[i].secret
        BY <1>9
      <4>2. F.keys[i].legacy
        BY <1>9, <4>1
      <4> QED
        BY <1>5, <1>7, <4>1, <4>2
    <3> QED
      BY <1>4, <1>7, <1>8, <1>9, <2>2, <3>1
  <2> QED
    BY <2>1, <2>2
<1>12. Sound(G, L, n + 1)
  BY <1>7, <1>10, <1>11 DEF Sound
<1>13. ASSUME NEW s \in Secrets, w2[s] # "undecided"
       PROVE  /\ s \in 1 .. n + 1
              /\ \A j \in DOMAIN G.keys :
                   G.keys[j].secret = s => Shown(G.keys[j].status) = w2[s]
              /\ ~Has(G, s) => w2[s] = "out" /\ (s \in G.suppressed \/ s \notin L)
  <2>1. CASE s = n + 1
    <3>1. Has(G, s)
      BY <1>4, <1>7, <2>1 DEF Has
    <3>2. ASSUME NEW j \in DOMAIN G.keys, G.keys[j].secret = s
          PROVE  Shown(G.keys[j].status) = "active"
      <4>1. j = i
        BY <1>7, <1>8, <1>9, <2>1, <3>2
      <4> QED
        BY <1>4, <1>7, <4>1 DEF Shown
    <3> QED
      BY <2>1, <3>1, <3>2
  <2>2. CASE s = F.keys[i].secret
    <3>1. s # n + 1 /\ s \in 1 .. n + 1
      BY <1>8, <1>9, <2>2
    <3>2. w2[s] = "out"
      BY <2>2, <3>1
    <3>3. ASSUME NEW j \in DOMAIN G.keys
          PROVE  G.keys[j].secret # s
      <4>1. CASE j = i
        BY <1>4, <1>7, <3>1, <4>1
      <4>2. CASE j # i
        BY <1>7, <1>9, <2>2, <4>2
      <4> QED
        BY <4>1, <4>2
    <3>4. s \in G.suppressed \/ s \notin L
      BY <1>5, <1>7, <1>9, <2>2
    <3> QED
      BY <3>1, <3>2, <3>3, <3>4
  <2>3. CASE s # n + 1 /\ s # F.keys[i].secret
    <3>1. /\ w2[s] = w[s] /\ s \in 1 .. n
          /\ \A j \in DOMAIN F.keys :
               F.keys[j].secret = s => Shown(F.keys[j].status) = w[s]
          /\ ~Has(F, s) => w[s] = "out" /\ (s \in F.suppressed \/ s \notin L)
      BY <1>13, <2>3 DEF Settled
    <3>2. ASSUME NEW j \in DOMAIN F.keys, F.keys[j].secret = s
          PROVE  Has(G, s)
      <4>1. j # i /\ j \in DOMAIN G.keys /\ G.keys[j] = F.keys[j]
        BY <1>7, <2>3, <3>2
      <4> QED
        BY <3>2, <4>1 DEF Has
    <3>3. ASSUME NEW j \in DOMAIN G.keys, G.keys[j].secret = s
          PROVE  Shown(G.keys[j].status) = w[s]
      <4>1. j # i
        BY <1>4, <1>7, <2>3, <3>3
      <4> QED
        BY <1>7, <3>1, <3>3, <4>1
    <3>4. Has(F, s) => Has(G, s)
      BY <3>2 DEF Has
    <3> QED
      BY <1>7, <1>8, <3>1, <3>3, <3>4
  <2> QED
    BY <2>1, <2>2, <2>3
<1>14. Settled(G, L, n + 1, w2)
  BY <1>13 DEF Settled
<1> QED
  BY <1>12, <1>14 DEF G

-----------------------------------------------------------------------------
(* The credentials in the configuration file, and in the copies of it that *)
(* are being edited, are legacy ones.                                      *)

LEMMA EmptyRooted == ASSUME NEW L PROVE Rooted(<<>>, L)
BY EmptySeq DEF Rooted, Read, Empty

LEMMA ContentRooted ==
  ASSUME NEW L, NEW c, c.tokens \in Seq(L)
  PROVE  Rooted(<<c>>, L)
BY DEF Rooted, Read

LEMMA NothingRooted == ASSUME NEW L PROVE RootedOp(NoOp, L) /\ NoOp.kind # "keys"
BY DEF RootedOp, NoOp

LEMMA MergedTokens ==
  ASSUME NEW c, IsContent(c), NEW s, NEW document
  PROVE  Merge(c, s, document).tokens = c.tokens
BY DEF IsContent, Merge

LEMMA SwitchedTokens ==
  ASSUME NEW c, IsContent(c), NEW p, NEW k
  PROVE  Switched(c, p, k).tokens = c.tokens
<1> DEFINE c1 == [c EXCEPT !.provider = p]
           c2 == [c1 EXCEPT !.key = k]
<1>1. IsContent(c1) /\ c1.tokens = c.tokens
  BY DEF IsContent
<1> HIDE DEF c1
<1>2. IsContent(c2) /\ c2.tokens = c.tokens
  BY <1>1 DEF IsContent
<1> HIDE DEF c2
<1>3. [c2 EXCEPT !.pool = {}].tokens = c.tokens
  BY <1>2 DEF IsContent
<1> QED
  BY <1>3 DEF Switched, c1, c2

LEMMA EditedTokens ==
  ASSUME NEW L, NEW c, IsContent(c), c.tokens \in Seq(L), NEW e,
         e.do \in {"model", "append", "replace", "remove"}, e.tokens \in Seq(L)
  PROVE  Edited(c, e).tokens \in Seq(L)
<1>1. CASE e.do = "model"
  BY <1>1, MergedTokens DEF Edited
<1>2. CASE e.do = "append"
  <2>1. c.tokens \o e.tokens \in Seq(L)
    BY ConcatProperties
  <2>2. Edited(c, e) = [c EXCEPT !.tokens = c.tokens \o e.tokens]
    BY <1>2 DEF Edited
  <2> QED
    BY <2>1, <2>2 DEF IsContent
<1>3. CASE e.do = "replace"
  BY <1>3 DEF Edited, IsContent
<1>4. CASE e.do = "remove"
  <2> DEFINE rest == WithoutIndices(c.tokens, e.indices)
  <2>1. rest \in Seq(L)
    BY PickedFrom DEF WithoutIndices
  <2>2. Edited(c, e) = [c EXCEPT !.tokens = rest]
    BY <1>4 DEF Edited
  <2> HIDE DEF rest
  <2> QED
    BY <2>1, <2>2 DEF IsContent
<1> QED
  BY <1>1, <1>2, <1>3, <1>4

\* A step that leaves the registry alone.
Elsewhere(o, L) ==
  /\ op[o].kind # "keys" /\ Rooted(toml', L)
  /\ \E x : op' = [op EXCEPT ![o] = x] /\ RootedOp(x, L) /\ x.kind # "keys"

LEMMA ElsewhereBy ==
  ASSUME NEW o \in Operators, NEW L, op[o].kind # "keys", Rooted(toml', L),
         NEW x, op' = [op EXCEPT ![o] = x], RootedOp(x, L), x.kind # "keys"
  PROVE  Elsewhere(o, L)
BY DEF Elsewhere

LEMMA BeginElsewhere ==
  ASSUME NEW o \in Operators, NEW L, TokensInv(L), NEW x, Begin(o, x), toml' = toml,
         RootedOp(x, L), x.kind # "keys"
  PROVE  Elsewhere(o, L)
<1>1. op' = [op EXCEPT ![o] = x] /\ op[o].kind # "keys"
  BY DEF Begin, Idle, NoOp
<1>2. Rooted(toml', L)
  BY DEF TokensInv
<1> QED
  BY <1>1, <1>2, ElsewhereBy

LEMMA BeginEditElsewhere ==
  ASSUME NEW o \in Operators, NEW L, TokensInv(L), NEW e, BeginEdit(o, e),
         e.tokens \in Seq(L)
  PROVE  Elsewhere(o, L)
<1> DEFINE x == [kind |-> "edit", pc |-> "write", base |-> toml, edit |-> e]
<1>1. Begin(o, x) /\ toml' = toml
  BY DEF BeginEdit
<1>2. RootedOp(x, L) /\ x.kind # "keys"
  BY DEF RootedOp, TokensInv
<1> HIDE DEF x
<1> QED
  BY <1>1, <1>2, BeginElsewhere

LEMMA ApplyElsewhere ==
  ASSUME Shapes, NEW o \in Operators, NEW L, TokensInv(L),
         \/ \E s \in Settings, document \in Documents : Preview(o, s, document)
         \/ Remember(o) \/ WriteMerged(o) \/ ReadBack(o) \/ Rollback(o)
  PROVE  Elsewhere(o, L)
<1>1. ASSUME NEW s \in Settings, NEW document \in Documents, Preview(o, s, document)
      PROVE  Elsewhere(o, L)
  <2>1. PICK b \in {toml, <<>>} :
          Begin(o, [kind |-> "apply", pc |-> "remember", setting |-> s,
                    document |-> document, base |-> b, previous |-> <<>>])
    BY <1>1 DEF Preview
  <2> DEFINE x == [kind |-> "apply", pc |-> "remember", setting |-> s,
                   document |-> document, base |-> b, previous |-> <<>>]
  <2>2. RootedOp(x, L) /\ x.kind # "keys"
    BY EmptyRooted DEF RootedOp, TokensInv
  <2>3. Begin(o, x) /\ toml' = toml
    BY <1>1, <2>1 DEF Preview
  <2> HIDE DEF x
  <2> QED
    BY <2>2, <2>3, BeginElsewhere
<1>2. ASSUME op[o].kind = "apply",
             NEW pc \in {"remember", "write", "verify", "rollback"}, Goto(o, pc),
             Rooted(toml', L)
      PROVE  Elsewhere(o, L)
  <2> DEFINE x == [op[o] EXCEPT !.pc = pc]
  <2>1. IsApply(op[o]) /\ RootedOp(op[o], L)
    BY <1>2, Kinds DEF Shapes, TokensInv
  <2>2. IsApply(x) /\ x.base = op[o].base /\ x.previous = op[o].previous
    BY <2>1, GotoApply
  <2>3. op' = [op EXCEPT ![o] = x]
    BY <1>2, GotoPlaces
  <2> HIDE DEF x
  <2>4. RootedOp(x, L) /\ x.kind # "keys"
    BY <1>2, <2>1, <2>2 DEF RootedOp, IsApply
  <2> QED
    BY <1>2, <2>3, <2>4, ElsewhereBy
<1>3. ASSUME op[o].kind = "apply", Finish(o), Rooted(toml', L)
      PROVE  Elsewhere(o, L)
  BY <1>3, NothingRooted, ElsewhereBy DEF Finish
<1>4. Rooted(toml, L) /\ (toml' = toml => Rooted(toml', L))
  BY DEF TokensInv
<1>5. op[o].kind = "apply" =>
        /\ IsApply(op[o]) /\ Rooted(op[o].base, L) /\ Rooted(op[o].previous, L)
  BY Kinds DEF Shapes, TokensInv, RootedOp
<1>6. ASSUME Remember(o) PROVE Elsewhere(o, L)
  <2>1. op[o].kind = "apply" /\ toml' = toml
    BY <1>6 DEF Remember, Doing
  <2>2. CASE op' = [op EXCEPT ![o].pc = "write", ![o].previous = toml]
    <3> DEFINE y == [op[o] EXCEPT !.pc = "write"]
               x == [y EXCEPT !.previous = toml]
    <3>1. IsApply(y) /\ y.base = op[o].base
      BY <1>5, <2>1, GotoApply
    <3>2. op' = [op EXCEPT ![o] = [y EXCEPT !.previous = toml]]
      <4>1. op' = [op EXCEPT ![o] = [[op[o] EXCEPT !.pc = "write"] EXCEPT !.previous = toml]]
        BY <2>2 DEF Shapes
      <4> QED
        BY <4>1
    <3> HIDE DEF y
    <3>3. x.kind = "apply" /\ x.base = y.base /\ x.previous = toml
      BY <3>1 DEF IsApply
    <3> HIDE DEF x
    <3>4. RootedOp(x, L) /\ x.kind # "keys"
      BY <1>4, <1>5, <2>1, <3>1, <3>3 DEF RootedOp
    <3>5. op' = [op EXCEPT ![o] = x]
      BY <3>2 DEF x
    <3> QED
      BY <1>4, <2>1, <3>4, <3>5, ElsewhereBy
  <2>3. CASE Goto(o, "write")
    BY <1>2, <1>4, <2>1, <2>3
  <2> QED
    BY <1>6, <2>2, <2>3 DEF Remember
<1>7. ASSUME WriteMerged(o) PROVE Elsewhere(o, L)
  <2>1. op[o].kind = "apply"
    BY <1>7 DEF WriteMerged, Doing
  <2>2. CASE toml' = Merged(o) /\ Goto(o, "verify")
    <3>1. IsContent(Read(op[o].base)) /\ Read(op[o].base).tokens \in Seq(L)
      BY <1>5, <2>1, ReadFile DEF IsApply, Rooted
    <3>2. Merge(Read(op[o].base), op[o].setting, op[o].document).tokens \in Seq(L)
      BY <3>1, MergedTokens
    <3>3. Rooted(toml', L)
      BY <2>2, <3>2, ContentRooted DEF Merged
    <3> QED
      BY <1>2, <2>1, <2>2, <3>3
  <2>3. CASE Finish(o) /\ toml' = toml
    BY <1>3, <1>4, <2>1, <2>3
  <2> QED
    BY <1>7, <2>2, <2>3 DEF WriteMerged, Write, NotWritten
<1>8. ASSUME ReadBack(o) PROVE Elsewhere(o, L)
  BY <1>2, <1>3, <1>4, <1>8 DEF ReadBack, Doing
<1>9. ASSUME Rollback(o) PROVE Elsewhere(o, L)
  <2>1. op[o].kind = "apply" /\ Finish(o)
    BY <1>9 DEF Rollback, Doing
  <2>2. toml' = op[o].previous \/ toml' = toml
    BY <1>9 DEF Rollback, Write, Restored, NotWritten
  <2>3. Rooted(toml', L)
    BY <1>4, <1>5, <2>1, <2>2
  <2> QED
    BY <1>3, <2>1, <2>3
<1> QED
  BY <1>1, <1>6, <1>7, <1>8, <1>9

LEMMA SwitchElsewhere ==
  ASSUME Shapes, NEW o \in Operators, NEW L, TokensInv(L),
         \/ \E p \in Upstream, k \in Upstream : BeginSwitch(o, p, k)
         \/ WriteSwitchedToml(o) \/ WriteSwitchedEnv(o) \/ UndoSwitch(o)
  PROVE  Elsewhere(o, L)
<1>1. ASSUME NEW p \in Upstream, NEW k \in Upstream, BeginSwitch(o, p, k)
      PROVE  Elsewhere(o, L)
  <2> DEFINE x == [kind |-> "switch", pc |-> "toml", provider |-> p, key |-> k,
                   original |-> toml, env |-> dotenv]
  <2>1. Begin(o, x) /\ toml' = toml
    BY <1>1 DEF BeginSwitch
  <2>2. RootedOp(x, L) /\ x.kind # "keys"
    BY DEF RootedOp, TokensInv
  <2> HIDE DEF x
  <2> QED
    BY <2>1, <2>2, BeginElsewhere
<1>2. ASSUME op[o].kind = "switch", NEW pc \in {"toml", "env", "undo"}, Goto(o, pc),
             Rooted(toml', L)
      PROVE  Elsewhere(o, L)
  <2> DEFINE x == [op[o] EXCEPT !.pc = pc]
  <2>1. IsSwitch(op[o]) /\ RootedOp(op[o], L)
    BY <1>2, Kinds DEF Shapes, TokensInv
  <2>2. IsSwitch(x) /\ x.original = op[o].original
    BY <2>1, GotoSwitch
  <2>3. op' = [op EXCEPT ![o] = x]
    BY <1>2, GotoPlaces
  <2> HIDE DEF x
  <2>4. RootedOp(x, L) /\ x.kind # "keys"
    BY <1>2, <2>1, <2>2 DEF RootedOp, IsSwitch
  <2> QED
    BY <1>2, <2>3, <2>4, ElsewhereBy
<1>3. ASSUME op[o].kind = "switch", Finish(o), Rooted(toml', L)
      PROVE  Elsewhere(o, L)
  BY <1>3, NothingRooted, ElsewhereBy DEF Finish
<1>4. Rooted(toml, L) /\ (toml' = toml => Rooted(toml', L))
  BY DEF TokensInv
<1>5. op[o].kind = "switch" => IsSwitch(op[o]) /\ Rooted(op[o].original, L)
  BY Kinds DEF Shapes, TokensInv, RootedOp
<1>6. ASSUME WriteSwitchedToml(o) PROVE Elsewhere(o, L)
  <2>1. op[o].kind = "switch"
    BY <1>6 DEF WriteSwitchedToml, Doing
  <2>2. CASE toml' = SwitchedToml(o) /\ Goto(o, "env")
    <3>1. IsContent(Read(op[o].original)) /\ Read(op[o].original).tokens \in Seq(L)
      BY <1>5, <2>1, ReadFile DEF IsSwitch, Rooted
    <3>2. Switched(Read(op[o].original), op[o].provider, op[o].key).tokens \in Seq(L)
      BY <3>1, SwitchedTokens
    <3>3. Rooted(toml', L)
      BY <2>2, <3>2, ContentRooted DEF SwitchedToml
    <3> QED
      BY <1>2, <2>1, <2>2, <3>3
  <2>3. CASE Finish(o) /\ toml' = toml
    BY <1>3, <1>4, <2>1, <2>3
  <2> QED
    BY <1>6, <2>2, <2>3 DEF WriteSwitchedToml, Write, NotWritten
<1>7. ASSUME WriteSwitchedEnv(o) PROVE Elsewhere(o, L)
  BY <1>2, <1>3, <1>4, <1>7 DEF WriteSwitchedEnv, EnvFailed, Doing
<1>8. ASSUME UndoSwitch(o) PROVE Elsewhere(o, L)
  <2>1. op[o].kind = "switch" /\ Finish(o)
    BY <1>8 DEF UndoSwitch, Doing
  <2>2. toml' = op[o].original \/ toml' = toml
    BY <1>8 DEF UndoSwitch, Write, NotWritten
  <2>3. Rooted(toml', L)
    BY <1>4, <1>5, <2>1, <2>2
  <2> QED
    BY <1>3, <2>1, <2>3
<1> QED
  BY <1>1, <1>6, <1>7, <1>8

LEMMA ConfigureElsewhere ==
  ASSUME Shapes, NEW o \in Operators, NEW L, TokensInv(L), Configure(o)
  PROVE  Elsewhere(o, L)
<1>1. ASSUME NEW s \in Settings, BeginEdit(o, SetModel(s))
      PROVE  Elsewhere(o, L)
  <2>1. SetModel(s).tokens \in Seq(L)
    BY EmptySeq DEF SetModel
  <2> QED
    BY <1>1, <2>1, BeginEditElsewhere
<1>2. ASSUME WriteEdit(o) PROVE Elsewhere(o, L)
  <2>1. op[o].kind = "edit" /\ Finish(o)
    BY <1>2 DEF WriteEdit, Doing
  <2>2. IsEdit(op[o]) /\ Rooted(op[o].base, L) /\ op[o].edit.tokens \in Seq(L)
    BY <2>1, Kinds DEF Shapes, TokensInv, RootedOp
  <2>3. \/ toml' = <<Edited(Read(op[o].base), op[o].edit)>>
        \/ toml' = toml
    BY <1>2 DEF WriteEdit, Write, NotWritten
  <2>4. IsContent(Read(op[o].base)) /\ Read(op[o].base).tokens \in Seq(L)
    BY <2>2, ReadFile DEF IsEdit, Rooted
  <2>5. Edited(Read(op[o].base), op[o].edit).tokens \in Seq(L)
    BY <2>2, <2>4, EditedTokens DEF IsEdit
  <2>6. Rooted(toml', L)
    BY <2>3, <2>5, ContentRooted DEF TokensInv
  <2> QED
    BY <2>1, <2>6, NothingRooted, ElsewhereBy DEF Finish
<1>3. ASSUME Killed(o) PROVE Elsewhere(o, L)
  <2>1. op[o].kind # "keys" /\ Finish(o) /\ toml' = toml
    BY <1>3 DEF Killed, InServer
  <2> QED
    BY <2>1, NothingRooted, ElsewhereBy DEF Finish, TokensInv
<1> QED
  BY <1>1, <1>2, <1>3, ApplyElsewhere, SwitchElsewhere DEF Configure

LEMMA ElsewhereKeeps ==
  ASSUME Shapes, NEW o \in Operators, NEW L, TokensInv(L), Elsewhere(o, L)
  PROVE  /\ TokensInv(L)'
         /\ ~Keying(o) /\ ~Keying(o)'
         /\ \A p \in Operators \ {o} : op'[p] = op[p]
<1>1. PICK x : op' = [op EXCEPT ![o] = x] /\ RootedOp(x, L) /\ x.kind # "keys"
  BY DEF Elsewhere
<1>2. op'[o] = x /\ \A p \in Operators \ {o} : op'[p] = op[p]
  BY <1>1, Placed
<1>3. \A p \in Operators : RootedOp(op'[p], L)
  BY <1>1, <1>2 DEF TokensInv
<1>4. Rooted(toml', L)
  BY DEF Elsewhere
<1>5. TokensInv(L)'
  BY <1>3, <1>4 DEF TokensInv
<1> QED
  BY <1>1, <1>2, <1>5 DEF Keying, Elsewhere

-----------------------------------------------------------------------------
(* Each step agrees with what was said before it.                          *)

DecisionsInv == \E L : SaysInv(L)

\* A step that leaves the registries alone; it may issue a credential, legacy
\* or not.
LEMMA RegistriesKept ==
  ASSUME NEW L, SaysInv(L), UNCHANGED <<memory, disk, verdict, lapsed>>,
         NEW L2, TokensInv(L2)',
         \/ issued' = issued /\ L2 = L
         \/ issued' = issued + 1 /\ (L2 = L \/ L2 = L \cup {issued + 1}),
         \A p \in Operators :
           /\ Keying(p)' => /\ Keying(p) /\ op'[p].file = op[p].file
                            /\ op'[p].says = op[p].says
           /\ Persisted(p)' <=> Persisted(p)
  PROVE  SaysInv(L2)'
<1>1. issued \in Nat /\ L \subseteq 1 .. issued
  BY DEF SaysInv
<1>2. issued' \in Nat /\ L2 \subseteq 1 .. issued'
  <2>1. \A x \in 1 .. issued : x \in 1 .. issued + 1
    BY <1>1
  <2>2. issued + 1 \in Nat /\ issued + 1 \in 1 .. issued + 1
    BY <1>1
  <2> QED
    BY <1>1, <2>1, <2>2
<1>3. ASSUME NEW F, Sound(F, L, issued)
      PROVE  /\ Sound(F, L2, issued')
             /\ \A w : Settled(F, L, issued, w) => Settled(F, L2, issued', w)
  <2>1. CASE issued' = issued /\ L2 = L
    BY <1>3, <2>1
  <2>2. CASE issued' = issued + 1 /\ (L2 = L \/ L2 = L \cup {issued + 1})
    <3>1. /\ Sound(F, L2, issued + 1)
          /\ \A w : Settled(F, L, issued, w) => Settled(F, L2, issued + 1, w)
      BY <1>1, <1>3, <2>2, IssuedSound
    <3> QED
      BY <2>2, <3>1
  <2> QED
    BY <2>1, <2>2
<1>4. ASSUME ~lapsed
      PROVE  RegistriesInv(L2)'
  <2>1. RegistriesInv(L)
    BY <1>4 DEF SaysInv
  <2>2. Sound(memory', L2, issued') /\ Settled(memory', L2, issued', verdict')
    BY <1>3, <2>1 DEF RegistriesInv
  <2>3. Sound(Stored(disk'), L2, issued')
    BY <1>3, <2>1 DEF RegistriesInv
  <2>4. ASSUME \A p \in Operators : ~Persisted(p)'
        PROVE  Settled(Stored(disk'), L2, issued', verdict')
    <3>1. \A p \in Operators : ~Persisted(p)
      BY <2>4
    <3> QED
      BY <1>3, <2>1, <3>1 DEF RegistriesInv
  <2>5. ASSUME NEW o \in Operators, Keying(o)'
        PROVE  /\ Sound(op'[o].file, L2, issued')
               /\ Settled(op'[o].file, L2, issued', Answered(op'[o].says, verdict'))
               /\ Persisted(o)' => disk' = <<op'[o].file>>
               /\ \A p \in Operators : Keying(p)' => p = o
    <3>1. /\ Keying(o) /\ op'[o].file = op[o].file /\ op'[o].says = op[o].says
          /\ Persisted(o)' => Persisted(o)
      BY <2>5
    <3>2. /\ Sound(op[o].file, L, issued)
          /\ Settled(op[o].file, L, issued, Answered(op[o].says, verdict))
          /\ Persisted(o) => disk = <<op[o].file>>
          /\ \A p \in Operators : Keying(p) => p = o
      BY <2>1, <3>1 DEF RegistriesInv
    <3> QED
      BY <1>3, <3>1, <3>2
  <2> QED
    BY <2>2, <2>3, <2>4, <2>5 DEF RegistriesInv
<1> QED
  BY <1>2, <1>4 DEF SaysInv

LEMMA StageSays ==
  ASSUME Shapes, NEW L, SaysInv(L), NEW o \in Operators,
         NEW file, NEW id, NEW says, NEW mirror, Stage(o, file, id, says, mirror),
         issued' = issued \/ issued' = issued + 1,
         ~lapsed => /\ Sound(file, L, issued')
                    /\ Settled(file, L, issued', Answered(says, verdict))
  PROVE  SaysInv(L)'
<1> DEFINE x == [kind |-> "keys", pc |-> "staged", file |-> file, id |-> id,
                 snapshot |-> IF id = {} THEN 0 ELSE Snapshot(CHOOSE k \in id : TRUE),
                 says |-> says, mirror |-> mirror]
<1>1. /\ ~Locked /\ Begin(o, x) /\ toml' = toml
      /\ UNCHANGED <<memory, disk, verdict, lapsed>>
  BY DEF Stage
<1>2. x.kind = "keys" /\ x.pc = "staged" /\ x.file = file /\ x.says = says
  OBVIOUS
<1> HIDE DEF x
<1>3. op' = [op EXCEPT ![o] = x]
  BY <1>1 DEF Begin
<1>4. op'[o] = x /\ \A p \in Operators \ {o} : op'[p] = op[p]
  BY <1>3, Placed
<1>5. RootedOp(x, L)
  BY <1>2 DEF RootedOp
<1>6. TokensInv(L)'
  <2>1. TokensInv(L)
    BY DEF SaysInv
  <2>2. \A p \in Operators : RootedOp(op'[p], L)
    BY <1>4, <1>5, <2>1 DEF TokensInv
  <2> QED
    BY <1>1, <2>1, <2>2 DEF TokensInv
<1>7. issued \in Nat /\ L \subseteq 1 .. issued
  BY DEF SaysInv
<1>8. issued' \in Nat /\ L \subseteq 1 .. issued'
  BY <1>7
<1>9. \A p \in Operators : ~Keying(p) /\ ~Persisted(p)
  BY <1>1 DEF Locked, Keying, Persisted, Doing
<1>10. /\ \A p \in Operators : ~Persisted(p)'
       /\ \A p \in Operators : Keying(p)' => p = o
  BY <1>2, <1>4, <1>9 DEF Persisted, Keying, Doing
<1>11. ASSUME NEW F, Sound(F, L, issued)
      PROVE  /\ Sound(F, L, issued')
             /\ \A w : Settled(F, L, issued, w) => Settled(F, L, issued', w)
  <2>1. /\ Sound(F, L, issued + 1)
        /\ \A w : Settled(F, L, issued, w) => Settled(F, L, issued + 1, w)
    BY <1>7, <1>11, IssuedSound
  <2> QED
    BY <1>11, <2>1
<1>12. ASSUME ~lapsed
       PROVE  RegistriesInv(L)'
  <2>1. RegistriesInv(L)
    BY <1>12 DEF SaysInv
  <2>2. /\ Sound(memory', L, issued') /\ Settled(memory', L, issued', verdict')
        /\ Sound(Stored(disk'), L, issued') /\ Settled(Stored(disk'), L, issued', verdict')
    BY <1>1, <1>9, <1>11, <2>1 DEF RegistriesInv
  <2>3. ASSUME NEW p \in Operators, Keying(p)'
        PROVE  /\ Sound(op'[p].file, L, issued')
               /\ Settled(op'[p].file, L, issued', Answered(op'[p].says, verdict'))
               /\ Persisted(p)' => disk' = <<op'[p].file>>
               /\ \A q \in Operators : Keying(q)' => q = p
    <3>1. p = o
      BY <1>10, <2>3
    <3> QED
      BY <1>1, <1>2, <1>4, <1>10, <1>12, <3>1
  <2> QED
    BY <2>2, <2>3 DEF RegistriesInv
<1> QED
  BY <1>1, <1>6, <1>8, <1>12 DEF SaysInv

LEMMA PersistSays ==
  ASSUME Shapes, NEW L, SaysInv(L), NEW o \in Operators, Persist(o)
  PROVE  SaysInv(L)'
<1>1. /\ Keying(o) /\ op[o].pc = "staged"
      /\ UNCHANGED <<toml, memory, issued, verdict, lapsed>>
  BY DEF Persist, Doing, Keying
<1>2. IsKeys(op[o]) /\ TokensInv(L)
  BY <1>1, Kinds DEF Shapes, Keying, SaysInv
<1>3. CASE disk' = <<op[o].file>> /\ Goto(o, "persisted")
  <2> DEFINE x == [op[o] EXCEPT !.pc = "persisted"]
  <2>1. x.kind = "keys" /\ x.pc = "persisted" /\ x.file = op[o].file /\ x.says = op[o].says
    BY <1>2 DEF IsKeys
  <2>2. op' = [op EXCEPT ![o] = x]
    BY <1>3, GotoPlaces
  <2> HIDE DEF x
  <2>3. op'[o] = x /\ \A p \in Operators \ {o} : op'[p] = op[p]
    BY <2>2, Placed
  <2>4. TokensInv(L)'
    <3>1. \A p \in Operators : RootedOp(op'[p], L)
      BY <1>2, <2>1, <2>3 DEF TokensInv, RootedOp
    <3> QED
      BY <1>1, <1>2, <3>1 DEF TokensInv
  <2>5. ASSUME ~lapsed
        PROVE  RegistriesInv(L)'
    <3>1. RegistriesInv(L)
      BY <2>5 DEF SaysInv
    <3>2. /\ Sound(op[o].file, L, issued)
          /\ Settled(op[o].file, L, issued, Answered(op[o].says, verdict))
          /\ \A p \in Operators : Keying(p) => p = o
      BY <1>1, <3>1 DEF RegistriesInv
    <3>3. Stored(disk') = op[o].file
      BY <1>3 DEF Stored
    <3>4. Persisted(o)' /\ \A p \in Operators : Keying(p)' => p = o
      BY <2>1, <2>3, <3>2 DEF Persisted, Doing, Keying
    <3>5. ASSUME NEW p \in Operators, Keying(p)'
          PROVE  /\ Sound(op'[p].file, L, issued')
                 /\ Settled(op'[p].file, L, issued', Answered(op'[p].says, verdict'))
                 /\ Persisted(p)' => disk' = <<op'[p].file>>
                 /\ \A q \in Operators : Keying(q)' => q = p
      <4>1. p = o
        BY <3>4, <3>5
      <4> QED
        BY <1>1, <1>3, <2>1, <2>3, <3>2, <3>4, <4>1
    <3>6. Sound(memory', L, issued') /\ Settled(memory', L, issued', verdict')
      BY <1>1, <3>1 DEF RegistriesInv
    <3> QED
      BY <1>1, <3>2, <3>3, <3>4, <3>5, <3>6 DEF RegistriesInv
  <2> QED
    BY <1>1, <2>4, <2>5 DEF SaysInv
<1>4. CASE Finish(o) /\ disk' = disk
  <2>1. op'[o] = NoOp /\ \A p \in Operators \ {o} : op'[p] = op[p]
    BY <1>4, Placed DEF Finish
  <2>2. TokensInv(L)'
    <3>1. \A p \in Operators : RootedOp(op'[p], L)
      BY <1>2, <2>1, NothingRooted DEF TokensInv
    <3> QED
      BY <1>1, <1>2, <3>1 DEF TokensInv
  <2>3. ~Persisted(o) /\ ~Persisted(o)' /\ ~Keying(o)'
    BY <1>1, <2>1 DEF Persisted, Keying, Doing, NoOp
  <2>4. \A p \in Operators :
           /\ Keying(p)' => /\ Keying(p) /\ op'[p].file = op[p].file
                            /\ op'[p].says = op[p].says
           /\ Persisted(p)' <=> Persisted(p)
    BY <2>1, <2>3 DEF Persisted, Keying, Doing
  <2> QED
    BY <1>1, <1>4, <2>2, <2>4, RegistriesKept
<1> QED
  BY <1>3, <1>4 DEF Persist

LEMMA CommitSays ==
  ASSUME Shapes, NEW L, SaysInv(L), NEW o \in Operators, Commit(o)
  PROVE  SaysInv(L)'
<1>1. /\ Keying(o) /\ Persisted(o)
      /\ UNCHANGED <<toml, disk, issued, lapsed>>
      /\ memory' = op[o].file /\ verdict' = Answered(op[o].says, verdict)
  BY DEF Commit, Persisted, Doing, Keying, Said, Answered
<1>2. PICK x : op' = [op EXCEPT ![o] = x]
               /\ (x = NoOp \/ x = [kind |-> "edit", pc |-> "write", base |-> toml,
                                    edit |-> RemoveTokens(op[o].mirror)])
  BY DEF Commit
<1>3. TokensInv(L)
  BY DEF SaysInv
<1>4. RootedOp(x, L) /\ x.kind # "keys"
  <2>1. RemoveTokens(op[o].mirror).tokens \in Seq(L)
    BY EmptySeq DEF RemoveTokens
  <2> QED
    BY <1>2, <1>3, <2>1, NothingRooted DEF RootedOp, TokensInv
<1>5. op'[o] = x /\ \A p \in Operators \ {o} : op'[p] = op[p]
  BY <1>2, Placed
<1>6. TokensInv(L)'
  <2>1. \A p \in Operators : RootedOp(op'[p], L)
    BY <1>3, <1>4, <1>5 DEF TokensInv
  <2> QED
    BY <1>1, <1>3, <2>1 DEF TokensInv
<1>7. ASSUME ~lapsed
      PROVE  RegistriesInv(L)'
  <2>1. /\ Sound(op[o].file, L, issued)
        /\ Settled(op[o].file, L, issued, Answered(op[o].says, verdict))
        /\ disk = <<op[o].file>>
        /\ \A p \in Operators : Keying(p) => p = o
    BY <1>1, <1>7 DEF SaysInv, RegistriesInv
  <2>2. Stored(disk') = op[o].file
    BY <1>1, <2>1 DEF Stored
  <2>3. \A p \in Operators : ~Keying(p)'
    BY <1>4, <1>5, <2>1 DEF Keying
  <2> QED
    BY <1>1, <2>1, <2>2, <2>3 DEF RegistriesInv
<1> QED
  BY <1>1, <1>6, <1>7 DEF SaysInv

LEMMA ListedRecords ==
  ASSUME NEW L, NEW n, NEW F, Sound(F, L, n), NEW i \in DOMAIN Listed(F)
  PROVE  \E j \in DOMAIN F.keys : Listed(F)[i] = F.keys[j]
<1> DEFINE shown == {j \in DOMAIN F.keys : F.keys[j].status # "revoked"}
           listed == Picked(F.keys, shown)
<1>1. F.keys \in Seq(KeyRecord) /\ DOMAIN F.keys = 1 .. Len(F.keys)
  BY LenProperties DEF Sound
<1>2. Listed(F) = listed
  BY DEF Listed
<1>3. PICK origin : From(listed, F.keys, Len(F.keys), shown, origin)
  <2> HIDE DEF shown, KeyRecord
  <2> QED
    BY <1>1, PickedFrom
<1>4. listed \in Seq(KeyRecord)
  <2> HIDE DEF shown, KeyRecord
  <2> QED
    BY <1>1, PickedFrom
<1> HIDE DEF listed, shown
<1>5. i \in 1 .. Len(listed)
  BY <1>2, <1>4, LenProperties
<1>6. listed[i] = F.keys[origin[i]] /\ origin[i] \in 1 .. Len(F.keys)
  BY <1>3, <1>5 DEF From
<1> QED
  BY <1>1, <1>2, <1>6

\* Revoking some credentials and saying that they are out.
LEMMA RevokeSettles ==
  ASSUME NEW n, NEW L, NEW F, Sound(F, L, n), NEW w, Settled(F, L, n, w),
         NEW ids, NEW says,
         \A i \in DOMAIN F.keys : F.keys[i].id \in ids <=> F.keys[i].secret \in DOMAIN says,
         \A s \in DOMAIN says : Has(F, s) /\ says[s] = "out"
  PROVE  /\ Sound(Revoke(F, ids), L, n)
         /\ Settled(Revoke(F, ids), L, n, Answered(says, w))
<1> DEFINE G == Revoke(F, ids)
<1>1. /\ Restates(F, G)
      /\ \A i \in DOMAIN F.keys :
              G.keys[i].status = IF F.keys[i].id \in ids THEN "revoked"
                                 ELSE F.keys[i].status
  BY RevokeRestates
<1> HIDE DEF G
<1>2. \A i \in DOMAIN F.keys :
           Shown(G.keys[i].status) = IF F.keys[i].secret \in DOMAIN says
                                     THEN says[F.keys[i].secret]
                                     ELSE Shown(F.keys[i].status)
  BY <1>1 DEF Shown
<1>3. \A s \in DOMAIN says : Has(F, s) /\ says[s] # "undecided"
  OBVIOUS
<1>4. Sound(G, L, n) /\ Settled(G, L, n, Answered(says, w))
  BY <1>1, <1>2, <1>3, RestatedSound, RestatedSettled
<1> QED
  BY <1>4 DEF G

LEMMA StageCreateSays ==
  ASSUME Shapes, NEW L, SaysInv(L), NEW o \in Operators, NEW replace,
         StageCreate(o, replace)
  PROVE  SaysInv(L)'
<1> DEFINE listed == {k.id : k \in Range(Listed(memory))}
           gone == IF replace THEN listed ELSE {}
           out == {memory.keys[Index(memory, id)].secret : id \in gone}
           says1 == Gone(out)
           says == Replaced(NextSecret, out)
           file1 == Revoke(memory, gone)
           file == Create(file1, NextSecret)
<1>1. issued \in Nat /\ L \subseteq 1 .. issued
  BY DEF SaysInv
<1>2. /\ issued' = issued + 1 /\ NextSecret = issued + 1
      /\ Stage(o, file, {}, says, {})
  BY DEF StageCreate, Issue, NextSecret
<1>3. ASSUME ~lapsed
      PROVE  Sound(file, L, issued + 1) /\ Settled(file, L, issued + 1, Answered(says, verdict))
  <2>1. Sound(memory, L, issued) /\ Settled(memory, L, issued, verdict)
    BY <1>3 DEF SaysInv, RegistriesInv
  <2>2. ASSUME NEW id \in gone
        PROVE  \E i \in DOMAIN memory.keys : memory.keys[i].id = id
    <3>1. PICK h \in DOMAIN Listed(memory) : Listed(memory)[h].id = id
      BY <2>2 DEF Range
    <3>2. PICK i \in DOMAIN memory.keys : Listed(memory)[h] = memory.keys[i]
      BY <2>1, ListedRecords
    <3> QED
      BY <3>1, <3>2
  <2> HIDE DEF gone
  <2>3. ASSUME NEW s \in out PROVE Has(memory, s)
    <3>1. PICK id \in gone : s = memory.keys[Index(memory, id)].secret
      OBVIOUS
    <3>2. PICK i \in DOMAIN memory.keys : memory.keys[i].id = id
      BY <2>2
    <3>3. Index(memory, id) = i
      BY <2>1, <3>2, IndexOf
    <3> QED
      BY <3>1, <3>2, <3>3 DEF Has
  <2>4. ASSUME NEW i \in DOMAIN memory.keys
        PROVE  memory.keys[i].id \in gone <=> memory.keys[i].secret \in out
    <3>1. Index(memory, memory.keys[i].id) = i
      BY <2>1, IndexOf
    <3>2. memory.keys[i].id \in gone => memory.keys[i].secret \in out
      BY <3>1
    <3>3. ASSUME memory.keys[i].secret \in out
          PROVE  memory.keys[i].id \in gone
      <4>1. PICK id \in gone : memory.keys[i].secret = memory.keys[Index(memory, id)].secret
        BY <3>3
      <4>2. PICK j \in DOMAIN memory.keys : memory.keys[j].id = id
        BY <2>2
      <4>3. Index(memory, id) = j
        BY <2>1, <4>2, IndexOf
      <4>4. j = i
        BY <2>1, <4>1, <4>3 DEF Sound
      <4> QED
        BY <4>2, <4>4
    <3> QED
      BY <3>2, <3>3
  <2> HIDE DEF out
  <2>5. DOMAIN says1 = out /\ \A s \in out : says1[s] = "out"
    BY DEF Gone
  <2> HIDE DEF says1
  <2>6. Sound(file1, L, issued) /\ Settled(file1, L, issued, Answered(says1, verdict))
    BY <2>1, <2>3, <2>4, <2>5, RevokeSettles
  <2>7. \A s \in Secrets : Answered(says, verdict)[s] =
          IF s = issued + 1 THEN "active" ELSE Answered(says1, verdict)[s]
    <3>1. /\ DOMAIN says = {issued + 1} \cup out /\ says[issued + 1] = "active"
          /\ \A s \in out : s # issued + 1 => says[s] = "out"
      BY <1>2 DEF Replaced
    <3> HIDE DEF says
    <3> QED
      BY <2>5, <3>1 DEF Answered
  <2> HIDE DEF says, file1
  <2> QED
    BY <1>1, <1>2, <2>6, <2>7, CreateSettles
<1> HIDE DEF says, file
<1> QED
  BY <1>2, <1>3, StageSays

LEMMA StageUpdateSays ==
  ASSUME Shapes, NEW L, SaysInv(L), NEW o \in Operators, NEW id \in Ids(memory),
         NEW status \in Status, StageUpdate(o, id, status)
  PROVE  SaysInv(L)'
<1> DEFINE record == memory.keys[Index(memory, id)]
           said == IF status = "revoked" THEN "out" ELSE status
           says == [s \in {record.secret} |-> said]
           file == Update(memory, id, status)
<1>1. issued' = issued /\ Stage(o, file, {id}, says, {})
  BY DEF StageUpdate
<1>2. ASSUME ~lapsed
      PROVE  Sound(file, L, issued) /\ Settled(file, L, issued, Answered(says, verdict))
  <2>1. Sound(memory, L, issued) /\ Settled(memory, L, issued, verdict)
    BY <1>2 DEF SaysInv, RegistriesInv
  <2>2. PICK i \in DOMAIN memory.keys : memory.keys[i].id = id
    BY DEF Ids
  <2>3. record = memory.keys[i]
    BY <2>1, <2>2, IndexOf
  <2>4. /\ Restates(memory, file)
        /\ file.keys[i].status = status
        /\ \A j \in DOMAIN memory.keys \ {i} : file.keys[j] = memory.keys[j]
    BY <2>1, <2>2, UpdateRestates
  <2>5. DOMAIN says = {memory.keys[i].secret} /\ says[memory.keys[i].secret] = said
    BY <2>3
  <2>6. said # "undecided" /\ said = Shown(status)
    BY DEF Status, Shown
  <2> HIDE DEF file, says, said, record
  <2>7. \A s \in DOMAIN says : Has(memory, s) /\ says[s] # "undecided"
    BY <2>5, <2>6 DEF Has
  <2>8. ASSUME NEW j \in DOMAIN memory.keys
        PROVE  Shown(file.keys[j].status) = IF memory.keys[j].secret \in DOMAIN says
                                     THEN says[memory.keys[j].secret]
                                     ELSE Shown(memory.keys[j].status)
    <3>1. CASE j = i
      BY <2>4, <2>5, <2>6, <3>1
    <3>2. CASE j # i
      <4>1. memory.keys[j].secret \notin DOMAIN says
        BY <2>1, <2>5, <3>2 DEF Sound
      <4> QED
        BY <2>4, <3>2, <4>1
    <3> QED
      BY <3>1, <3>2
  <2> QED
    BY <2>1, <2>4, <2>7, <2>8, RestatedSound, RestatedSettled
<1> HIDE DEF says, file
<1> QED
  BY <1>1, <1>2, StageSays

LEMMA StageRotateSays ==
  ASSUME Shapes, NEW L, SaysInv(L), NEW o \in Operators, NEW id \in Ids(memory),
         StageRotate(o, id)
  PROVE  SaysInv(L)'
<1> DEFINE record == memory.keys[Index(memory, id)]
           says == Replaced(NextSecret, {record.secret})
           file == Rotate(memory, id, NextSecret)
<1>1. /\ issued' = issued + 1 /\ NextSecret = issued + 1
      /\ Stage(o, file, {id}, says, {})
  BY DEF StageRotate, Issue, NextSecret
<1>2. issued \in Nat /\ L \subseteq 1 .. issued
  BY DEF SaysInv
<1>3. ASSUME ~lapsed
      PROVE  Sound(file, L, issued + 1) /\ Settled(file, L, issued + 1, Answered(says, verdict))
  <2>1. Sound(memory, L, issued) /\ Settled(memory, L, issued, verdict)
    BY <1>3 DEF SaysInv, RegistriesInv
  <2>2. PICK i \in DOMAIN memory.keys : memory.keys[i].id = id
    BY DEF Ids
  <2>3. record = memory.keys[i]
    BY <2>1, <2>2, IndexOf
  <2>4. \A s \in Secrets : Answered(says, verdict)[s] =
          IF s = issued + 1 THEN "active"
          ELSE IF s = memory.keys[i].secret THEN "out" ELSE verdict[s]
    <3>1. says = [s \in {issued + 1} \cup {memory.keys[i].secret} |->
                    IF s = issued + 1 THEN "active" ELSE "out"]
      BY <1>1, <2>3 DEF Replaced
    <3> HIDE DEF says
    <3> QED
      BY <3>1 DEF Answered
  <2>5. file = Rotate(memory, memory.keys[i].id, issued + 1)
    BY <1>1, <2>2
  <2>6. /\ Sound(Rotate(memory, memory.keys[i].id, issued + 1), L, issued + 1)
        /\ Settled(Rotate(memory, memory.keys[i].id, issued + 1), L, issued + 1,
                   Answered(says, verdict))
    <3> DEFINE w2 == Answered(says, verdict)
    <3> HIDE DEF says
    <3>1. \A s \in Secrets : w2[s] =
            IF s = issued + 1 THEN "active"
            ELSE IF s = memory.keys[i].secret THEN "out" ELSE verdict[s]
      BY <2>4
    <3> HIDE DEF w2
    <3>2. /\ Sound(Rotate(memory, memory.keys[i].id, issued + 1), L, issued + 1)
          /\ Settled(Rotate(memory, memory.keys[i].id, issued + 1), L, issued + 1, w2)
      BY <1>2, <2>1, <3>1, RotateSettles
    <3> QED
      BY <3>2 DEF w2
  <2> HIDE DEF says, file
  <2> QED
    BY <2>5, <2>6
<1> HIDE DEF says, file
<1> QED
  BY <1>1, <1>3, StageSays

LEMMA StageDeleteSays ==
  ASSUME Shapes, NEW L, SaysInv(L), NEW o \in Operators, NEW id \in Ids(memory),
         StageDelete(o, id)
  PROVE  SaysInv(L)'
<1> DEFINE says == Gone({memory.keys[Index(memory, id)].secret})
           file == Revoke(memory, {id})
<1>1. issued' = issued /\ Stage(o, file, {}, says, {})
  BY DEF StageDelete
<1>2. ASSUME ~lapsed
      PROVE  Sound(file, L, issued) /\ Settled(file, L, issued, Answered(says, verdict))
  <2>1. Sound(memory, L, issued) /\ Settled(memory, L, issued, verdict)
    BY <1>2 DEF SaysInv, RegistriesInv
  <2>2. PICK i \in DOMAIN memory.keys : memory.keys[i].id = id
    BY DEF Ids
  <2>3. Index(memory, id) = i
    BY <2>1, <2>2, IndexOf
  <2>4. DOMAIN says = {memory.keys[i].secret} /\ says[memory.keys[i].secret] = "out"
    BY <2>3 DEF Gone
  <2> HIDE DEF says
  <2>5. \A s \in DOMAIN says : Has(memory, s) /\ says[s] = "out"
    BY <2>4 DEF Has
  <2>6. \A j \in DOMAIN memory.keys :
          memory.keys[j].id \in {id} <=> memory.keys[j].secret \in DOMAIN says
    BY <2>1, <2>2, <2>4 DEF Sound
  <2> QED
    BY <2>1, <2>5, <2>6, RevokeSettles
<1> HIDE DEF says, file
<1> QED
  BY <1>1, <1>2, StageSays

LEMMA StageRevokeListedSays ==
  ASSUME Shapes, NEW L, SaysInv(L), NEW o \in Operators, NEW indices,
         StageRevokeListed(o, indices)
  PROVE  SaysInv(L)'
<1> DEFINE listed == Listed(memory)
           chosen == indices \cap DOMAIN listed
           ids == {listed[i].id : i \in chosen}
           out == {listed[i].secret : i \in chosen}
           says == Gone(out)
           file == Revoke(memory, ids)
<1>1. PICK mirror : issued' = issued /\ Stage(o, file, {}, says, mirror)
  BY DEF StageRevokeListed
<1>2. ASSUME ~lapsed
      PROVE  Sound(file, L, issued) /\ Settled(file, L, issued, Answered(says, verdict))
  <2>1. Sound(memory, L, issued) /\ Settled(memory, L, issued, verdict)
    BY <1>2 DEF SaysInv, RegistriesInv
  <2>2. \A h \in chosen : \E i \in DOMAIN memory.keys : listed[h] = memory.keys[i]
    BY <2>1, ListedRecords
  <2>3. DOMAIN says = out /\ \A s \in out : says[s] = "out"
    BY DEF Gone
  <2> HIDE DEF says, chosen, listed
  <2>4. \A s \in out : Has(memory, s)
    BY <2>2 DEF Has
  <2>5. ASSUME NEW j \in DOMAIN memory.keys
        PROVE  memory.keys[j].id \in ids <=> memory.keys[j].secret \in out
    <3>1. ASSUME NEW h \in chosen
          PROVE  memory.keys[j].id = listed[h].id <=> memory.keys[j].secret = listed[h].secret
      <4>1. PICK i \in DOMAIN memory.keys : listed[h] = memory.keys[i]
        BY <2>2
      <4>2. j # i => /\ memory.keys[j].id # memory.keys[i].id
                     /\ memory.keys[j].secret # memory.keys[i].secret
        BY <2>1 DEF Sound
      <4> QED
        BY <4>1, <4>2
    <3> QED
      BY <3>1
  <2> HIDE DEF ids, out
  <2> QED
    BY <2>1, <2>3, <2>4, <2>5, RevokeSettles
<1> HIDE DEF says, file
<1> QED
  BY <1>1, <1>2, StageSays

LEMMA GenerateTokensSays ==
  ASSUME Shapes, NEW L, SaysInv(L), NEW o \in Operators, GenerateTokens(o)
  PROVE  DecisionsInv'
<1>11. PICK L2 : L2 = L \cup {issued + 1}
  OBVIOUS
<1>1. /\ issued' = issued + 1 /\ NextSecret = issued + 1
      /\ UNCHANGED <<memory, disk, verdict, lapsed>>
  BY DEF GenerateTokens, Issue, NextSecret
<1>2. PICK replace \in BOOLEAN : BeginEdit(o, SaveTokens(<<NextSecret>>, replace))
  BY DEF GenerateTokens
<1>3. TokensInv(L)
  BY DEF SaysInv
<1>4. L \subseteq L2 /\ issued + 1 \in L2
  BY <1>11
<1>5. Seq(L) \subseteq Seq(L2)
  BY <1>4, SeqMonotonic
<1>6. TokensInv(L2)
  BY <1>3, <1>5 DEF TokensInv, Rooted, RootedOp
<1>7. SaveTokens(<<NextSecret>>, replace).tokens \in Seq(L2)
  <2>1. SaveTokens(<<NextSecret>>, replace).tokens = <<issued + 1>>
    BY <1>1 DEF SaveTokens
  <2>2. <<issued + 1>> \in Seq(L2)
    BY <1>4
  <2> QED
    BY <2>1, <2>2
<1>8. Elsewhere(o, L2)
  BY <1>2, <1>6, <1>7, BeginEditElsewhere
<1>9. /\ TokensInv(L2)' /\ ~Keying(o) /\ ~Keying(o)'
      /\ \A p \in Operators \ {o} : op'[p] = op[p]
  BY <1>6, <1>8, ElsewhereKeeps
<1>10. \A p \in Operators :
           /\ Keying(p)' => /\ Keying(p) /\ op'[p].file = op[p].file
                            /\ op'[p].says = op[p].says
           /\ Persisted(p)' <=> Persisted(p)
  BY <1>9 DEF Keying, Persisted, Doing
<1>12. SaysInv(L2)'
  BY <1>1, <1>9, <1>10, <1>11, RegistriesKept
<1> QED
  BY <1>12 DEF DecisionsInv

LEMMA ConfigureSays ==
  ASSUME Shapes, NEW L, SaysInv(L), NEW o \in Operators, Configure(o)
  PROVE  SaysInv(L)'
<1>1. UNCHANGED <<memory, disk, issued, verdict, lapsed>>
  BY DEF Configure, keyVars
<1>2. /\ TokensInv(L)' /\ ~Keying(o) /\ ~Keying(o)'
      /\ \A p \in Operators \ {o} : op'[p] = op[p]
  BY ConfigureElsewhere, ElsewhereKeeps DEF SaysInv
<1>3. \A p \in Operators :
           /\ Keying(p)' => /\ Keying(p) /\ op'[p].file = op[p].file
                            /\ op'[p].says = op[p].says
           /\ Persisted(p)' <=> Persisted(p)
  BY <1>2 DEF Keying, Persisted, Doing
<1> QED
  BY <1>1, <1>2, <1>3, RegistriesKept

LEMMA NewDaySays ==
  ASSUME Shapes, NEW L, SaysInv(L), NewDay
  PROVE  SaysInv(L)'
<1>1. UNCHANGED <<toml, memory, disk, issued, verdict, lapsed>>
  BY DEF NewDay
<1>2. ASSUME NEW p \in Operators
      PROVE  /\ RootedOp(op[p], L) => RootedOp(op'[p], L)
             /\ Keying(p)' => /\ Keying(p) /\ op'[p].file = op[p].file
                              /\ op'[p].says = op[p].says
             /\ Persisted(p)' <=> Persisted(p)
  <2>1. op'[p] = IF op[p].kind = "keys" THEN [op[p] EXCEPT !.snapshot = 0] ELSE op[p]
    BY DEF NewDay
  <2>2. CASE op[p].kind # "keys"
    BY <2>1, <2>2 DEF Keying, Persisted, Doing
  <2>3. CASE op[p].kind = "keys"
    <3>1. IsKeys(op[p])
      BY <2>3, Kinds DEF Shapes
    <3>2. /\ op'[p].kind = "keys" /\ op'[p].file = op[p].file
          /\ op'[p].says = op[p].says /\ op'[p].pc = op[p].pc
      BY <2>1, <2>3, <3>1 DEF IsKeys
    <3> QED
      BY <2>3, <3>2 DEF Keying, Persisted, Doing, RootedOp
  <2> QED
    BY <2>2, <2>3
<1>3. TokensInv(L)'
  BY <1>1, <1>2 DEF SaysInv, TokensInv
<1> QED
  BY <1>1, <1>2, <1>3, RegistriesKept

LEMMA UnchangedSays ==
  ASSUME NEW L, SaysInv(L), UNCHANGED configVars,
         UNCHANGED <<memory, disk, issued, verdict, lapsed>>
  PROVE  SaysInv(L)'
<1>1. toml' = toml /\ op' = op
  BY DEF configVars
<1>2. TokensInv(L)'
  BY <1>1 DEF SaysInv, TokensInv
<1>3. \A p \in Operators :
           /\ Keying(p)' => /\ Keying(p) /\ op'[p].file = op[p].file
                            /\ op'[p].says = op[p].says
           /\ Persisted(p)' <=> Persisted(p)
  BY <1>1 DEF Keying, Persisted, Doing
<1> QED
  BY <1>2, <1>3, RegistriesKept

LEMMA RestartSays ==
  ASSUME Shapes, NEW L, SaysInv(L), Restart
  PROVE  SaysInv(L)'
<1> DEFINE tokens == Read(toml).tokens
           unanswered == {o \in Operators : Doing(o, "keys", "persisted")}
<1>1. /\ UNCHANGED <<toml, disk, issued>>
      /\ \/ memory' = Load(disk, tokens) /\ lapsed' = lapsed
         \/ memory' = Load(<<>>, tokens) /\ lapsed' = (lapsed \/ disk # <<>>)
      /\ verdict' = IF unanswered = {} THEN verdict
                    ELSE Answered(op[CHOOSE o \in unanswered : TRUE].says, verdict)
      /\ op' = [o \in Operators |-> IF InServer(o) THEN NoOp ELSE op[o]]
  BY DEF Restart, Said, Answered
<1>2. TokensInv(L) /\ issued \in Nat /\ L \subseteq 1 .. issued
  BY DEF SaysInv
<1>3. ASSUME NEW p \in Operators
      PROVE  RootedOp(op'[p], L) /\ ~Keying(p)'
  <2>1. op'[p] = NoOp \/ (op'[p] = op[p] /\ op[p].kind # "keys")
    BY <1>1 DEF InServer
  <2> QED
    BY <1>2, <2>1, NothingRooted DEF TokensInv, Keying
<1>4. TokensInv(L)'
  BY <1>1, <1>2, <1>3 DEF TokensInv
<1>5. ASSUME ~lapsed'
      PROVE  RegistriesInv(L)'
  <2>1. ~lapsed /\ memory' = Import(Stored(disk), tokens)
    <3>1. \A file : Load(file, tokens) = Import(Stored(file), tokens)
      BY DEF Load, Stored
    <3> HIDE DEF tokens
    <3>2. CASE memory' = Load(disk, tokens) /\ lapsed' = lapsed
      <4>1. ~lapsed
        BY <1>5, <3>2, Zenon
      <4> QED
        BY <3>1, <3>2, <4>1
    <3>3. CASE memory' = Load(<<>>, tokens) /\ lapsed' = (lapsed \/ disk # <<>>)
      <4>1. ~lapsed /\ disk = <<>>
        BY <1>5, <3>3, Zenon
      <4> QED
        BY <3>1, <3>3, <4>1
    <3> QED
      BY <1>1, <3>2, <3>3
  <2>2. RegistriesInv(L)
    BY <2>1 DEF SaysInv
  <2>3. Sound(Stored(disk), L, issued)
    BY <2>2 DEF RegistriesInv
  <2>4. Settled(Stored(disk), L, issued, verdict')
    <3>1. CASE unanswered = {}
      <4>1. \A o \in Operators : ~Persisted(o)
        BY <3>1 DEF Persisted
      <4>2. verdict' = verdict
        BY <1>1, <3>1
      <4> QED
        BY <2>2, <4>1, <4>2 DEF RegistriesInv
    <3>2. CASE unanswered # {}
      <4> DEFINE o == CHOOSE p \in unanswered : TRUE
      <4>1. o \in unanswered
        BY <3>2
      <4>2. o \in Operators /\ Persisted(o) /\ Keying(o)
        BY <4>1 DEF Persisted, Keying, Doing
      <4>3. verdict' = Answered(op[o].says, verdict)
        BY <1>1, <3>2
      <4> HIDE DEF o
      <4>4. /\ Settled(op[o].file, L, issued, Answered(op[o].says, verdict))
            /\ disk = <<op[o].file>>
        BY <2>2, <4>2 DEF RegistriesInv
      <4>5. Stored(disk) = op[o].file
        BY <4>4 DEF Stored
      <4> QED
        BY <4>3, <4>4, <4>5
    <3> QED
      BY <3>1, <3>2
  <2>5. tokens \in Seq(L)
    BY <1>2 DEF TokensInv, Rooted
  <2> HIDE DEF tokens
  <2>6. Sound(memory', L, issued) /\ Settled(memory', L, issued, verdict')
    BY <1>2, <2>1, <2>3, <2>4, <2>5, ImportSound
  <2> QED
    BY <1>1, <1>3, <2>3, <2>4, <2>6 DEF RegistriesInv
<1> QED
  BY <1>1, <1>2, <1>4, <1>5 DEF SaysInv

LEMMA InitSays == Init => DecisionsInv
<1> SUFFICES ASSUME Init
             PROVE  SaysInv({1, 2})
  BY DEF DecisionsInv
<1> DEFINE L == {1, 2}
           tokens == <<1, 2>>
<1>1. issued = 2 /\ L \subseteq 1 .. issued
  BY DEF Init
<1>2. tokens \in Seq(L) /\ Read(toml).tokens = tokens
  BY DEF Init, Read
<1>3. op = [o \in Operators |-> NoOp]
  BY DEF Init
<1>4. TokensInv(L)
  BY <1>2, <1>3, NothingRooted DEF TokensInv, Rooted
<1> HIDE DEF tokens, L
<1>5. RegistriesInv(L)
  <2>1. disk = <<>> /\ memory = Import(NoKeys, tokens)
    BY DEF Init, Load, tokens
  <2>2. \A F : Settled(F, L, issued, verdict)
    BY DEF Init, Settled
  <2>3. Sound(NoKeys, L, issued)
    BY NoKeysSound
  <2>4. Sound(memory, L, issued)
    <3>1. issued \in Nat
      BY <1>1
    <3> QED
      BY <1>1, <1>2, <2>1, <2>3, <3>1, ImportSound
  <2>5. Stored(disk) = NoKeys
    BY <2>1 DEF Stored
  <2>6. \A o \in Operators : ~Keying(o)
    BY <1>3 DEF Keying, NoOp
  <2> QED
    BY <2>2, <2>3, <2>4, <2>5, <2>6 DEF RegistriesInv
<1> QED
  BY <1>1, <1>4, <1>5 DEF SaysInv, L

LEMMA NextSays == Shapes /\ DecisionsInv /\ [Next]_vars => DecisionsInv'
<1> SUFFICES ASSUME Shapes, DecisionsInv, [Next]_vars
             PROVE  DecisionsInv'
  OBVIOUS
<1>1. PICK L : SaysInv(L)
  BY DEF DecisionsInv
<1>2. SaysInv(L)' => DecisionsInv'
  BY DEF DecisionsInv
<1>3. ASSUME NEW o \in Operators, Administer(o)
      PROVE  SaysInv(L)'
  BY <1>1, <1>3, StageCreateSays, StageUpdateSays, StageRotateSays, StageDeleteSays,
     StageRevokeListedSays, PersistSays, CommitSays DEF Administer
<1>4. ASSUME NEW o \in Operators, GenerateTokens(o)
      PROVE  DecisionsInv'
  BY <1>1, <1>4, GenerateTokensSays
<1>5. ASSUME NEW o \in Operators, Configure(o)
      PROVE  SaysInv(L)'
  BY <1>1, <1>5, ConfigureSays
<1>6. ASSUME NEW r \in Requests, Use(r)
      PROVE  SaysInv(L)'
  <2>1. UNCHANGED configVars /\ UNCHANGED <<memory, disk, issued, verdict, lapsed>>
    BY <1>6 DEF Use, Match, Admit, Release
  <2> QED
    BY <1>1, <2>1, UnchangedSays
<1>7. CASE NewDay
  BY <1>1, <1>2, <1>7, NewDaySays
<1>8. CASE Restart
  BY <1>1, <1>2, <1>8, RestartSays
<1>9. CASE UNCHANGED vars
  <2>1. UNCHANGED configVars /\ UNCHANGED <<memory, disk, issued, verdict, lapsed>>
    BY <1>9 DEF vars, keyVars
  <2> QED
    BY <1>1, <1>2, <2>1, UnchangedSays
<1> QED
  BY <1>2, <1>3, <1>4, <1>5, <1>6, <1>7, <1>8, <1>9 DEF Next

LEMMA SettledVerdict ==
  ASSUME NEW F, NEW L, NEW n, NEW w, Settled(F, L, n, w), Sound(F, L, n),
         NEW s \in Secrets, w[s] # "undecided"
  PROVE  Verdict(F, s) = w[s]
<1>1. /\ \A i \in DOMAIN F.keys : F.keys[i].secret = s => Shown(F.keys[i].status) = w[s]
      /\ ~Has(F, s) => w[s] = "out"
  BY DEF Settled
<1>2. CASE ~Has(F, s)
  BY <1>1, <1>2 DEF Verdict
<1>3. CASE Has(F, s)
  <2> DEFINE First(j) == /\ F.keys[j].secret = s
                         /\ \A h \in 1 .. (j - 1) : F.keys[h].secret # s
             i == CHOOSE j \in DOMAIN F.keys : First(j)
  <2>1. PICK j \in DOMAIN F.keys : F.keys[j].secret = s
    BY <1>3 DEF Has
  <2>2. DOMAIN F.keys = 1 .. Len(F.keys) /\ Len(F.keys) \in Nat
    BY LenProperties DEF Sound
  <2>3. First(j)
    <3> SUFFICES ASSUME NEW h \in 1 .. (j - 1) PROVE F.keys[h].secret # s
      BY <2>1
    <3>1. h \in DOMAIN F.keys \ {j}
      BY <2>2
    <3> QED
      BY <2>1, <3>1 DEF Sound
  <2> HIDE DEF First
  <2>4. i \in DOMAIN F.keys /\ First(i)
    BY <2>3
  <2>5. Shown(F.keys[i].status) = w[s]
    BY <1>1, <2>4 DEF First
  <2>6. Verdict(F, s) = Shown(F.keys[i].status)
    BY <1>3, Zenon DEF Verdict, Shown, First
  <2> QED
    BY <2>5, <2>6
<1> QED
  BY <1>2, <1>3

(* The inductive invariant of the credentials: the registry in memory, the one
   on disk and the one being staged are sound, agree with what was said, and
   no credential that was legacy and is out can be imported again. *)
THEOREM CredentialsInvariant == Spec => [](KeysInv /\ DecisionsInv)
<1>1. Init => KeysInv /\ DecisionsInv
  BY InitKeys, InitSays
<1>2. KeysInv /\ DecisionsInv /\ [Next]_vars => (KeysInv /\ DecisionsInv)'
  BY NextKeepsKeys, NextSays DEF KeysInv, FilesInv
<1> QED
  BY <1>1, <1>2, PTL DEF Spec

(* What an answered operation said of a credential holds from then on and
   after any restart that can read the registry file, for any operations,
   failed writes, crashes and edits of the configuration file in between. *)
THEOREM DecisionsStand == Spec => []DecisionsHold
<1>1. DecisionsInv => DecisionsHold
  <2> SUFFICES ASSUME DecisionsInv, ~lapsed, NEW s \in Secrets,
                      verdict[s] # "undecided"
               PROVE  /\ Verdict(memory, s) = verdict[s]
                      /\ (\A o \in Operators : ~Doing(o, "keys", "persisted")) =>
                           Verdict(Load(disk, Read(toml).tokens), s) = verdict[s]
    BY DEF DecisionsHold
  <2>1. PICK L : SaysInv(L)
    BY DEF DecisionsInv
  <2>2. RegistriesInv(L) /\ TokensInv(L) /\ issued \in Nat /\ L \subseteq 1 .. issued
    BY <2>1 DEF SaysInv
  <2>3. Verdict(memory, s) = verdict[s]
    BY <2>2, SettledVerdict DEF RegistriesInv
  <2>4. ASSUME \A o \in Operators : ~Doing(o, "keys", "persisted")
        PROVE  Verdict(Load(disk, Read(toml).tokens), s) = verdict[s]
    <3> DEFINE tokens == Read(toml).tokens
    <3>1. Sound(Stored(disk), L, issued) /\ Settled(Stored(disk), L, issued, verdict)
      BY <2>2, <2>4 DEF RegistriesInv, Persisted
    <3>2. tokens \in Seq(L)
      BY <2>2 DEF TokensInv, Rooted
    <3>3. Load(disk, tokens) = Import(Stored(disk), tokens)
      BY DEF Load, Stored
    <3> HIDE DEF tokens
    <3>4. /\ Sound(Import(Stored(disk), tokens), L, issued)
          /\ Settled(Import(Stored(disk), tokens), L, issued, verdict)
      BY <2>2, <3>1, <3>2, ImportSound
    <3>5. Verdict(Load(disk, tokens), s) = verdict[s]
      BY <3>3, <3>4, SettledVerdict
    <3> QED
      BY <3>5 DEF tokens
  <2> QED
    BY <2>3, <2>4
<1>2. KeysInv /\ DecisionsInv => DecisionsHold
  BY <1>1
<1> QED
  BY <1>2, CredentialsInvariant, PTL
=============================================================================
