----------------------------- MODULE SelfUpdate -----------------------------
(***************************************************************************)
(* `opencode2api update` (src/src/update.rs, app/utility.rs): check the    *)
(* latest release, download it next to the installed binary, try it, move  *)
(* the installed binary away, move the candidate in, try it in place, and  *)
(* go back when it fails.  Every await is a step: other updates, failing   *)
(* file operations and a kill fall in between.                             *)
(*                                                                         *)
(* A binary is named after the update that downloaded it; the first one is *)
(* Shipped.  A running update finds "its" binary under whatever name that  *)
(* binary has by then.                                                     *)
(***************************************************************************)
EXTENDS Naturals, FiniteSetsExt, Sequences

CONSTANTS
  Updates,  \* the updates that are run, one after the other or at once
  Versions, \* versions of binaries and releases
  First,    \* the version of Shipped
  Shipped, Nothing

VARIABLES
  disk,   \* disk[n]: the binary under that name, or Nothing
  tried,  \* ghost: the binaries that have passed a smoke test
  update  \* update[u]: how far update u is

vars == <<disk, tried, update>>

Name == [kind : {"target"}, of : {Shipped}] \cup [kind : {"temp", "backup"}, of : Updates]
Target    == [kind |-> "target", of |-> Shipped]
Temp(u)   == [kind |-> "temp", of |-> u]
Backup(u) == [kind |-> "backup", of |-> u]

Binary == Updates \cup {Shipped}

\* exe: the binary the update runs as; path: what current_exe says, a list of
\* at most one name; forced: --force; clean: ghost, no other update overlapped
\* and no file operation failed.
Idle == [pc |-> "idle", exe |-> Shipped, path |-> <<>>, version |-> First,
         forced |-> FALSE, clean |-> TRUE]

Ended == {"idle", "current", "updated", "failed", "killed"}
Pcs == Ended \cup {"launched", "chosen", "written", "vetted", "moved", "placed",
                   "unplaced", "confirmed", "rejected", "removed"}

TypeOK ==
  /\ disk \in [Name -> Binary \cup {Nothing}]
  /\ tried \subseteq Updates
  /\ update \in [Updates -> [pc : Pcs, exe : Binary, path : Seq(Name),
                             version : Versions, forced : BOOLEAN, clean : BOOLEAN]]

Init ==
  /\ disk = [n \in Name |-> IF n = Target THEN Shipped ELSE Nothing]
  /\ tried = {}
  /\ update = [u \in Updates |-> Idle]

-----------------------------------------------------------------------------
(* Versions: [core, pre], a part of pre being [number, rank].  Missing core *)
(* parts count as zero, a pre-release comes before its release.             *)

VersionOf(b) == IF b = Shipped THEN First ELSE update[b].version

CoreAt(v, i) == IF i <= Len(v.core) THEN v.core[i] ELSE 0

\* compare_versions on the numbers: the first that differ, if any.
CoreDiffers(a, b) ==
  {i \in 1 .. Len(a.core) + Len(b.core) : CoreAt(a, i) # CoreAt(b, i)}

PartLess(x, y) ==
  IF x.number = y.number THEN x.rank < y.rank ELSE x.number

\* compare_prerelease
PreLess(a, b) ==
  LET D == {i \in 1 .. Len(a) : i <= Len(b) /\ a[i] # b[i]} IN
  /\ a # <<>>
  /\ \/ b = <<>>
     \/ D # {} /\ PartLess(a[Min(D)], b[Min(D)])
     \/ D = {} /\ Len(a) < Len(b)

Less(a, b) ==
  LET D == CoreDiffers(a, b) IN
  IF D = {} THEN PreLess(a.pre, b.pre) ELSE CoreAt(a, Min(D)) < CoreAt(b, Min(D))

Same(a, b) == CoreDiffers(a, b) = {} /\ a.pre = b.pre

HasUpdate(current, release) == Less(current, release)

-----------------------------------------------------------------------------
Running == {u \in Updates : update[u].pc \notin Ended}

Goes(u, pc) == update' = [update EXCEPT ![u].pc = pc]

\* A file operation failed, unasked.
GoesFaulty(u, pc) == update' = [update EXCEPT ![u].pc = pc, ![u].clean = FALSE]

At(u, pc) == update[u].pc = pc

Remove(n) == disk' = [disk EXCEPT ![n] = Nothing]
Rename(from, to) == disk' = [disk EXCEPT ![to] = disk[from], ![from] = Nothing]

CurrentExe(b) ==
  LET N == {n \in Name : disk[n] = b} IN IF N = {} THEN <<>> ELSE <<CHOOSE n \in N : TRUE>>

\* The name an update works on; nothing is there if its binary was deleted.
Path(u) == update[u].path[1]
There(u) == update[u].path # <<>> /\ disk[Path(u)] # Nothing

Launch(u, forced) ==
  /\ At(u, "idle") /\ disk[Target] # Nothing
  /\ update' = [v \in Updates |->
       IF v = u
       THEN [Idle EXCEPT !.pc = "launched", !.exe = disk[Target],
                         !.forced = forced, !.clean = Running = {}]
       ELSE [update[v] EXCEPT !.clean = @ /\ v \notin Running]]
  /\ UNCHANGED <<disk, tried>>

\* cmd_update with the latest release at hand; apply_update starts with
\* current_exe.
Check(u, release) ==
  /\ At(u, "launched")
  /\ IF HasUpdate(VersionOf(update[u].exe), release) \/ update[u].forced
     THEN update' = [update EXCEPT ![u].pc = "chosen", ![u].version = release,
                                   ![u].path = CurrentExe(update[u].exe)]
     ELSE Goes(u, "current")
  /\ UNCHANGED <<disk, tried>>

\* No release, no asset, a failed download or a wrong checksum.
Unavailable(u) ==
  /\ update[u].pc \in {"launched", "chosen"}
  /\ Goes(u, "failed")
  /\ UNCHANGED <<disk, tried>>

Download(u) ==
  /\ At(u, "chosen")
  /\ disk' = [disk EXCEPT ![Temp(u)] = u]
  /\ Goes(u, "written")
  /\ UNCHANGED tried

\* Faulty: the candidate is tried only in place.
VetNothing(u) ==
  /\ At(u, "written") /\ Goes(u, "vetted") /\ UNCHANGED <<disk, tried>>

Vet(u) ==
  /\ At(u, "written")
  /\ \/ tried' = tried \cup {u} /\ Goes(u, "vetted") /\ UNCHANGED disk
     \/ Remove(Temp(u)) /\ Goes(u, "failed") /\ UNCHANGED tried

SetAside(u) ==
  /\ At(u, "vetted")
  /\ \/ There(u) /\ Rename(Path(u), Backup(u)) /\ Goes(u, "moved")
     \/ GoesFaulty(u, "failed") /\ UNCHANGED disk
  /\ UNCHANGED tried

Place(u) ==
  /\ At(u, "moved")
  /\ \/ Rename(Temp(u), Path(u)) /\ Goes(u, "placed")
     \/ Goes(u, "unplaced") /\ UNCHANGED disk
  /\ UNCHANGED tried

\* "previous binary restored": the result of the rename is not looked at.
Unplace(u) ==
  /\ At(u, "unplaced")
  /\ \/ /\ disk[Backup(u)] # Nothing
        /\ disk' = [disk EXCEPT ![Path(u)] = disk[Backup(u)],
                                ![Backup(u)] = Nothing, ![Temp(u)] = Nothing]
        /\ Goes(u, "failed")
     \/ Remove(Temp(u)) /\ GoesFaulty(u, "failed")
  /\ UNCHANGED tried

Confirm(u) ==
  /\ At(u, "placed")
  /\ \/ /\ disk[Path(u)] # Nothing
        /\ tried' = tried \cup ({disk[Path(u)]} \ {Shipped})
        /\ Goes(u, "confirmed")
     \/ Goes(u, "rejected") /\ UNCHANGED tried
  /\ UNCHANGED disk

Discard(u) ==
  /\ At(u, "rejected")
  /\ \/ Remove(Path(u)) /\ Goes(u, "removed")
     \/ Goes(u, "removed") /\ UNCHANGED disk
  /\ UNCHANGED tried

\* Faulty: the failed binary is removed and that is it.
RestoreNothing(u) ==
  /\ At(u, "removed") /\ Goes(u, "failed") /\ UNCHANGED <<disk, tried>>

Restore(u) ==
  /\ At(u, "removed")
  /\ \/ disk[Backup(u)] # Nothing /\ Rename(Backup(u), Path(u)) /\ Goes(u, "failed")
     \/ GoesFaulty(u, "failed") /\ UNCHANGED disk
  /\ UNCHANGED tried

\* "update succeeded but backup cleanup failed" is an error as well.
Cleanup(u) ==
  /\ At(u, "confirmed")
  /\ \/ disk[Backup(u)] # Nothing /\ Remove(Backup(u)) /\ Goes(u, "updated")
     \/ GoesFaulty(u, "failed") /\ UNCHANGED disk
  /\ UNCHANGED tried

Killed(u) ==
  /\ u \in Running
  /\ Goes(u, "killed")
  /\ UNCHANGED <<disk, tried>>

Next ==
  \E u \in Updates :
    \/ \E forced \in BOOLEAN : Launch(u, forced)
    \/ \E release \in Versions : Check(u, release)
    \/ Unavailable(u)
    \/ Download(u)
    \/ Vet(u)
    \/ SetAside(u)
    \/ Place(u)
    \/ Unplace(u)
    \/ Confirm(u)
    \/ Discard(u)
    \/ Restore(u)
    \/ Cleanup(u)
    \/ Killed(u)

Spec == Init /\ [][Next]_vars

-----------------------------------------------------------------------------
(* Properties.                                                             *)

\* Whatever is killed, fails or overlaps, the directory holds a binary that
\* works: the one shipped or one that has passed a smoke test.
BinarySurvives ==
  \E n \in Name : disk[n] \in tried \cup {Shipped}

\* "A failed self-update leaves or restores the previous binary": one that
\* nothing else disturbed ends in failure only with the binary it ran as where
\* it found it.
FailedUpdateRestores ==
  [][\A u \in Updates :
       ~At(u, "failed") /\ update'[u].pc = "failed" /\ update'[u].clean
         => disk'[Target] = update[u].exe]_vars
=============================================================================
