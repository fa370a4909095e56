------------------------------- MODULE Workspace -------------------------------
(***************************************************************************)
(* A dump workspace: captures of creators' posts beside the series file    *)
(* that the operator writes.  Each refresh captures a generation into a    *)
(* directory of its own, concurrently per creator, and switches the        *)
(* manifest to it; readers take the manifest and then the generation's     *)
(* files.  Refreshes run at the same time, fail or are cancelled at every  *)
(* step, processes die, and the machine loses power.                       *)
(*                                                                         *)
(* What is renamed, linked or removed survives a power loss once the       *)
(* directory is synced; the bytes of a file once the file is.              *)
(***************************************************************************)
EXTENDS Integers, FiniteSets

CONSTANTS
    Refresh,    \* refreshes, each with a generation of its own
    Creator,    \* creators whose posts are captured
    MaxLosses,  \* bound: power losses
    None

Sources == "sources.toml"
File == Creator \cup {Sources}

VARIABLES
    root,      \* the directory: "absent", "bare" or "marked" as a workspace
    gen,       \* each generation's files: "none", "written", "synced" or "torn"
    manifest,  \* whose generation the manifest names
    durable,   \* whose generation it names after a power loss
    named,     \* history: generations the manifest has named
    authored,  \* series.toml: "none", "scaffold" or the "operator"'s
    job,       \* each refresh: its step, creators left and being fetched, whether
               \* a worker failed, whether the generation is installed
    losses

vars == <<root, gen, manifest, durable, named, authored, job, losses>>
disk == <<root, gen, manifest, durable, named, authored>>

At(p, step) == job[p].pc = step
Goto(p, step) == job' = [job EXCEPT ![p].pc = step]
Running(p) == job[p].pc \notin {"off", "done", "failed"}
Empty == [f \in File |-> "none"]

-----------------------------------------------------------------------------
(* Beginning.                                                              *)

\* A new directory is marked; until it is, it is no workspace.
Create(p) ==
    /\ At(p, "off") /\ root = "absent"
    /\ root' = "bare"
    /\ Goto(p, "mark")
    /\ UNCHANGED <<gen, manifest, durable, named, authored, losses>>

Mark(p) ==
    /\ At(p, "mark")
    /\ root' = "marked"
    /\ Goto(p, "capture")
    /\ UNCHANGED <<gen, manifest, durable, named, authored, losses>>

\* A directory without marker and manifest is not touched.
Begin(p) ==
    /\ At(p, "off") /\ root # "absent"
    /\ Goto(p, IF root = "marked" \/ manifest # None THEN "capture" ELSE "done")
    /\ UNCHANGED <<disk, losses>>

-----------------------------------------------------------------------------
(* Capturing: two workers.  After an error no creator should be begun, but *)
(* the other worker may not have noticed yet.                              *)

Fetch(p, c) ==
    /\ At(p, "capture") /\ c \in job[p].left /\ Cardinality(job[p].busy) < 2
    /\ job' = [job EXCEPT ![p].left = @ \ {c}, ![p].busy = @ \cup {c}]
    /\ UNCHANGED <<disk, losses>>

\* Source, posts and raw posts of one creator.
Capture(p, c) ==
    /\ At(p, "capture") /\ c \in job[p].busy
    /\ gen' = [gen EXCEPT ![p][c] = "written"]
    /\ job' = [job EXCEPT ![p].busy = @ \ {c}]
    /\ UNCHANGED <<root, manifest, durable, named, authored, losses>>

WorkerFails(p, c) ==
    /\ At(p, "capture") /\ c \in job[p].busy
    /\ job' = [job EXCEPT ![p].busy = @ \ {c}, ![p].broken = TRUE]
    /\ UNCHANGED <<disk, losses>>

\* Once all results are in.
WriteSources(p) ==
    /\ At(p, "capture") /\ ~job[p].broken /\ \A c \in Creator : gen[p][c] = "written"
    /\ gen' = [gen EXCEPT ![p][Sources] = "written"]
    /\ Goto(p, "look")
    /\ UNCHANGED <<root, manifest, durable, named, authored, losses>>

-----------------------------------------------------------------------------
(* The scaffold of series.toml.                                            *)

\* A file that is there is left alone.
Look(p) ==
    /\ At(p, "look")
    /\ Goto(p, IF authored = "none" THEN "link" ELSE "sync")
    /\ UNCHANGED <<disk, losses>>

\* Mutant: the temporary file is renamed.
LinkOver(p) ==
    /\ At(p, "link")
    /\ authored' = "scaffold"
    /\ Goto(p, "sync")
    /\ UNCHANGED <<root, gen, manifest, durable, named, losses>>

\* A whole temporary file is linked.  A link never replaces: the operator's
\* file may be there by now.
Link(p) ==
    /\ At(p, "link")
    /\ authored' = IF authored = "none" THEN "scaffold" ELSE authored
    /\ Goto(p, "sync")
    /\ UNCHANGED <<root, gen, manifest, durable, named, losses>>

-----------------------------------------------------------------------------
(* Installing.                                                             *)

\* Mutant: only the temporary manifest is synced.
SyncManifestOnly(p) ==
    /\ At(p, "sync")
    /\ Goto(p, "rename")
    /\ UNCHANGED <<disk, losses>>

\* The temporary manifest, then every file of the generation.
SyncCapture(p) ==
    /\ At(p, "sync")
    /\ gen' = [gen EXCEPT ![p] = [f \in File |-> "synced"]]
    /\ Goto(p, "rename")
    /\ UNCHANGED <<root, manifest, durable, named, authored, losses>>

\* Mutant: installed means that the workspace has been synced.
RenameUnmarked(p) ==
    /\ At(p, "rename")
    /\ manifest' = p /\ named' = named \cup {p}
    /\ Goto(p, "settle")
    /\ UNCHANGED <<root, gen, durable, authored, losses>>

Rename(p) ==
    /\ At(p, "rename")
    /\ manifest' = p /\ named' = named \cup {p}
    /\ job' = [job EXCEPT ![p].pc = "settle", ![p].installed = TRUE]
    /\ UNCHANGED <<root, gen, durable, authored, losses>>

SyncRoot(p) ==
    /\ At(p, "settle")
    /\ durable' = manifest
    /\ job' = [job EXCEPT ![p].pc = "done", ![p].installed = TRUE]
    /\ UNCHANGED <<root, gen, manifest, named, authored, losses>>

-----------------------------------------------------------------------------
(* Failures.                                                               *)

\* An error or a cancelled context, wherever: once the workers have ended,
\* what was not installed goes, and so does a directory that is still empty.
Fails(p) ==
    /\ Running(p) /\ job[p].busy = {}
    /\ root' \in IF ~At(p, "mark") THEN {root}
                ELSE {"marked", IF authored = "none" THEN "absent" ELSE root}
    /\ gen' = IF job[p].installed THEN gen ELSE [gen EXCEPT ![p] = Empty]
    /\ Goto(p, "failed")
    /\ UNCHANGED <<manifest, durable, named, authored, losses>>

\* What is left behind stays.
Dies(p) ==
    /\ Running(p)
    /\ job' = [job EXCEPT ![p].pc = "failed", ![p].busy = {}]
    /\ UNCHANGED <<disk, losses>>

\* Unsynced bytes and an unsynced rename may be lost.
PowerLoss ==
    /\ losses < MaxLosses
    /\ losses' = losses + 1
    /\ gen' = [p \in Refresh |-> [f \in File |->
                 IF gen[p][f] = "written" THEN "torn" ELSE gen[p][f]]]
    /\ \E m \in {manifest, durable} : manifest' = m /\ durable' = m
    /\ job' = [p \in Refresh |-> IF Running(p)
                 THEN [job[p] EXCEPT !.pc = "failed", !.busy = {}] ELSE job[p]]
    /\ UNCHANGED <<root, named, authored>>

-----------------------------------------------------------------------------
(* The operator writes and removes series.toml.                            *)

Author ==
    /\ root # "absent"
    /\ authored' \in {"operator", "none"} \ {authored}
    /\ UNCHANGED <<root, gen, manifest, durable, named, job, losses>>

-----------------------------------------------------------------------------
Init ==
    /\ root = "absent" /\ gen = [p \in Refresh |-> Empty]
    /\ manifest = None /\ durable = None /\ named = {}
    /\ authored = "none"
    /\ job = [p \in Refresh |-> [pc |-> "off", left |-> Creator, busy |-> {},
                                 broken |-> FALSE, installed |-> FALSE]]
    /\ losses = 0

Next ==
    \/ \E p \in Refresh :
         \/ Create(p) \/ Mark(p) \/ Begin(p) \/ WriteSources(p) \/ Look(p) \/ Link(p)
         \/ SyncCapture(p) \/ Rename(p) \/ SyncRoot(p) \/ Fails(p) \/ Dies(p)
         \/ \E c \in Creator : Fetch(p, c) \/ Capture(p, c) \/ WorkerFails(p, c)
    \/ PowerLoss \/ Author

Spec == Init /\ [][Next]_vars

-----------------------------------------------------------------------------
\* Whatever fails, dies or loses power, and whatever other refreshes do: each
\* generation that the manifest has ever named keeps all its files whole, so a
\* reader that took the manifest at any time finds what it names.
CaptureWhole == \A p \in named : \A f \in File : gen[p][f] \in {"written", "synced"}

\* A refresh never replaces the series file that the operator has written,
\* also not one written while the refresh was about to leave its scaffold.
AuthoredKept == [][authored = "operator" => authored' \in {"operator", "none"}]_vars
================================================================================
