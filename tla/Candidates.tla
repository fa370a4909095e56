------------------------------- MODULE Candidates -------------------------------
(***************************************************************************)
(* Discovery of series in the posts of one source: after every sync the    *)
(* captured posts are judged in publication order, what no rule explains   *)
(* is grouped into candidates, and the candidates are reconciled with      *)
(* those of earlier runs, which an operator may have dismissed.            *)
(*                                                                         *)
(* A sync sees only the newest posts, may fail to store what it saw, and   *)
(* judges stored versions of the rest.  The table of candidates is read at *)
(* one moment and written at another.                                      *)
(***************************************************************************)
EXTENDS Integers, Sequences, FiniteSets, SequencesExt, FiniteSetsExt, Functions

CONSTANTS
    Posts,       \* posts 1..Posts, in the order of publication
    Version,     \* what a post may say: family, chapter, labels, text
    Window,      \* the posts a sync sees once it has a cursor; without one, all
    First,       \* what the posts said when the source was first listed
    Config,      \* the operator's configurations
    MaxChanges,    \* bound: edits and changes of configuration
    MaxDismissals  \* bound

VARIABLES
    site,        \* each post: the number of its last edit, and what it says
    stored,      \* the catalog's captures of them
    config,
    table,       \* discovery_candidates, by first_observed and id
    run,         \* the sync under way
    dismissals,  \* history: what was last dismissed of each candidate, and
                 \* whether a run was between reading and writing the table
    changes

vars == <<site, stored, config, table, run, dismissals, changes>>

Index == 1..Posts
NoFamily == "none"

-----------------------------------------------------------------------------
(* Analyze: evidence and groups, post by post.                             *)

\* What rules, overrides and ignored labels leave of a post as evidence.
\* seen.last is the last chapter of each family, seen.texts the last post
\* each text was found in.
Evidence(cfg, seen, post, v) ==
    LET confirmed == post \in cfg.pinned
        mapped == v.family \in cfg.mapped
    IN {<<"unknown-collection", l>> : l \in v.labels \ cfg.known}
       \cup {<<"numbering-reset", v.chapter>> : x \in {c \in {v.chapter} :
                 c > 0 /\ seen.last[v.family] > c /\ ~confirmed}}
       \cup {<<"first-chapter", v.chapter>> : x \in {c \in {v.chapter} :
                 c = 1 /\ ~mapped /\ ~confirmed}}
       \cup {<<"new-title-family", v.family>> : x \in {c \in {v.chapter} :
                 c > 0 /\ v.family # NoFamily /\ ~mapped /\ ~confirmed}}
       \cup {<<"repost", q>> : q \in {seen.texts[v.text]} \ {0}}

\* The group of a post: of its family, or the only one that shares a label
\* or, without any label, counts on; 0 if there is none.
FindGroup(groups, v) ==
    LET same == {i \in DOMAIN groups : v.family # NoFamily /\ groups[i].family = v.family}
        linked(g) ==
            \/ v.labels \cap g.labels # {}
            \/ /\ v.family = NoFamily /\ g.family = NoFamily
               /\ v.labels = {} /\ g.labels = {}
               /\ g.last > 0 /\ v.chapter = g.last + 1
        compatible == {i \in DOMAIN groups :
            (v.family = NoFamily \/ groups[i].family = NoFamily) /\ linked(groups[i])}
    IN IF same # {} THEN Min(same)
       ELSE IF Cardinality(compatible) = 1 THEN Min(compatible)
       ELSE 0

NewGroup(post, v) ==
    [family |-> v.family, labels |-> {}, last |-> 0, first |-> post, members |-> {}, evidence |-> {}]

Joined(g, post, v, evidence) ==
    [family |-> IF g.family = NoFamily THEN v.family ELSE g.family,
     labels |-> g.labels \cup v.labels, last |-> v.chapter, first |-> g.first,
     members |-> g.members \cup {post}, evidence |-> g.evidence \cup evidence]

Grouped(cfg, seen, post, v) ==
    LET evidence == Evidence(cfg, seen, post, v)
        at == FindGroup(seen.groups, v)
    IN IF post \in cfg.pinned \/ (evidence = {} /\ at = 0) THEN seen.groups
       ELSE IF at = 0 THEN Append(seen.groups, Joined(NewGroup(post, v), post, v, evidence))
       ELSE [seen.groups EXCEPT ![at] = Joined(@, post, v, evidence)]

Shown(cfg, v) == [v EXCEPT !.labels = @ \ cfg.ignored]

Judged(cfg, seen, captured, post) ==
    LET v == Shown(cfg, captured[post].is)
    IN IF post \notin DOMAIN captured THEN seen
       ELSE [groups |-> Grouped(cfg, seen, post, v),
             last |-> IF v.chapter > 0 THEN [seen.last EXCEPT ![v.family] = v.chapter] ELSE seen.last,
             texts |-> [seen.texts EXCEPT ![v.text] = post]]

Groups(cfg, captured) ==
    LET seen[post \in 0..Posts] ==
            IF post = 0 THEN [groups |-> <<>>,
                              last |-> [f \in {v.family : v \in Version} |-> 0],
                              texts |-> [t \in {v.text : v \in Version} |-> 0]]
            ELSE Judged(cfg, seen[post - 1], captured, post)
    IN seen[Posts].groups

\* A candidate of this capture; its identity is that of its first post.  The
\* edit in a print is history: it takes no part in a fingerprint.
Detected(cfg, captured, g) ==
    [id |-> [post |-> g.first, family |-> NoFamily, n |-> -1], family |-> g.family,
     first |-> g.first, members |-> g.members, evidence |-> g.evidence,
     prints |-> [m \in g.members |->
         [capture |-> captured[m].is, evidence |-> Shown(cfg, captured[m].is), edit |-> captured[m].edit]],
     status |-> IF Cardinality(g.members) > 1 THEN "needs_decision" ELSE "possible",
     dismissed |-> {}]

\* The set of one fingerprint, so that none equals none.
Fingerprint(c) ==
    {[members |-> [m \in DOMAIN c.prints |-> c.prints[m].evidence], evidence |-> c.evidence]}

-----------------------------------------------------------------------------
(* reconcile: candidates of this capture take over those of earlier runs.  *)

Overlap(old, c) ==
    2 * Cardinality(old.members \cap c.members) + IF old.first \in c.members THEN 1 ELSE 0

\* Each earlier candidate, in order, takes the first of those left it
\* overlaps with most; 0 if there is none.
Successors(previous, found) ==
    LET taken[k \in 0..Len(previous)] ==
            IF k = 0 THEN <<>>
            ELSE LET before == taken[k - 1]
                     left == {i \in DOMAIN found :
                                i \notin Range(before) /\ Overlap(previous[k], found[i]) > 0}
                     best == {i \in left : \A j \in left :
                                Overlap(previous[k], found[j]) <= Overlap(previous[k], found[i])}
                 IN Append(before, IF best = {} THEN 0 ELSE Min(best))
    IN taken[Len(previous)]

\* Mutant: every capture supersedes what was seen before.
SupersededAlways(old, m, captured, fresh) == m \in DOMAIN captured

\* Only a fetched version, or the one it was seen in, supersedes evidence.
Superseded(old, m, captured, fresh) ==
    /\ m \in DOMAIN captured
    /\ m \in fresh \/ captured[m].is = old.prints[m].capture

Kept(old, captured, fresh) ==
    {m \in old.members : ~Superseded(old, m, captured, fresh)}

\* Mutant: a candidate that goes on forgets that it was dismissed.
CarriedNameOnly(c, old) == [c EXCEPT !.id = old.id]

Carried(c, old) == [c EXCEPT !.id = old.id, !.dismissed = old.dismissed]

Succeeds(c, old, captured, fresh) ==
    LET kept == Kept(old, captured, fresh)
        merged == [Carried(c, old) EXCEPT
            !.members = @ \cup kept,
            !.prints = [m \in DOMAIN @ \cup kept |-> IF m \in kept THEN old.prints[m] ELSE @[m]],
            !.evidence = IF kept = {} THEN @ ELSE @ \cup old.evidence]
    IN [merged EXCEPT !.status = IF old.dismissed = Fingerprint(merged) THEN "resolved" ELSE @]

\* An earlier candidate nothing of this capture continues.
Faded(old, captured, fresh) ==
    [old EXCEPT !.status = IF Kept(old, captured, fresh) = {} THEN "resolved" ELSE @]

\* Mutant: an identity may be given twice.
NamedAnyway(c, reserved) == c

\* A new candidate gets an identity of its own if its post's is reserved.
Named(c, reserved) ==
    LET numbered(n) == [c.id EXCEPT !.family = c.family, !.n = n]
    IN IF c.id \notin reserved THEN c
       ELSE [c EXCEPT !.id = numbered(Min({n \in 0..Cardinality(reserved) : numbered(n) \notin reserved}))]

Ids(rows) == {rows[i].id : i \in DOMAIN rows}

\* The earlier candidates in their order, then the new ones.
Reconcile(found, previous, captured, fresh) ==
    LET next == Successors(previous, found)
        continued == [i \in DOMAIN previous |->
            IF next[i] = 0 THEN Faded(previous[i], captured, fresh)
            ELSE Succeeds(found[next[i]], previous[i], captured, fresh)]
        rows[k \in 0..Len(found)] ==
            IF k = 0 THEN continued
            ELSE LET before == rows[k - 1]
                 IN IF k \in Range(next) THEN before
                    ELSE Append(before, Named(found[k], Ids(before)))
    IN rows[Len(found)]

-----------------------------------------------------------------------------
(* A sync, and the operator.                                               *)

Idle == [at |-> "idle", captured |-> <<>>, fresh |-> {}, rows |-> <<>>]

\* A sync fetches the newest posts and stores the first of them, all unless
\* it fails.
Sync(k, last) ==
    /\ run.at = "idle"
    /\ stored' = [m \in DOMAIN stored \cup (k..last) |-> IF m \in k..last THEN site[m] ELSE stored[m]]
    /\ run' = [Idle EXCEPT !.at = "synced", !.fresh = k..Posts,
                           !.captured = [m \in DOMAIN stored' \cup (k..Posts) |->
                                           IF m >= k THEN site[m] ELSE stored'[m]]]
    /\ UNCHANGED <<site, config, table, dismissals, changes>>

\* decideCandidates reads the captures and the table.
Judge ==
    /\ run.at = "synced"
    /\ LET groups == Groups(config, run.captured)
           found == [i \in DOMAIN groups |-> Detected(config, run.captured, groups[i])]
       IN run' = [run EXCEPT !.at = "judged",
                             !.rows = Reconcile(found, table, run.captured, run.fresh)]
    /\ UNCHANGED <<site, stored, config, table, dismissals, changes>>

Save ==
    /\ run.at = "judged"
    /\ table' = run.rows
    /\ run' = Idle
    /\ UNCHANGED <<site, stored, config, dismissals, changes>>

\* Discovery is advisory: a table that cannot be read or written, or a
\* death, leaves it as it is.
GiveUp ==
    /\ run.at \in {"synced", "judged"}
    /\ run' = Idle
    /\ UNCHANGED <<site, stored, config, table, dismissals, changes>>

\* setup candidates dismiss.
Dismiss(i) ==
    /\ run.at # "synced"
    /\ Cardinality(DOMAIN dismissals \cup {table[i].id}) <= MaxDismissals
    /\ table[i].dismissed # Fingerprint(table[i])
    /\ table' = [table EXCEPT ![i] =
                    [@ EXCEPT !.status = "resolved", !.dismissed = Fingerprint(table[i])]]
    /\ dismissals' = [id \in DOMAIN dismissals \cup {table[i].id} |->
          IF id = table[i].id
            THEN [of |-> Fingerprint(table[i]), alone |-> run.at # "judged"]
            ELSE dismissals[id]]
    /\ UNCHANGED <<site, stored, config, run, changes>>

\* A run judges what it has fetched by the configuration it was started with:
\* a change during a run is as good as one after it.
Edit(m, v) ==
    /\ run.at = "idle" /\ changes < MaxChanges /\ v # site[m].is
    /\ site' = [site EXCEPT ![m] = [edit |-> changes + 2, is |-> v]]
    /\ changes' = changes + 1
    /\ UNCHANGED <<stored, config, table, run, dismissals>>

Configure(cfg) ==
    /\ run.at = "idle" /\ changes < MaxChanges /\ cfg # config
    /\ config' = cfg
    /\ changes' = changes + 1
    /\ UNCHANGED <<site, stored, table, run, dismissals>>

Init ==
    /\ \E first \in First : site = [m \in Index |-> [edit |-> 1, is |-> first[m]]]
    /\ stored = <<>>
    /\ config \in {cfg \in Config : cfg.mapped = {} /\ cfg.pinned = {}}
    /\ table = <<>>
    /\ run = Idle
    /\ dismissals = <<>>
    /\ changes = 0

Next ==
    \/ \E k \in {1, Posts + 1 - Window} : \E last \in {k - 1, k, Posts} : Sync(k, last)
    \/ Judge
    \/ Save
    \/ GiveUp
    \/ \E i \in DOMAIN table : Dismiss(i)
    \/ \E m \in Index, v \in Version : Edit(m, v)
    \/ \E cfg \in Config : Configure(cfg)

Spec == Init /\ [][Next]_vars

-----------------------------------------------------------------------------
\* A run never computes two candidates of one identity, which the table
\* would refuse as a whole.
IdsUnique == Cardinality(Ids(run.rows)) = Len(run.rows)

\* What was dismissed stays dismissed: a candidate whose evidence is what an
\* operator has dismissed is not open, unless a run was at that moment
\* between reading and writing the table.
DismissalKept ==
    \A i \in DOMAIN table :
      LET c == table[i]
      IN c.id \in DOMAIN dismissals /\ dismissals[c.id].alone
         /\ dismissals[c.id].of = Fingerprint(c) => c.status = "resolved"

\* The same whenever the operator dismisses.
DismissalAlwaysKept ==
    \A i \in DOMAIN table :
      LET c == table[i]
      IN c.id \in DOMAIN dismissals /\ dismissals[c.id].of = Fingerprint(c) => c.status = "resolved"

\* And under whatever identity the evidence shows.
DismissedEverywhere ==
    \A i \in DOMAIN table :
      (\E id \in DOMAIN dismissals : dismissals[id].alone /\ dismissals[id].of = Fingerprint(table[i]))
        => table[i].status = "resolved"

Of(rows, id) == CHOOSE c \in ToSet(rows) : c.id = id

\* Evidence outlives what was lost: of an open candidate no post leaves, and
\* the candidate is not resolved, because of a version of the post older
\* than the one the evidence was seen in.
EvidenceKept ==
    [][\A i \in DOMAIN table : \A m \in DOMAIN table[i].prints :
         LET old == table[i] new == Of(table', old.id)
         IN /\ old.status # "resolved"
            /\ \/ m \notin DOMAIN new.prints
               \/ new.prints[m].edit < old.prints[m].edit
               \/ new.status = "resolved" /\ new.dismissed # Fingerprint(new)
            => /\ m \in DOMAIN run.captured
               /\ \/ run.captured[m].edit >= old.prints[m].edit
                  \/ run.captured[m].is = old.prints[m].capture]_table
================================================================================
