--------------------------- MODULE AuthoringProofs ---------------------------
(***************************************************************************)
(* Theorems about what a configuration would do to a library (Preview, as  *)
(* MCAuthoring names it), for every set of chapters, every configuration,  *)
(* every kind of destination and any number of edits and failures; about   *)
(* how the rules of a configuration decide a post (Classify), for every    *)
(* set of posts and of entries and a configuration of any length; about    *)
(* the candidates that syncs discover (Candidates); and about positions    *)
(* and reading order of chapters (Numbering), for a series of any length.  *)
(***************************************************************************)
EXTENDS MCAuthoring, FiniteSetTheorems, SequenceTheorems, WellFoundedInduction, TLAPS

(* Candidates have names of their own, and are of chapters.                *)
Listed(sel) ==
    /\ \A c, o \in sel : c.name = o.name => c = o
    /\ \A c \in sel : c.art.of \in Chapter

(* In a filesystem a path has one file, and what is held is on record.     *)
Sound(lib) ==
    /\ lib = [records |-> lib.records, holds |-> lib.holds]
    /\ \A o \in lib.records \cup lib.holds : o.art.of \in Chapter
    /\ kind = "filesystem" => lib.holds \subseteq lib.records /\ Listed(lib.holds)

(* The artifact of a release is its own.                                   *)
OwnArtifacts(cat) == \A r \in Chapter : cat[r] # None => cat[r].of = r

(* A comparison stands as long as what it compared.                        *)
VerdictStands == verdict # None =>
    /\ verdict.for = draft
    /\ verdict.plan = P!AppliedLibraryPlan(draft)
    /\ verdict.resumes \/ pending = None
    /\ verdict.plan.acts # {} \/ verdict.plan.retires # {} => verdict.requires

(* What a delivery that is through has delivered: every chapter, and of a  *)
(* chapter nothing else.                                                   *)
InPlace == settled /\ kind = "filesystem" =>
    /\ P!Named(catalog) \subseteq library.records
    /\ \A o \in library.records, c \in P!Named(catalog) :
          c.art.of = o.art.of => o \in P!Named(catalog)

PreviewInv ==
    /\ OwnArtifacts(catalog) /\ Sound(library) /\ faults \in Nat
    /\ pending # None => Listed(pending)
    /\ InPlace /\ VerdictStands

(* Names.                                                                  *)

Shown(c) == <<c.name.series, Fold[c.name.file], c.name.suffix>>

LEMMA NamesApart ==
  ASSUME NEW cat, OwnArtifacts(cat)
  PROVE  /\ Listed(P!Named(cat))
         /\ \A c \in P!Named(cat) : c.art.of \in Chapter /\ c.art = cat[c.art.of] /\ c.art # None
         /\ \A c, o \in P!Named(cat) : c # o => Shown(c) # Shown(o)
         /\ \A r \in Chapter : cat[r] # None => \E c \in P!Named(cat) : c.art.of = r
<1> DEFINE arts == {cat[r] : r \in {q \in Chapter : cat[q] # None}}
           NameOf(a) == [series |-> a.is.series, file |-> a.is.name,
                         suffix |-> IF \E b \in arts \ {a} : P!Key(b) = P!Key(a)
                                    THEN a.of ELSE None]
           Candidate(a) == [art |-> a, name |-> NameOf(a)]
<1>1. P!Named(cat) = {Candidate(a) : a \in arts}
  BY Zenon DEF P!Named
<1>2. \A a \in arts : a.of \in Chapter /\ a = cat[a.of] /\ a # None
  BY DEF OwnArtifacts
<1>3. \A r \in Chapter : cat[r] # None => cat[r] \in arts /\ cat[r].of = r
  BY DEF OwnArtifacts
<1>4. \A a \in arts : Candidate(a).art = a
  OBVIOUS
<1>5. ASSUME NEW a \in arts, NEW b \in arts, a # b
      PROVE  Shown(Candidate(a)) # Shown(Candidate(b))
  <2>1. a.of # b.of
    BY <1>2, <1>5
  <2>2. /\ Shown(Candidate(a)) = <<a.is.series, Fold[a.is.name], NameOf(a).suffix>>
        /\ Shown(Candidate(b)) = <<b.is.series, Fold[b.is.name], NameOf(b).suffix>>
    BY DEF Shown
  <2>3. CASE P!Key(a) = P!Key(b)
    <3>1. NameOf(a).suffix = a.of
      BY <1>5, <2>3
    <3>2. NameOf(b).suffix = b.of
      BY <1>5, <2>3
    <3> QED
      BY <2>1, <2>2, <3>1, <3>2
  <2>4. CASE P!Key(a) # P!Key(b)
    BY <2>2, <2>4 DEF P!Key
  <2> QED
    BY <2>3, <2>4
<1> HIDE DEF arts, Candidate
<1>6. \A c, o \in P!Named(cat) : c # o => Shown(c) # Shown(o)
  BY <1>1, <1>5
<1>7. \A c \in P!Named(cat) : c.art.of \in Chapter /\ c.art = cat[c.art.of] /\ c.art # None
  BY <1>1, <1>2, <1>4
<1>8. \A r \in Chapter : cat[r] # None => \E c \in P!Named(cat) : c.art.of = r
  BY <1>1, <1>3, <1>4
<1>9. Listed(P!Named(cat))
  BY <1>6, <1>7 DEF Listed, Shown
<1> QED
  BY <1>6, <1>7, <1>8, <1>9

(* Carrying out plans.                                                     *)

LEMMA WorkPart ==
  ASSUME NEW lib, NEW sel
  PROVE  /\ P!Work(lib, sel) \subseteq sel
         /\ kind = "filesystem" => \A c \in sel \ P!Work(lib, sel) : c \in lib.records /\ c \in lib.holds
<1> QED
  BY DEF P!Work, P!Action, P!Intact

LEMMA PutSound ==
  ASSUME NEW lib, Sound(lib), NEW sel, Listed(sel), NEW done \in SUBSET sel
  PROVE  Sound(P!Put(lib, done))
<1>1. P!Put(lib, done).records \subseteq done \cup lib.records
  BY DEF P!Put
<1>2. P!Put(lib, done).holds \subseteq done \cup lib.holds
  BY DEF P!Put
<1>3. P!Put(lib, done)
        = [records |-> P!Put(lib, done).records, holds |-> P!Put(lib, done).holds]
  BY DEF P!Put
<1>4. CASE kind = "filesystem"
  <2>1. /\ P!Put(lib, done).records = done \cup lib.records
        /\ P!Put(lib, done).holds = done \cup {f \in lib.holds : \A c \in done : c.name # f.name}
    BY <1>4 DEF P!Put
  <2> QED
    BY <1>1, <1>2, <1>3, <1>4, <2>1 DEF Sound, Listed
<1>5. CASE kind # "filesystem"
  BY <1>1, <1>2, <1>3, <1>5 DEF Sound, Listed
<1> QED
  BY <1>4, <1>5

(* When a plan is through, its candidates are on record, and nothing else  *)
(* of their releases.                                                      *)
LEMMA FinishSound ==
  ASSUME NEW lib, Sound(lib), NEW sel, Listed(sel)
  PROVE  /\ Sound(P!Finish(lib, sel))
         /\ kind = "filesystem" =>
              /\ sel \subseteq P!Finish(lib, sel).records
              /\ \A o \in P!Finish(lib, sel).records, c \in sel : c.art.of = o.art.of => o \in sel
<1> DEFINE done == P!Work(lib, sel)
           new == P!Put(lib, done)
           gone == P!Retired(lib, sel, sel)
           end == P!Finish(lib, sel)
<1>1. done \in SUBSET sel
  BY WorkPart
<1>2. Sound(new)
  BY <1>1, PutSound
<1> DEFINE left == {f \in new.holds : \/ \E c \in sel : c.name = f.name
                                      \/ ~\E o \in gone : o.name = f.name}
<1>0. end = [records |-> new.records \ gone, holds |-> left]
  BY Zenon DEF P!Finish
<1>3. /\ end = [records |-> end.records, holds |-> end.holds]
      /\ end.records = new.records \ gone
      /\ end.holds = left
  <2> HIDE DEF end, new, gone, left
  <2> QED
    BY <1>0
<1>4. CASE kind # "filesystem"
  <2>1. end.records \subseteq new.records /\ end.holds \subseteq new.holds
    BY <1>3
  <2> HIDE DEF new, gone, end, left
  <2>2. Sound(end)
    BY <1>2, <1>3, <1>4, <2>1 DEF Sound
  <2> QED
    BY <1>4, <2>2 DEF end
<1>5. CASE kind = "filesystem"
  <2>1. gone = {o \in lib.records \ sel : \E c \in sel : c.art.of = o.art.of}
    BY <1>5 DEF P!Retired
  <2>2. \A c \in sel \ done : c \in lib.records /\ c \in lib.holds
    BY <1>5, WorkPart
  <2>3. /\ new.records = done \cup lib.records
        /\ new.holds = done \cup {f \in lib.holds : \A c \in done : c.name # f.name}
    BY <1>5 DEF P!Put
  <2> HIDE DEF done, new, gone, end
  <2>4. sel \subseteq end.records
    BY <1>1, <1>3, <2>1, <2>2, <2>3
  <2>5. ASSUME NEW o \in end.records, NEW c \in sel, c.art.of = o.art.of PROVE o \in sel
    BY <1>1, <1>3, <2>1, <2>3, <2>5
  <2>6. ASSUME NEW f \in end.holds PROVE f \notin gone
    <3>1. SUFFICES ASSUME f \in gone PROVE FALSE
      OBVIOUS
    <3>2. PICK c \in sel : c.name = f.name
      BY <1>3, <3>1
    <3>3. f \notin sel /\ f \in new.holds
      BY <1>3, <2>1, <3>1
    <3>4. f \in lib.holds /\ c \notin done
      BY <1>1, <2>3, <3>2, <3>3
    <3>5. c \in lib.holds
      BY <2>2, <3>4
    <3> QED
      BY <1>5, <3>2, <3>3, <3>4, <3>5 DEF Sound, Listed
  <2>7. end.holds \subseteq end.records
    BY <1>2, <1>3, <1>5, <2>6 DEF Sound
  <2>8. Sound(end)
    BY <1>2, <1>3, <1>5, <2>7 DEF Sound, Listed
  <2> QED
    BY <1>5, <2>4, <2>5, <2>8 DEF end
<1> QED
  BY <1>4, <1>5

(* What a delivery leaves, through or not.                                 *)
LEMMA PublishSound ==
  ASSUME Sound(library), pending # None => Listed(pending), faults \in Nat,
         NEW sel, Listed(sel), NEW rebuild, P!Publish(sel, rebuild)
  PROVE  /\ Sound(library) /\ faults' \in Nat
         /\ \E lib : Sound(lib) /\ library' = lib
         /\ pending' # None => Listed(pending')
         /\ settled' /\ kind = "filesystem" =>
              /\ sel = P!Named(catalog')
              /\ sel \subseteq library'.records
              /\ \A o \in library'.records, c \in sel : c.art.of = o.art.of => o \in sel
<1>1. CASE P!Refuses(sel, rebuild)
  BY <1>1 DEF P!Publish
<1>2. CASE P!Delivers(sel)
  <2> DEFINE first == IF pending = None THEN sel ELSE pending
             half == IF first = sel THEN library ELSE P!Finish(library, first)
  <2>1. Listed(first)
    OBVIOUS
  <2>2. Sound(half)
    BY <2>1, FinishSound
  <2> HIDE DEF first, half
  <2>3. CASE /\ library' = P!Finish(half, sel)
             /\ pending' = None /\ settled' = (sel = P!Named(catalog'))
             /\ UNCHANGED faults
    <3>1. Sound(P!Finish(half, sel))
      BY <2>2, FinishSound
    <3>2. kind = "filesystem" =>
              /\ sel \subseteq P!Finish(half, sel).records
              /\ \A o \in P!Finish(half, sel).records, c \in sel : c.art.of = o.art.of => o \in sel
      BY <2>2, FinishSound
    <3> QED
      BY <2>3, <3>1, <3>2
  <2>4. CASE \E plan \in {<<library, first>>, <<half, sel>>} :
               /\ P!Fault
               /\ \E done \in SUBSET P!Work(plan[1], plan[2]) \ {P!Work(plan[1], plan[2])} :
                     library' = P!Put(plan[1], done)
               /\ pending' = plan[2] /\ settled' = FALSE
    <3>1. PICK lib, plan : /\ Sound(lib) /\ Listed(plan)
                           /\ P!Fault
                           /\ \E done \in SUBSET P!Work(lib, plan) : library' = P!Put(lib, done)
                           /\ pending' = plan /\ ~settled'
      BY <2>1, <2>2, <2>4
    <3>2. PICK done \in SUBSET P!Work(lib, plan) : library' = P!Put(lib, done)
      BY <3>1
    <3>3. done \in SUBSET plan
      BY WorkPart
    <3>4. Sound(P!Put(lib, done))
      BY <3>1, <3>3, PutSound
    <3> QED
      BY <3>1, <3>2, <3>4 DEF P!Fault
  <2> QED
    BY <1>2, <2>3, <2>4, Zenon DEF P!Delivers, first, half
<1> QED
  BY <1>1, <1>2 DEF P!Publish

(*------------------------- what an operator is told ----------------------*)
LEMMA PlanStays ==
  ASSUME NEW cfg, UNCHANGED <<kind, held, unreadable, catalog, library>>
  PROVE  P!AppliedLibraryPlan(cfg)' = P!AppliedLibraryPlan(cfg)
BY DEF P!AppliedLibraryPlan, P!PreviewRebuild, P!Selected, P!BlockedSeries, P!Wanted,
   P!Materializable, P!RenamesForHook, P!Action, P!Intact, P!Retired

LEMMA PreviewBegins == P!Init => PreviewInv
<1> SUFFICES ASSUME P!Init PROVE PreviewInv
  OBVIOUS
<1>1. OwnArtifacts(catalog)
  BY DEF P!Init, OwnArtifacts
<1>2. PICK cat : cat = catalog
  OBVIOUS
<1>3. Listed(P!Named(cat))
  BY <1>1, <1>2, NamesApart
<1>4. Sound(library)
  BY <1>2, <1>3 DEF P!Init, Sound, Listed
<1>5. InPlace
  BY DEF P!Init, InPlace
<1>6. VerdictStands
  BY DEF P!Init, VerdictStands
<1> QED
  BY <1>1, <1>4, <1>5, <1>6 DEF P!Init, PreviewInv

(* A delivery of the chapters of the catalog there is then, or of a part.  *)
LEMMA DeliveryStays ==
  ASSUME PreviewInv, OwnArtifacts(catalog'), kind' = kind, verdict' = None,
         NEW sel, sel \subseteq P!Named(catalog'), NEW rebuild, P!Publish(sel, rebuild)
  PROVE  PreviewInv'
<1>1. PICK cat : cat = catalog'
  OBVIOUS
<1>2. Listed(sel)
  <2>1. Listed(P!Named(cat)) /\ sel \subseteq P!Named(cat)
    BY <1>1, NamesApart
  <2> QED
    BY <2>1 DEF Listed
<1>3. /\ faults' \in Nat
      /\ \E lib : Sound(lib) /\ library' = lib
      /\ pending' # None => Listed(pending')
      /\ settled' /\ kind = "filesystem" =>
           /\ sel = P!Named(catalog')
           /\ sel \subseteq library'.records
           /\ \A o \in library'.records, c \in sel : c.art.of = o.art.of => o \in sel
  BY <1>2, PublishSound DEF PreviewInv
<1>4. Sound(library)'
  BY <1>3 DEF Sound
<1>5. InPlace'
  BY <1>3 DEF InPlace
<1>6. VerdictStands'
  BY DEF VerdictStands
<1>7. OwnArtifacts(catalog)' /\ (pending # None => Listed(pending))'
  BY <1>3
<1> QED
  BY <1>3, <1>4, <1>5, <1>6, <1>7 DEF PreviewInv

LEMMA PreviewStays == PreviewInv /\ [P!Next]_(P!vars) => PreviewInv'
<1> SUFFICES ASSUME PreviewInv, [P!Next]_(P!vars) PROVE PreviewInv'
  OBVIOUS
<1>1. ASSUME NEW listed \in SUBSET Chapter, P!Run(listed) PROVE PreviewInv'
  <2>1. OwnArtifacts(catalog')
    BY <1>1 DEF P!Run, P!Captured, P!Wanted, OwnArtifacts, PreviewInv
  <2> QED
    BY <1>1, <2>1, DeliveryStays DEF P!Run
<1>2. ASSUME NEW failing \in SUBSET held, P!Rebuild(failing) PROVE PreviewInv'
  <2>1. OwnArtifacts(catalog')
    BY <1>2 DEF P!Rebuild, P!Rebuilt, P!Wanted, OwnArtifacts, PreviewInv
  <2>2. P!Selected(catalog', P!BlockedSeries(deployed, failing)) \subseteq P!Named(catalog')
    BY DEF P!Selected
  <2> QED
    BY <1>2, <2>1, <2>2, DeliveryStays DEF P!Rebuild
<1>3. ASSUME UNCHANGED <<kind, catalog, library, pending, settled>>, faults' \in Nat,
             VerdictStands'
      PROVE  PreviewInv'
  <2>1. Sound(library)'
    BY <1>3 DEF PreviewInv, Sound
  <2>2. OwnArtifacts(catalog)' /\ (pending # None => Listed(pending))'
    BY <1>3 DEF PreviewInv
  <2>3. InPlace'
    BY <1>3 DEF PreviewInv, InPlace
  <2> QED
    BY <1>3, <2>1, <2>2, <2>3 DEF PreviewInv
<1>4. CASE P!Compare
  <2>1. PICK cfg : cfg = draft
    OBVIOUS
  <2>2. UNCHANGED <<kind, held, unreadable, catalog, library, draft, pending>>
    BY <1>4 DEF P!Compare
  <2>3. P!AppliedLibraryPlan(cfg)' = P!AppliedLibraryPlan(cfg)
    BY <2>2, PlanStays
  <2>4. PICK plan : plan = P!AppliedLibraryPlan(cfg)
    OBVIOUS
  <2>5. verdict' = [for |-> cfg, requires |-> P!RequiresRebuild(plan),
                    resumes |-> pending # None, plan |-> plan]
    BY <1>4, <2>1, <2>4 DEF P!Compare
  <2>6. P!AppliedLibraryPlan(draft)' = plan
    BY <2>1, <2>2, <2>3, <2>4
  <2>7. plan.acts # {} \/ plan.retires # {} => P!RequiresRebuild(plan)
    BY DEF P!RequiresRebuild
  <2>8. VerdictStands'
    BY <2>1, <2>2, <2>5, <2>6, <2>7 DEF VerdictStands
  <2> QED
    BY <1>3, <1>4, <2>8 DEF P!Compare, PreviewInv
<1>5. CASE P!EditDraft
  <2>1. VerdictStands'
    BY <1>5 DEF P!EditDraft, VerdictStands
  <2> QED
    BY <1>3, <1>5, <2>1 DEF P!EditDraft, PreviewInv
<1>6. CASE P!Promote \/ UNCHANGED P!vars
  <2>1. PICK cfg : cfg = draft
    OBVIOUS
  <2>2. UNCHANGED <<kind, held, unreadable, catalog, library, draft, pending, verdict, settled, faults>>
    BY <1>6 DEF P!Promote, P!vars
  <2>3. P!AppliedLibraryPlan(cfg)' = P!AppliedLibraryPlan(cfg)
    BY <2>2, PlanStays
  <2>4. P!AppliedLibraryPlan(draft)' = P!AppliedLibraryPlan(draft)
    BY <2>1, <2>2, <2>3
  <2>5. VerdictStands'
    BY <2>2, <2>4 DEF VerdictStands, PreviewInv
  <2> QED
    BY <1>3, <2>2, <2>5 DEF PreviewInv
<1>7. ASSUME NEW r \in Chapter, P!LoseInputs(r) PROVE PreviewInv'
  <2>1. VerdictStands'
    BY <1>7 DEF P!LoseInputs, VerdictStands
  <2> QED
    BY <1>3, <1>7, <2>1 DEF P!LoseInputs, P!Fault, PreviewInv
<1>8. ASSUME NEW c \in library.holds, P!LoseFile(c) PROVE PreviewInv'
  <2>1. Sound(library)'
    BY <1>8 DEF P!LoseFile, PreviewInv, Sound, Listed
  <2>2. OwnArtifacts(catalog)' /\ (pending # None => Listed(pending))'
    BY <1>8 DEF P!LoseFile, PreviewInv
  <2>3. InPlace' /\ VerdictStands'
    BY <1>8 DEF P!LoseFile, InPlace, VerdictStands
  <2> QED
    BY <1>8, <2>1, <2>2, <2>3 DEF P!LoseFile, P!Fault, PreviewInv
<1> QED
  BY <1>1, <1>2, <1>4, <1>5, <1>6, <1>7, <1>8 DEF P!Next

(* Deliveries converge on the names the catalog alone determines, no file  *)
(* takes another's place, and a normal run renames no legacy output.       *)
THEOREM NamesAreHeld == P!Spec => NamesHold
<1>1. PreviewInv => P!NamesConverge /\ P!NoneOverwritten
  <2> SUFFICES ASSUME PreviewInv PROVE P!NamesConverge /\ P!NoneOverwritten
    OBVIOUS
  <2>1. /\ \A c \in P!Named(catalog) : c.art.of \in Chapter /\ c.art = catalog[c.art.of] /\ c.art # None
        /\ \A c, o \in P!Named(catalog) : c # o => Shown(c) # Shown(o)
        /\ \A r \in Chapter : catalog[r] # None => \E c \in P!Named(catalog) : c.art.of = r
    BY NamesApart DEF PreviewInv
  <2>2. ASSUME settled, kind = "filesystem", NEW o \in library.records, P!Catalogued(o)
        PROVE  o \in P!Named(catalog)
    <3>1. o.art.of \in Chapter /\ catalog[o.art.of] # None
      BY <2>2 DEF PreviewInv, Sound, P!Catalogued
    <3>2. PICK c \in P!Named(catalog) : c.art.of = o.art.of
      BY <2>1, <3>1
    <3> QED
      BY <2>2, <3>2 DEF PreviewInv, InPlace
  <2>3. P!NamesConverge
    <3> SUFFICES ASSUME settled, kind = "filesystem"
                 PROVE  {o \in library.records : P!Catalogued(o)} = P!Named(catalog)
      BY DEF P!NamesConverge
    <3>1. ASSUME NEW c \in P!Named(catalog) PROVE c \in library.records /\ P!Catalogued(c)
      BY <2>1, <3>1 DEF PreviewInv, InPlace, P!Catalogued
    <3> QED
      BY <2>2, <3>1
  <2>4. P!NoneOverwritten
    <3> SUFFICES ASSUME settled, kind = "filesystem", NEW c \in library.holds, NEW o \in library.holds
                 PROVE  /\ P!Catalogued(c) => c \in P!Named(catalog)
                        /\ P!Catalogued(c) /\ P!Catalogued(o) /\ c # o => Shown(c) # Shown(o)
      BY Zenon DEF P!NoneOverwritten, Shown
    <3>1. c \in library.records /\ o \in library.records
      BY DEF PreviewInv, Sound
    <3> QED
      BY <2>1, <2>2, <3>1
  <2> QED
    BY <2>3, <2>4
<1>2. ASSUME PreviewInv, [P!Next]_(P!vars), NEW o \in library.records, NEW n \in library'.records,
             kind # "drop", pending = None, o.art = n.art, o.art.legacy,
             o.name # n.name, n \notin library.records
      PROVE  \E failing \in SUBSET held : P!Rebuild(failing)
  <2>1. CASE \E listed \in SUBSET Chapter : P!Run(listed)
    <3>1. PICK sel : sel = P!Named(catalog')
      OBVIOUS
    <3>2. P!Publish(sel, FALSE)
      BY <2>1, <3>1 DEF P!Run
    <3>3. ~P!RenamesFrozen(sel) /\ P!Delivers(sel)
      BY <1>2, <3>2 DEF P!Publish, P!Refuses
    <3>4. \A lib, done : P!Put(lib, done).records \subseteq done \cup lib.records
      BY DEF P!Put
    <3>5. P!Finish(library, sel).records \subseteq P!Put(library, P!Work(library, sel)).records
      BY Zenon DEF P!Finish
    <3>6. n \in sel
      BY <1>2, <3>3, <3>4, <3>5, WorkPart DEF P!Delivers
    <3> QED
      BY <1>2, <3>3, <3>6 DEF P!RenamesFrozen
  <2>2. CASE \E failing \in SUBSET held : P!Rebuild(failing)
    BY <2>2
  <2>3. CASE P!Compare \/ P!EditDraft \/ P!Promote \/ UNCHANGED P!vars
             \/ (\E r \in Chapter : P!LoseInputs(r)) \/ (\E c \in library.holds : P!LoseFile(c))
    <3>1. library'.records = library.records
      BY <1>2, <2>3 DEF P!Compare, P!EditDraft, P!Promote, P!vars, P!LoseInputs, P!LoseFile, PreviewInv, Sound
    <3> QED
      BY <1>2, <3>1
  <2> QED
    BY <1>2, <2>1, <2>2, <2>3 DEF P!Next
<1>3. PreviewInv /\ [P!Next]_(P!vars) =>
      [\A o \in library.records, n \in library'.records :
          /\ kind # "drop" /\ pending = None /\ o.art = n.art /\ o.art.legacy
          /\ catalog[o.art.of] = o.art /\ o.name # n.name /\ n \notin library.records
          => \E failing \in SUBSET held : P!Rebuild(failing)]_(P!vars)
  BY <1>2
<1> QED
  BY <1>1, <1>3, PreviewBegins, PreviewStays, PTL DEF P!Spec, NamesHold, P!NamesHold, P!FrozenKeepNames

(* A rebuild does what the comparison announced.                           *)
THEOREM RebuildsAreForetold == P!Spec => ForetoldHolds
<1>1. ASSUME PreviewInv, P!Foretold, ~verdict.resumes, P!Rebuild(unreadable), faults' = faults
      PROVE  /\ verdict.plan.blocked <=> ~settled' \/ unreadable # {}
             /\ \A n \in (library'.records \ library.records)
                         \cup (library'.holds \ library.holds) :
                   n.name \in verdict.plan.acts
             /\ \A o \in library.records \ library'.records :
                   o \in verdict.plan.retires \/ o.name \in verdict.plan.acts
             /\ ~verdict.requires => library' = library
  <2> DEFINE cat == [r \in Chapter |->
                        IF r \in held \ unreadable THEN P!Wanted(deployed, r) ELSE catalog[r]]
             sel == P!Selected(cat, P!BlockedSeries(deployed, unreadable))
             Planned(c) == catalog[c.art.of] # c.art
             acts == {c \in sel : P!Action(library, c, Planned(c)) # "unchanged"}
             desired == {IF Planned(c) THEN [c EXCEPT !.art = catalog[c.art.of]] ELSE c : c \in sel}
             done == P!Work(library, sel)
             gone == P!Retired(library, sel, sel)
  <2>1. catalog' = cat /\ deployed.on /\ P!Publish(sel, TRUE)
    BY <1>1, Zenon DEF P!Rebuild, P!Rebuilt
  <2>2. PICK plan : plan = verdict.plan
    OBVIOUS
  <2>3. pending = None /\ (plan.acts # {} \/ plan.retires # {} => verdict.requires)
    BY <1>1, <2>2 DEF PreviewInv, VerdictStands, P!Foretold
  <2>4. plan = P!PreviewRebuild(deployed)
    BY <1>1, <2>1, <2>2 DEF PreviewInv, VerdictStands, P!Foretold, P!AppliedLibraryPlan
  <2>5. plan = IF P!RenamesForHook(sel)
               THEN [blocked |-> TRUE, acts |-> {}, retires |-> {}]
               ELSE [blocked |-> unreadable # {}, acts |-> {c.name : c \in acts},
                     retires |-> P!Retired(library, sel, desired)]
    BY <2>4, Zenon DEF P!PreviewRebuild
  <2>6. \A c \in sel : c.art.of \in Chapter /\ c = [art |-> c.art, name |-> c.name]
    <3>1. OwnArtifacts(cat)
      BY <1>1 DEF PreviewInv, OwnArtifacts, P!Wanted
    <3>2. sel \subseteq P!Named(cat)
      BY DEF P!Selected
    <3>3. \A c \in P!Named(cat) : c = [art |-> c.art, name |-> c.name]
      BY DEF P!Named
    <3> QED
      BY <3>1, <3>2, <3>3, NamesApart
  <2>7. CASE P!RenamesForHook(sel)
    <3>1. plan = [blocked |-> TRUE, acts |-> {}, retires |-> {}]
      BY <2>5, <2>7
    <3>2. ~settled' /\ library' = library
      BY <2>1, <2>7 DEF P!Publish, P!Refuses
    <3>3. plan.blocked = TRUE
      BY <3>1
    <3> QED
      BY <2>2, <3>2, <3>3
  <2>8. CASE ~P!RenamesForHook(sel)
    <3>1. /\ plan.acts = {c.name : c \in acts} /\ plan.retires = P!Retired(library, sel, desired)
      BY <2>5, <2>8
    <3>2. plan.blocked <=> unreadable # {}
      BY <2>5, <2>8, Zenon
    <3>3. library' = P!Finish(library, sel) /\ settled' = (sel = P!Named(catalog'))
      <4>1. P!Delivers(sel) /\ pending = None
        BY <2>1, <2>3, <2>8 DEF P!Publish, P!Refuses
      <4> HIDE DEF sel
      <4> QED
        BY <1>1, <4>1 DEF P!Delivers, P!Fault, PreviewInv
    <3>4. unreadable = {} => settled'
      <4>1. ASSUME unreadable = {} PROVE sel = P!Named(cat)
        <5>1. P!BlockedSeries(deployed, unreadable) = {}
          BY <4>1 DEF P!BlockedSeries
        <5> QED
          BY <5>1 DEF P!Selected
      <4> QED
        BY <2>1, <3>3, <4>1
    <3>5. ASSUME NEW c \in done PROVE c \in sel /\ c \in acts /\ c.name \in plan.acts
      BY <3>1 DEF P!Work, P!Action
    <3>6. gone \subseteq library.records \ sel
      BY DEF P!Retired
    <3>7. ASSUME NEW o \in gone PROVE o \in plan.retires \/ o.name \in plan.acts
      <4>1. kind = "filesystem" /\ o \in library.records /\ o \notin sel
            /\ \E c \in sel : c.art.of = o.art.of
        BY DEF P!Retired
      <4>2. CASE o \in desired
        <5>1. PICK c \in sel : Planned(c) /\ o = [c EXCEPT !.art = catalog[c.art.of]]
          BY <4>1, <4>2
        <5>2. o.name = c.name
          BY <2>6, <5>1
        <5>3. c \in acts
          BY <5>1 DEF P!Action
        <5> QED
          BY <3>1, <5>2, <5>3
      <4>3. CASE o \notin desired
        BY <3>1, <4>1, <4>3 DEF P!Retired
      <4> QED
        BY <4>2, <4>3
    <3> DEFINE new == P!Put(library, done)
               left == {f \in new.holds : \/ \E c \in sel : c.name = f.name
                                         \/ ~\E o \in gone : o.name = f.name}
    <3>8. library' = [records |-> new.records \ gone, holds |-> left]
      BY <3>3, Zenon DEF P!Finish
    <3>9. library'.records = new.records \ gone /\ library'.holds = left
      <4> HIDE DEF new, gone, left
      <4> QED
        BY <3>8
    <3>10. /\ new.records = done \cup (IF kind # "exec" THEN library.records
                     ELSE {o \in library.records : \A c \in done : c.art # o.art})
           /\ new.holds = done \cup (IF kind # "filesystem" THEN library.holds
                     ELSE {f \in library.holds : \A c \in done : c.name # f.name})
      BY DEF P!Put
    <3>11. \A n \in (library'.records \ library.records) \cup (library'.holds \ library.holds) :
              n.name \in plan.acts
      <4> SUFFICES ASSUME NEW n \in (library'.records \ library.records)
                                    \cup (library'.holds \ library.holds)
                   PROVE  n \in done
        BY <3>5
      <4> HIDE DEF new, gone, done
      <4> QED
        BY <3>9, <3>10
    <3>12. ASSUME NEW o \in library.records \ library'.records
           PROVE  o \in plan.retires \/ o.name \in plan.acts
      <4>1. CASE o \in gone
        BY <3>7, <4>1
      <4>2. CASE o \notin gone
        <5>1. kind = "exec" /\ \E c \in done : c.art = o.art
          <6> HIDE DEF new, gone, done
          <6> QED
            BY <3>9, <3>10, <3>12, <4>2
        <5>2. PICK c \in done : c.art = o.art
          BY <5>1
        <5>3. c \in sel /\ c.name \in plan.acts
          BY <3>5
        <5>4. o.name = c.name
          BY <2>8, <3>12, <5>1, <5>2, <5>3 DEF P!RenamesForHook
        <5> QED
          BY <5>3, <5>4
      <4> QED
        BY <4>1, <4>2
    <3>13. ASSUME ~verdict.requires PROVE library' = library
      <4>1. plan.acts = {} /\ plan.retires = {}
        BY <2>3, <3>13
      <4>2. done = {} /\ gone = {}
        BY <3>5, <3>7, <4>1
      <4>3. new.records = library.records /\ left = library.holds
        <5> HIDE DEF done, gone, new
        <5> QED
          BY <3>10, <4>2
      <4> QED
        <5> HIDE DEF done, gone, new, left
        <5> QED
          BY <1>1, <3>8, <4>2, <4>3 DEF PreviewInv, Sound
    <3> QED
      BY <2>2, <3>2, <3>4, <3>11, <3>12, <3>13
  <2> QED
    BY <2>7, <2>8
<1>2. PreviewInv /\ [P!Next]_(P!vars) =>
      [P!Foretold /\ ~verdict.resumes /\ P!Rebuild(unreadable) /\ faults' = faults =>
         /\ verdict.plan.blocked <=> ~settled' \/ unreadable # {}
         /\ \A n \in (library'.records \ library.records)
                     \cup (library'.holds \ library.holds) :
               n.name \in verdict.plan.acts
         /\ \A o \in library.records \ library'.records :
               o \in verdict.plan.retires \/ o.name \in verdict.plan.acts
         /\ ~verdict.requires => library' = library]_(P!vars)
  BY <1>1
<1> QED
  BY <1>2, PreviewBegins, PreviewStays, PTL DEF P!Spec, ForetoldHolds, P!ForetoldHolds

-----------------------------------------------------------------------------
(* Which rule decides a post.  Everything written but an override is an    *)
(* entry; a configuration (Written) has series "s1" and "s2".              *)
Entry == {rule \in R!Rule : ~R!Overriding(rule)}
Pin == [release : Nat \ {0}, series : R!SeriesId]
Book == [number : Nat, label : R!Mark]

Written ==
    [min : Nat \cup {R!NoMin}, rules : Seq(Entry), review : Seq(Entry), overrides : Seq(Pin),
     series : [1..2 -> [id : R!SeriesId, books : Seq(Book), inputs : Seq(Entry)]]]

(* Operators of the community modules: the least of a set of numbers, and  *)
(* cardinality under the instance's name.                                  *)
LEMMA LeastOf ==
  ASSUME NEW T, T \subseteq Nat, T # {}
  PROVE  R!Min(T) \in T /\ \A y \in T : R!Min(T) <= y
<1>1. PICK x \in T : \A y \in T : ~(<<y, x>> \in OpToRel(<, Nat))
  BY NatLessThanWellFounded, WFMin
<1>2. ASSUME NEW y \in T, y < x PROVE FALSE
  <2>1. <<y, x>> \in Nat \X Nat
    OBVIOUS
  <2>2. <<y, x>> \in OpToRel(<, Nat)
    <3>1. <<y, x>>[1] = y /\ <<y, x>>[2] = x
      OBVIOUS
    <3> QED
      BY <1>2, <2>1, <3>1, Zenon DEF OpToRel
  <2> QED
    BY <1>1, <2>2, Zenon
<1>3. \A y \in T : x <= y
  BY <1>2
<1> QED
  BY <1>3 DEF R!Min

LEMMA SameCardinality == ASSUME NEW T PROVE R!Cardinality(T) = Cardinality(T)
  BY DEF R!Cardinality, Cardinality

(* The order of evaluation (Config.CompileRuleSet) is a linear order.      *)
LEMMA BeforeIsLinear ==
  ASSUME NEW rules \in Seq(R!Rule)
  PROVE  /\ \A i \in DOMAIN rules : ~R!Before(rules, i, i)
         /\ \A i, j \in DOMAIN rules : i # j => R!Before(rules, i, j) \/ R!Before(rules, j, i)
         /\ \A i, j, k \in DOMAIN rules :
               R!Before(rules, i, j) /\ R!Before(rules, j, k) => R!Before(rules, i, k)
<1>1. /\ DOMAIN rules \subseteq Nat
      /\ \A i \in DOMAIN rules : rules[i].priority \in Int /\ rules[i].release \in Nat
  <2>1. DOMAIN rules \subseteq Nat /\ \A i \in DOMAIN rules : rules[i] \in R!Rule
    OBVIOUS
  <2>2. \A r \in R!Rule : r.priority \in Int /\ r.release \in Nat
    BY DEF R!Rule
  <2> QED
    BY <2>1, <2>2
<1> QED
  BY <1>1 DEF R!Before, R!Precedes, R!Overriding

(* Sorting permutes the rules, into that order: the number of rules before *)
(* a rule is an injection, so every position is taken.                     *)
LEMMA SortedPositions ==
  ASSUME NEW rules \in Seq(R!Rule)
  PROVE  \E at \in [DOMAIN rules -> DOMAIN rules] :
            /\ R!Sorted(rules) = [k \in DOMAIN rules |-> rules[at[k]]]
            /\ \A i \in DOMAIN rules : \E k \in DOMAIN rules : at[k] = i
            /\ \A k, l \in DOMAIN rules : k < l => R!Before(rules, at[k], at[l])
<1> DEFINE Dom == DOMAIN rules
           n == Len(rules)
           Earlier(i) == {j \in Dom : R!Before(rules, j, i)}
           rank == [i \in Dom |-> Cardinality(Earlier(i)) + 1]
           at == [k \in Dom |-> CHOOSE i \in Dom : R!Cardinality(Earlier(i)) = k - 1]
<1>1. Dom = 1..n /\ n \in Nat /\ IsFiniteSet(Dom) /\ Cardinality(Dom) = n
  <2>1. Dom = 1..n /\ n \in Nat
    OBVIOUS
  <2>2. IsFiniteSet(1..n) /\ Cardinality(1..n) = n
    BY <2>1, FS_Interval
  <2> QED
    BY <2>1, <2>2
<1>2. /\ \A i \in Dom : IsFiniteSet(Earlier(i)) /\ Cardinality(Earlier(i)) \in Nat
      /\ \A i \in Dom : rank[i] = Cardinality(Earlier(i)) + 1
  BY <1>1, FS_Subset, FS_CardinalityType
<1>3. ASSUME NEW i \in Dom, NEW j \in Dom, R!Before(rules, i, j)
      PROVE  rank[i] < rank[j]
  <2>1. Earlier(i) \subseteq Earlier(j) /\ i \in Earlier(j) /\ i \notin Earlier(i)
    BY <1>3, BeforeIsLinear
  <2>2. Cardinality(Earlier(i)) <= Cardinality(Earlier(j))
    BY <1>2, <2>1, FS_Subset
  <2>3. Cardinality(Earlier(i)) # Cardinality(Earlier(j))
    BY <1>2, <2>1, FS_Subset
  <2> HIDE DEF Earlier, rank
  <2> QED
    BY <1>2, <2>2, <2>3
<1>4. rank \in [Dom -> Dom]
  <2> SUFFICES ASSUME NEW i \in Dom PROVE Cardinality(Earlier(i)) + 1 \in 1..n
    BY <1>1
  <2>1. Earlier(i) \subseteq Dom /\ i \notin Earlier(i)
    BY BeforeIsLinear
  <2>2. Cardinality(Earlier(i)) <= n /\ Cardinality(Earlier(i)) # n
    BY <1>1, <2>1, FS_Subset
  <2> HIDE DEF Earlier
  <2> QED
    BY <1>1, <1>2, <2>2
<1>5. rank \in Injection(Dom, Dom)
  <2>1. ASSUME NEW i \in Dom, NEW j \in Dom, i # j PROVE rank[i] # rank[j]
    <3>1. rank[i] \in Int /\ rank[j] \in Int
      BY <1>1, <1>4
    <3>2. R!Before(rules, i, j) \/ R!Before(rules, j, i)
      BY <2>1, BeforeIsLinear
    <3>3. rank[i] < rank[j] \/ rank[j] < rank[i]
      BY <1>3, <3>2
    <3> HIDE DEF rank
    <3> QED
      BY <3>1, <3>3
  <2> QED
    BY <1>4, <2>1 DEF Injection, IsInjective
<1>6. rank \in Surjection(Dom, Dom)
  BY <1>1, <1>5, FS_Injection
<1>7. ASSUME NEW k \in Dom PROVE at[k] \in Dom /\ rank[at[k]] = k
  <2>1. PICK i \in Dom : rank[i] = k
    BY <1>6 DEF Surjection
  <2>2. R!Cardinality(Earlier(i)) = k - 1
    <3>1. Cardinality(Earlier(i)) + 1 = k
      BY <1>2, <2>1
    <3>2. R!Cardinality(Earlier(i)) = Cardinality(Earlier(i))
      BY SameCardinality
    <3> HIDE DEF Earlier
    <3> QED
      BY <1>1, <1>2, <3>1, <3>2
  <2>3. at[k] \in Dom /\ R!Cardinality(Earlier(at[k])) = k - 1
    BY <2>2
  <2>4. Cardinality(Earlier(at[k])) = k - 1
    BY <2>3, SameCardinality
  <2> QED
    BY <1>1, <2>3, <2>4
<1>8. ASSUME NEW k \in Dom, NEW l \in Dom, k < l PROVE R!Before(rules, at[k], at[l])
  <2>1. at[k] # at[l] /\ ~R!Before(rules, at[l], at[k])
    <3>1. k \in Int /\ l \in Int
      BY <1>1
    <3>2. at[k] \in Dom /\ at[l] \in Dom /\ rank[at[k]] = k /\ rank[at[l]] = l
      BY <1>7
    <3>3. R!Before(rules, at[l], at[k]) => rank[at[l]] < rank[at[k]]
      BY <1>3, <3>2
    <3> HIDE DEF at, rank
    <3> QED
      BY <1>8, <3>1, <3>2, <3>3
  <2> QED
    BY <1>7, <2>1, BeforeIsLinear
<1>9. ASSUME NEW i \in Dom PROVE at[rank[i]] = i
  <2>1. rank[i] \in Dom
    BY <1>4
  <2>2. at[rank[i]] \in Dom /\ rank[at[rank[i]]] = rank[i]
    BY <1>7, <2>1
  <2> HIDE DEF at, rank
  <2> QED
    BY <1>5, <2>2 DEF Injection, IsInjective
<1>10. R!Sorted(rules) = [k \in Dom |-> rules[at[k]]]
  BY DEF R!Sorted
<1>11. at \in [Dom -> Dom]
  BY <1>7
<1> QED
  <2>1. \A i \in Dom : \E k \in Dom : at[k] = i
    BY <1>4, <1>9
  <2> WITNESS at \in [DOMAIN rules -> DOMAIN rules]
  <2> QED
    BY <1>8, <1>10, <2>1

(* The rule that decides is the first of those that match, whatever sorts  *)
(* them.                                                                   *)
Foremost(rules, post, k) ==
    /\ k \in DOMAIN rules /\ R!Matches(rules[k], post)
    /\ \A i \in DOMAIN rules : R!Matches(rules[i], post) => i = k \/ R!Before(rules, k, i)

LEMMA FirstDecides ==
  ASSUME NEW rules \in Seq(R!Rule), NEW post
  PROVE  \/ /\ \A i \in DOMAIN rules : ~R!Matches(rules[i], post)
            /\ R!Deciding(R!Sorted(rules), post) = R!Review
         \/ \E k : Foremost(rules, post, k) /\ R!Deciding(R!Sorted(rules), post) = rules[k]
<1> DEFINE Dom == DOMAIN rules
           sorted == R!Sorted(rules)
           matching == {k \in Dom : R!Matches(sorted[k], post)}
<1>1. PICK at \in [Dom -> Dom] :
            /\ sorted = [k \in Dom |-> rules[at[k]]]
            /\ \A i \in Dom : \E k \in Dom : at[k] = i
            /\ \A k, l \in Dom : k < l => R!Before(rules, at[k], at[l])
  BY SortedPositions, Zenon
<1>2. DOMAIN sorted = Dom /\ \A k \in Dom : sorted[k] = rules[at[k]]
  BY <1>1
<1>3. Dom \subseteq Nat /\ \A k \in Dom : k # 0
  OBVIOUS
<1>4. R!Winner(sorted, post) = IF matching = {} THEN 0 ELSE R!Min(matching)
  BY <1>2, Zenon DEF R!Winner
<1> HIDE DEF sorted, Dom
<1>5. CASE matching = {}
  <2>1. \A i \in Dom : ~R!Matches(rules[i], post)
    BY <1>1, <1>2, <1>5
  <2>2. R!Deciding(sorted, post) = R!Review
    BY <1>4, <1>5 DEF R!Deciding
  <2> QED
    BY <2>1, <2>2 DEF Dom, sorted
<1>6. CASE matching # {}
  <2> DEFINE w == R!Min(matching)
  <2>1. matching \subseteq Nat
    BY <1>3
  <2>2. w \in matching /\ \A y \in matching : w <= y
    BY <1>6, <2>1, LeastOf
  <2> HIDE DEF w
  <2>3. w \in Dom /\ w # 0 /\ R!Matches(rules[at[w]], post)
    BY <1>2, <1>3, <2>2
  <2>4. R!Deciding(sorted, post) = rules[at[w]]
    BY <1>2, <1>4, <1>6, <2>3 DEF R!Deciding, w
  <2>5. ASSUME NEW i \in Dom, R!Matches(rules[i], post)
        PROVE  i = at[w] \/ R!Before(rules, at[w], i)
    <3>1. PICK k \in Dom : at[k] = i
      BY <1>1
    <3>2. w <= k /\ w \in Nat /\ k \in Nat
      BY <1>2, <1>3, <2>2, <2>3, <2>5, <3>1
    <3> QED
      BY <1>1, <2>3, <3>1, <3>2
  <2>6. Foremost(rules, post, at[w])
    BY <1>1, <2>3, <2>5 DEF Foremost, Dom
  <2> QED
    BY <2>4, <2>6 DEF sorted
<1> QED
  BY <1>5, <1>6

(* What compiling keeps: the fields a rule has, one update at a time, that *)
(* an entry is no override, and so that sequences of entries stay such.    *)

LEMMA InputTyped ==
  /\ R!Input \in R!Rule /\ R!Input.release = 0 /\ R!Input.min = R!NoMin
  /\ R!Input.unless = {} /\ R!Input.strategy = "text" /\ R!Input.marks = {}
<1>1. R!NoBook \in Nat /\ R!NoMin \in Nat \cup {R!NoMin} /\ 0 \in Int /\ 0 \in Nat
  BY DEF R!NoBook
<1>2. R!Unmatched \in R!SeriesId /\ "text" \in R!Strategy
  BY DEF R!Unmatched, R!SeriesId, R!Strategy
<1>3. {} \in SUBSET R!Mark /\ {} \in SUBSET STRING /\ FALSE \in BOOLEAN
  OBVIOUS
<1>4. <<>> \in Seq(STRING)
  BY EmptySeq
<1>5. R!Input \in R!Rule
  BY <1>1, <1>2, <1>3, <1>4, Zenon DEF R!Input, R!Rule
<1> QED
  BY <1>5 DEF R!Input

LEMMA MinUpdate ==
  ASSUME NEW T1, NEW T2, NEW T3, NEW T4, NEW T5, NEW T6,
         NEW T7, NEW T8, NEW T9, NEW T10, NEW T11, NEW T12,
         NEW r \in [series : T1, book : T2, grouped : T3, marks : T4, fallback : T5, min : T6,
            unless : T7, strategy : T8, glob : T9, prefer : T10, priority : T11, release : T12],
         NEW m \in T6
  PROVE  /\ [r EXCEPT !.min = m]
              \in [series : T1, book : T2, grouped : T3, marks : T4, fallback : T5, min : T6,
            unless : T7, strategy : T8, glob : T9, prefer : T10, priority : T11, release : T12]
         /\ [r EXCEPT !.min = m].release = r.release
OBVIOUS

LEMMA SeriesUpdate ==
  ASSUME NEW T1, NEW T2, NEW T3, NEW T4, NEW T5, NEW T6,
         NEW T7, NEW T8, NEW T9, NEW T10, NEW T11, NEW T12,
         NEW r \in [series : T1, book : T2, grouped : T3, marks : T4, fallback : T5, min : T6,
            unless : T7, strategy : T8, glob : T9, prefer : T10, priority : T11, release : T12],
         NEW s \in T1
  PROVE  /\ [r EXCEPT !.series = s]
              \in [series : T1, book : T2, grouped : T3, marks : T4, fallback : T5, min : T6,
            unless : T7, strategy : T8, glob : T9, prefer : T10, priority : T11, release : T12]
         /\ [r EXCEPT !.series = s].release = r.release
OBVIOUS

LEMMA PriorityUpdate ==
  ASSUME NEW T1, NEW T2, NEW T3, NEW T4, NEW T5, NEW T6,
         NEW T7, NEW T8, NEW T9, NEW T10, NEW T11, NEW T12,
         NEW r \in [series : T1, book : T2, grouped : T3, marks : T4, fallback : T5, min : T6,
            unless : T7, strategy : T8, glob : T9, prefer : T10, priority : T11, release : T12],
         NEW p \in T11
  PROVE  /\ [r EXCEPT !.priority = p]
              \in [series : T1, book : T2, grouped : T3, marks : T4, fallback : T5, min : T6,
            unless : T7, strategy : T8, glob : T9, prefer : T10, priority : T11, release : T12]
         /\ [r EXCEPT !.priority = p].release = r.release
OBVIOUS

LEMMA ReviewUpdate ==
  ASSUME NEW T1, NEW T2, NEW T3, NEW T4, NEW T5, NEW T6,
         NEW T7, NEW T8, NEW T9, NEW T10, NEW T11, NEW T12,
         NEW r \in [series : T1, book : T2, grouped : T3, marks : T4, fallback : T5, min : T6,
            unless : T7, strategy : T8, glob : T9, prefer : T10, priority : T11, release : T12],
         NEW m \in T6, NEW s \in T8
  PROVE  /\ [r EXCEPT !.min = m, !.strategy = s]
              \in [series : T1, book : T2, grouped : T3, marks : T4, fallback : T5, min : T6,
            unless : T7, strategy : T8, glob : T9, prefer : T10, priority : T11, release : T12]
         /\ [r EXCEPT !.min = m, !.strategy = s].release = r.release
OBVIOUS

LEMMA StrategyUpdate ==
  ASSUME NEW T1, NEW T2, NEW T3, NEW T4, NEW T5, NEW T6,
         NEW T7, NEW T8, NEW T9, NEW T10, NEW T11, NEW T12,
         NEW r \in [series : T1, book : T2, grouped : T3, marks : T4, fallback : T5, min : T6,
            unless : T7, strategy : T8, glob : T9, prefer : T10, priority : T11, release : T12],
         NEW s \in T8
  PROVE  [r EXCEPT !.strategy = s]
            \in [series : T1, book : T2, grouped : T3, marks : T4, fallback : T5, min : T6,
            unless : T7, strategy : T8, glob : T9, prefer : T10, priority : T11, release : T12]
OBVIOUS

LEMMA LabelUpdate ==
  ASSUME NEW T1, NEW T2, NEW T3, NEW T4, NEW T5, NEW T6,
         NEW T7, NEW T8, NEW T9, NEW T10, NEW T11, NEW T12,
         NEW r \in [series : T1, book : T2, grouped : T3, marks : T4, fallback : T5, min : T6,
            unless : T7, strategy : T8, glob : T9, prefer : T10, priority : T11, release : T12],
         NEW n \in T2, NEW g \in T3, NEW m \in T4, NEW p \in T11
  PROVE  /\ [r EXCEPT !.book = n, !.grouped = g, !.marks = m, !.priority = p]
              \in [series : T1, book : T2, grouped : T3, marks : T4, fallback : T5, min : T6,
            unless : T7, strategy : T8, glob : T9, prefer : T10, priority : T11, release : T12]
         /\ [r EXCEPT !.book = n, !.grouped = g, !.marks = m, !.priority = p].release = r.release
OBVIOUS

LEMMA MinKept ==
  ASSUME NEW rule \in Entry, NEW min \in Nat \cup {R!NoMin}
  PROVE  [rule EXCEPT !.min = min] \in Entry
<1>1. rule \in R!Rule /\ rule.release = 0
  BY DEF Entry, R!Overriding
<1>2. [rule EXCEPT !.min = min] \in R!Rule /\ [rule EXCEPT !.min = min].release = 0
  BY <1>1, MinUpdate DEF R!Rule
<1> QED
  BY <1>2 DEF Entry, R!Overriding

LEMMA SeriesKept ==
  ASSUME NEW rule \in Entry, NEW s \in R!SeriesId
  PROVE  [rule EXCEPT !.series = s] \in Entry
<1>1. rule \in R!Rule /\ rule.release = 0
  BY DEF Entry, R!Overriding
<1>2. [rule EXCEPT !.series = s] \in R!Rule /\ [rule EXCEPT !.series = s].release = 0
  BY <1>1, SeriesUpdate DEF R!Rule
<1> QED
  BY <1>2 DEF Entry, R!Overriding

LEMMA PriorityKept ==
  ASSUME NEW rule \in Entry, NEW priority \in Int
  PROVE  [rule EXCEPT !.priority = priority] \in Entry
<1>1. rule \in R!Rule /\ rule.release = 0
  BY DEF Entry, R!Overriding
<1>2. /\ [rule EXCEPT !.priority = priority] \in R!Rule
      /\ [rule EXCEPT !.priority = priority].release = 0
  BY <1>1, PriorityUpdate DEF R!Rule
<1> QED
  BY <1>2 DEF Entry, R!Overriding

LEMMA ReviewKept ==
  ASSUME NEW rule \in Entry, NEW min \in Nat \cup {R!NoMin}, NEW s \in R!Strategy
  PROVE  [rule EXCEPT !.min = min, !.strategy = s] \in Entry
<1>1. rule \in R!Rule /\ rule.release = 0
  BY DEF Entry, R!Overriding
<1>2. /\ [rule EXCEPT !.min = min, !.strategy = s] \in R!Rule
      /\ [rule EXCEPT !.min = min, !.strategy = s].release = 0
  BY <1>1, ReviewUpdate DEF R!Rule
<1> QED
  BY <1>2 DEF Entry, R!Overriding

LEMMA InheritedEntry ==
  ASSUME NEW cfg, cfg.min \in Nat \cup {R!NoMin}, NEW rule \in Entry
  PROVE  R!Inherited(cfg, rule) \in Entry
<1>1. PICK min : R!Inherited(cfg, rule) = [rule EXCEPT !.min = min]
                 /\ min = CASE rule.min # R!NoMin -> rule.min
                            [] cfg.min # R!NoMin -> cfg.min
                            [] rule.grouped -> R!DefaultMin
                            [] OTHER -> R!NoMin
  BY Zenon DEF R!Inherited
<1>2. rule.min \in Nat \cup {R!NoMin}
  BY DEF Entry, R!Rule
<1>3. min \in {rule.min, cfg.min, R!DefaultMin, R!NoMin}
  BY <1>1, Zenon
<1>4. min \in Nat \cup {R!NoMin}
  BY <1>2, <1>3 DEF R!DefaultMin
<1> QED
  BY <1>1, <1>4, MinKept

LEMMA PositionEntries ==
  ASSUME NEW inputs \in Seq(Entry)
  PROVE  R!ByPosition(inputs) \in Seq(Entry)
<1>1. ASSUME NEW i \in DOMAIN inputs
      PROVE  [inputs[i] EXCEPT !.priority = IF @ = 0 THEN 10 * i ELSE @] \in Entry
  <2>1. inputs[i] \in Entry /\ i \in Nat
    OBVIOUS
  <2>2. inputs[i].priority \in Int
    BY <2>1 DEF Entry, R!Rule
  <2>3. PICK p \in Int : p = IF inputs[i].priority = 0 THEN 10 * i ELSE inputs[i].priority
    BY <2>1, <2>2
  <2>4. [inputs[i] EXCEPT !.priority = IF @ = 0 THEN 10 * i ELSE @]
          = [inputs[i] EXCEPT !.priority = p]
    BY <2>3
  <2> QED
    BY <2>1, <2>3, <2>4, PriorityKept
<1> QED
  BY <1>1 DEF R!ByPosition

LEMMA SeriesEntries ==
  ASSUME NEW cfg, cfg.min \in Nat \cup {R!NoMin},
         NEW s \in [id : R!SeriesId, books : Seq(Book), inputs : Seq(Entry)]
  PROVE  R!SeriesRules(cfg, s) \in Seq(Entry)
<1> DEFINE labels == [i \in DOMAIN s.books |->
                        [R!Input EXCEPT !.book = s.books[i].number, !.grouped = TRUE,
                                        !.marks = {s.books[i].label}, !.priority = 10]]
           inputs == labels \o R!ByPosition(s.inputs)
<1>1. ASSUME NEW book \in Book
      PROVE  [R!Input EXCEPT !.book = book.number, !.grouped = TRUE,
                             !.marks = {book.label}, !.priority = 10] \in Entry
  <2>1. PICK n \in Nat, m \in SUBSET R!Mark : n = book.number /\ m = {book.label}
    BY DEF Book
  <2>2. R!Input \in R!Rule /\ R!Input.release = 0
    BY InputTyped
  <2>3. TRUE \in BOOLEAN /\ 10 \in Int
    OBVIOUS
  <2>4. /\ [R!Input EXCEPT !.book = n, !.grouped = TRUE, !.marks = m, !.priority = 10] \in R!Rule
        /\ [R!Input EXCEPT !.book = n, !.grouped = TRUE, !.marks = m, !.priority = 10].release = 0
    BY <2>2, <2>3, LabelUpdate DEF R!Rule
  <2> QED
    BY <2>1, <2>4 DEF Entry, R!Overriding
<1>2. labels \in Seq(Entry)
  <2>1. s.books \in Seq(Book)
    OBVIOUS
  <2>2. \A i \in DOMAIN s.books : s.books[i] \in Book
    BY <2>1
  <2>3. DOMAIN s.books = 1..Len(s.books) /\ Len(s.books) \in Nat
    BY <2>1
  <2>4. \A i \in DOMAIN s.books : labels[i] \in Entry
    BY <1>1, <2>2
  <2> HIDE DEF labels
  <2>5. labels = [i \in 1..Len(s.books) |-> labels[i]]
    BY <2>3 DEF labels
  <2> QED
    BY <2>3, <2>4, <2>5
<1>3. inputs \in Seq(Entry)
  <2>1. R!ByPosition(s.inputs) \in Seq(Entry)
    BY PositionEntries
  <2> HIDE DEF labels
  <2> QED
    BY <1>2, <2>1, ConcatProperties
<1>4. ASSUME NEW i \in DOMAIN inputs
      PROVE  R!Inherited(cfg, [inputs[i] EXCEPT !.series = s.id]) \in Entry
  <2> HIDE DEF inputs
  <2>1. inputs[i] \in Entry /\ s.id \in R!SeriesId
    BY <1>3
  <2>2. [inputs[i] EXCEPT !.series = s.id] \in Entry
    BY <2>1, SeriesKept
  <2> QED
    BY <2>2, InheritedEntry
<1>5. R!SeriesRules(cfg, s)
        = [i \in DOMAIN inputs |-> R!Inherited(cfg, [inputs[i] EXCEPT !.series = s.id])]
  BY Zenon DEF R!SeriesRules
<1> DEFINE rules == R!SeriesRules(cfg, s)
<1> HIDE DEF inputs
<1>6. DOMAIN inputs = 1..Len(inputs) /\ Len(inputs) \in Nat
  BY <1>3
<1>7. rules = [i \in 1..Len(inputs) |-> rules[i]] /\ \A i \in 1..Len(inputs) : rules[i] \in Entry
  BY <1>4, <1>5, <1>6
<1> HIDE DEF rules
<1>8. rules \in Seq(Entry)
  BY <1>6, <1>7
<1> QED
  BY <1>8 DEF rules

(* The rules of the series follow each other.                              *)
LEMMA TwoFlattened ==
  ASSUME NEW T, NEW s \in [1..2 -> Seq(T)]
  PROVE  R!FlattenSeq(s) = s[1] \o s[2] /\ R!FlattenSeq(s) \in Seq(T)
<1> DEFINE step(f) == [i \in 1..Len(s) |-> IF i = 1 THEN s[i] ELSE f[i - 1] \o s[i]]
           flat == CHOOSE f : f = step(f)
           both == [i \in 1..2 |-> IF i = 1 THEN s[1] ELSE s[1] \o s[2]]
<1>1. Len(s) = 2
  OBVIOUS
<1>2. both = step(both)
  BY <1>1
<1>3. flat = step(flat)
  <2> HIDE DEF step, both
  <2> QED
    BY <1>2
<1>4. flat[1] = s[1] /\ flat[2] = s[1] \o s[2]
  <2> HIDE DEF flat
  <2>1. flat[1] = s[1]
    BY <1>1, <1>3
  <2> QED
    BY <1>1, <1>3, <2>1
<1>5. R!FlattenSeq(s) = flat[2]
  BY <1>1 DEF R!FlattenSeq
<1>6. s[1] \in Seq(T) /\ s[2] \in Seq(T)
  OBVIOUS
<1> QED
  BY <1>4, <1>5, <1>6, ConcatProperties

LEMMA ReviewEntries ==
  ASSUME NEW cfg \in Written
  PROVE  R!ReviewRules(cfg) \in Seq(Entry)
<1> DEFINE reviews == R!ByPosition(cfg.review)
           entry(i) == [R!Inherited(cfg, reviews[i]) EXCEPT !.min = reviews[i].min,
                                                            !.strategy = "manual"]
<1>1. cfg.min \in Nat \cup {R!NoMin} /\ cfg.review \in Seq(Entry)
  BY DEF Written
<1>2. reviews \in Seq(Entry)
  BY <1>1, PositionEntries
<1> HIDE DEF reviews
<1>3. ASSUME NEW i \in DOMAIN reviews PROVE entry(i) \in Entry
  <2>1. reviews[i] \in Entry
    BY <1>2
  <2>2. reviews[i].min \in Nat \cup {R!NoMin}
    BY <2>1 DEF Entry, R!Rule
  <2>3. R!Inherited(cfg, reviews[i]) \in Entry
    BY <1>1, <2>1, InheritedEntry
  <2>4. "manual" \in R!Strategy
    BY DEF R!Strategy
  <2> QED
    BY <2>2, <2>3, <2>4, ReviewKept
<1>4. R!ReviewRules(cfg) = [i \in DOMAIN reviews |-> entry(i)]
  BY Zenon DEF R!ReviewRules, reviews
<1> HIDE DEF entry
<1> QED
  BY <1>2, <1>3, <1>4

\* What a configuration says without its overrides.
Routed(cfg) ==
    LET legacy == [i \in DOMAIN cfg.rules |-> R!Inherited(cfg, cfg.rules[i])]
        grouped == [i \in DOMAIN cfg.series |-> R!SeriesRules(cfg, cfg.series[i])]
    IN legacy \o R!FlattenSeq(grouped) \o R!ReviewRules(cfg)

LEMMA RoutedEntries ==
  ASSUME NEW cfg \in Written
  PROVE  Routed(cfg) \in Seq(Entry)
<1> DEFINE legacy == [i \in DOMAIN cfg.rules |-> R!Inherited(cfg, cfg.rules[i])]
           grouped == [i \in DOMAIN cfg.series |-> R!SeriesRules(cfg, cfg.series[i])]
<1>1. /\ cfg.min \in Nat \cup {R!NoMin} /\ cfg.rules \in Seq(Entry)
      /\ cfg.series \in [1..2 -> [id : R!SeriesId, books : Seq(Book), inputs : Seq(Entry)]]
  BY DEF Written
<1>2. legacy \in Seq(Entry)
  <2>1. \A i \in DOMAIN cfg.rules : legacy[i] \in Entry
    BY <1>1, InheritedEntry
  <2>2. DOMAIN cfg.rules = 1..Len(cfg.rules) /\ Len(cfg.rules) \in Nat
    BY <1>1
  <2>3. legacy = [i \in DOMAIN cfg.rules |-> legacy[i]]
    OBVIOUS
  <2> HIDE DEF legacy
  <2> QED
    BY <2>1, <2>2, <2>3
<1>3. grouped \in [1..2 -> Seq(Entry)]
  BY <1>1, SeriesEntries
<1> HIDE DEF grouped
<1>4. R!FlattenSeq(grouped) \in Seq(Entry)
  BY <1>3, TwoFlattened
<1>5. Routed(cfg) = legacy \o R!FlattenSeq(grouped) \o R!ReviewRules(cfg)
  BY DEF Routed, grouped
<1> HIDE DEF legacy
<1>6. legacy \o R!FlattenSeq(grouped) \in Seq(Entry)
  BY <1>2, <1>4, ConcatProperties
<1> QED
  BY <1>5, <1>6, ReviewEntries, ConcatProperties

\* The overrides take no part in it.
LEMMA RoutedAlone ==
  ASSUME NEW cfg, NEW other, other.min = cfg.min, other.rules = cfg.rules,
         other.series = cfg.series, other.review = cfg.review
  PROVE  Routed(other) = Routed(cfg)
<1>1. \A rule : R!Inherited(other, rule) = R!Inherited(cfg, rule)
  BY Zenon DEF R!Inherited
<1>2. \A s : R!SeriesRules(other, s) = R!SeriesRules(cfg, s)
  BY <1>1, Zenon DEF R!SeriesRules
<1>3. R!ReviewRules(other) = R!ReviewRules(cfg)
  BY <1>1, Zenon DEF R!ReviewRules
<1>4. [i \in DOMAIN other.rules |-> R!Inherited(other, other.rules[i])]
        = [i \in DOMAIN cfg.rules |-> R!Inherited(cfg, cfg.rules[i])]
  BY <1>1
<1>5. [i \in DOMAIN other.series |-> R!SeriesRules(other, other.series[i])]
        = [i \in DOMAIN cfg.series |-> R!SeriesRules(cfg, cfg.series[i])]
  BY <1>2
<1> QED
  BY <1>3, <1>4, <1>5, Zenon DEF Routed

LEMMA PinUpdate ==
  ASSUME NEW T1, NEW T2, NEW T3, NEW T4, NEW T5, NEW T6,
         NEW T7, NEW T8, NEW T9, NEW T10, NEW T11, NEW T12,
         NEW r \in [series : T1, book : T2, grouped : T3, marks : T4, fallback : T5, min : T6,
            unless : T7, strategy : T8, glob : T9, prefer : T10, priority : T11, release : T12],
         NEW n \in T12, NEW to \in T1, NEW p \in T11, NEW s \in T8
  PROVE  LET rule == [r EXCEPT !.release = n, !.series = to, !.priority = p, !.strategy = s]
         IN /\ rule \in [series : T1, book : T2, grouped : T3, marks : T4, fallback : T5,
                 min : T6, unless : T7, strategy : T8, glob : T9, prefer : T10,
                 priority : T11, release : T12]
            /\ rule.release = n /\ rule.series = to
            /\ rule.min = r.min /\ rule.unless = r.unless
OBVIOUS

\* The rule of an override decides its release, unconditionally.
PinRule(pin) ==
    [R!Input EXCEPT !.release = pin.release, !.series = pin.series, !.priority = 10,
                    !.strategy = IF pin.series = R!Unmatched THEN "manual" ELSE @]

LEMMA PinTyped ==
  ASSUME NEW pin \in Pin
  PROVE  /\ PinRule(pin) \in R!Rule
         /\ PinRule(pin).release = pin.release /\ PinRule(pin).series = pin.series
         /\ PinRule(pin).min = R!NoMin /\ PinRule(pin).unless = {}
<1>1. pin.release \in Nat /\ pin.series \in R!SeriesId
  BY DEF Pin
<1>2. PICK s \in R!Strategy :
        s = IF pin.series = R!Unmatched THEN "manual" ELSE R!Input.strategy
  BY InputTyped DEF R!Strategy
<1>3. PICK p \in Int : p = 10
  OBVIOUS
<1>4. PinRule(pin) = [R!Input EXCEPT !.release = pin.release, !.series = pin.series,
                                     !.priority = p, !.strategy = s]
  BY <1>2, <1>3 DEF PinRule
<1> DEFINE rule == [R!Input EXCEPT !.release = pin.release, !.series = pin.series,
                                   !.priority = p, !.strategy = s]
<1>5. /\ rule \in R!Rule /\ rule.release = pin.release /\ rule.series = pin.series
      /\ rule.min = R!Input.min /\ rule.unless = R!Input.unless
  BY <1>1, InputTyped, PinUpdate DEF R!Rule
<1> HIDE DEF rule
<1> QED
  BY <1>4, <1>5, InputTyped DEF rule

(* Overrides are compiled last, so all other rules keep their positions.   *)
LEMMA OverridesLast ==
  ASSUME NEW cfg \in Written
  PROVE  /\ R!Authored(cfg) \in Seq(R!Rule) /\ Routed(cfg) \in Seq(Entry)
         /\ Len(R!Authored(cfg)) = Len(Routed(cfg)) + Len(cfg.overrides)
         /\ \A i \in DOMAIN Routed(cfg) : R!Authored(cfg)[i] = Routed(cfg)[i]
         /\ \A i \in DOMAIN cfg.overrides :
              R!Authored(cfg)[Len(Routed(cfg)) + i] = PinRule(cfg.overrides[i])
<1> DEFINE free == Routed(cfg)
           pins == R!OverrideRules(cfg)
<1>1. free \in Seq(Entry) /\ free \in Seq(R!Rule)
  <2>1. free \in Seq(Entry)
    BY RoutedEntries
  <2>2. Entry \subseteq R!Rule
    BY DEF Entry
  <2> HIDE DEF free
  <2> QED
    BY <2>1, <2>2
<1>2. cfg.overrides \in Seq(Pin)
  BY DEF Written
<1>3. pins = [i \in DOMAIN cfg.overrides |-> PinRule(cfg.overrides[i])]
  BY Zenon DEF R!OverrideRules, PinRule
<1> HIDE DEF pins
<1>4. \A i \in DOMAIN cfg.overrides : PinRule(cfg.overrides[i]) \in R!Rule
  BY <1>2, PinTyped
<1>5. pins \in Seq(R!Rule) /\ Len(pins) = Len(cfg.overrides) /\ DOMAIN pins = DOMAIN cfg.overrides
  BY <1>2, <1>3, <1>4
<1>6. R!Authored(cfg) = free \o pins
  BY Zenon DEF R!Authored, Routed, pins
<1> HIDE DEF free
<1>7. /\ free \o pins \in Seq(R!Rule) /\ Len(free \o pins) = Len(free) + Len(pins)
      /\ \A i \in 1..Len(free) + Len(pins) :
           (free \o pins)[i] = IF i <= Len(free) THEN free[i] ELSE pins[i - Len(free)]
  BY <1>1, <1>5, ConcatProperties
<1>8. DOMAIN free = 1..Len(free) /\ Len(free) \in Nat
  BY <1>1
<1>9. DOMAIN pins = 1..Len(pins) /\ Len(pins) \in Nat
  BY <1>5
<1>10. \A i \in DOMAIN free : (free \o pins)[i] = free[i]
  BY <1>7, <1>8, <1>9
<1>11. ASSUME NEW i \in DOMAIN pins PROVE (free \o pins)[Len(free) + i] = pins[i]
  <2>1. Len(free) + i \in 1..Len(free) + Len(pins) /\ ~(Len(free) + i <= Len(free))
        /\ Len(free) + i - Len(free) = i
    BY <1>8, <1>9
  <2> QED
    BY <1>7, <2>1
<1>12. \A i \in DOMAIN cfg.overrides : pins[i] = PinRule(cfg.overrides[i])
  BY <1>3
<1> QED
  BY <1>1, <1>5, <1>6, <1>7, <1>10, <1>11, <1>12 DEF free

(* What a written configuration decides.                                   *)

\* A rule without guards of its own takes every post it selects.
LEMMA Unguarded ==
  ASSUME NEW rule, rule.min = R!NoMin, rule.unless = {}, NEW post \in Post
  PROVE  R!Guarded(rule, post)
<1>1. post.body \in Nat
  BY AuthoringAssumption
<1> QED
  BY <1>1 DEF R!Guarded, R!NoMin

(* At most one rule is foremost.                                           *)
LEMMA ForemostOnce ==
  ASSUME NEW rules \in Seq(R!Rule), NEW post, NEW k, NEW l,
         Foremost(rules, post, k), Foremost(rules, post, l)
  PROVE  k = l
<1>1. k \in DOMAIN rules /\ l \in DOMAIN rules
  BY DEF Foremost
<1>2. ~(R!Before(rules, k, l) /\ R!Before(rules, l, k))
  BY <1>1, BeforeIsLinear
<1> QED
  BY <1>1, <1>2 DEF Foremost

(* An override comes before every other rule, so one decides its release.  *)
LEMMA PinsDecide ==
  ASSUME NEW cfg \in Written, NEW post \in Post,
         NEW pin \in DOMAIN cfg.overrides, cfg.overrides[pin].release = post.id
  PROVE  \E i \in DOMAIN cfg.overrides :
            /\ cfg.overrides[i].release = post.id
            /\ R!Deciding(R!Compiled(cfg), post).release = post.id
            /\ R!Deciding(R!Compiled(cfg), post).series = cfg.overrides[i].series
<1> DEFINE all == R!Authored(cfg)
           n == Len(Routed(cfg))
           at == n + pin
<1>1. /\ all \in Seq(R!Rule) /\ Routed(cfg) \in Seq(Entry)
      /\ Len(all) = n + Len(cfg.overrides)
      /\ \A i \in DOMAIN Routed(cfg) : all[i] = Routed(cfg)[i]
      /\ \A i \in DOMAIN cfg.overrides : all[n + i] = PinRule(cfg.overrides[i])
  BY OverridesLast
<1>2. /\ cfg.overrides \in Seq(Pin) /\ DOMAIN cfg.overrides = 1..Len(cfg.overrides)
      /\ Len(cfg.overrides) \in Nat /\ post.id \in Nat \ {0}
  BY AuthoringAssumption DEF Written
<1>3. DOMAIN Routed(cfg) = 1..n /\ n \in Nat
  BY <1>1
<1>4. ASSUME NEW i \in DOMAIN cfg.overrides
      PROVE  /\ n + i \in DOMAIN all /\ all[n + i].release = cfg.overrides[i].release
             /\ all[n + i].series = cfg.overrides[i].series /\ R!Overriding(all[n + i])
             /\ all[n + i].min = R!NoMin /\ all[n + i].unless = {}
  <2>1. cfg.overrides[i] \in Pin /\ cfg.overrides[i].release # 0
    <3>1. cfg.overrides[i] \in Pin
      BY <1>2
    <3>2. \A p \in Pin : p.release # 0
      BY DEF Pin
    <3> QED
      BY <3>1, <3>2
  <2>2. n + i \in 1..Len(all) /\ DOMAIN all = 1..Len(all)
    BY <1>1, <1>2, <1>3
  <2>3. all[n + i] = PinRule(cfg.overrides[i])
    BY <1>1
  <2> QED
    BY <2>1, <2>2, <2>3, PinTyped DEF R!Overriding
<1>5. at \in DOMAIN all /\ R!Overriding(all[at]) /\ R!Matches(all[at], post)
  <2>1. /\ at \in DOMAIN all /\ all[at].release = post.id /\ R!Overriding(all[at])
        /\ all[at].min = R!NoMin /\ all[at].unless = {}
    BY <1>4
  <2>2. R!Guarded(all[at], post)
    BY <2>1, Unguarded
  <2> QED
    BY <2>1, <2>2 DEF R!Matches, R!Selects
<1> HIDE DEF all, n, at
<1>6. PICK k : Foremost(all, post, k) /\ R!Deciding(R!Compiled(cfg), post) = all[k]
  BY <1>1, <1>5, FirstDecides DEF R!Compiled, all
<1>7. k \in DOMAIN all /\ R!Matches(all[k], post) /\ (at = k \/ R!Before(all, k, at))
  BY <1>5, <1>6 DEF Foremost
<1>8. R!Overriding(all[k])
  BY <1>5, <1>7 DEF R!Before, R!Precedes
<1>9. ~(k \in 1..n)
  <2>1. ASSUME k \in 1..n PROVE FALSE
    <3>1. all[k] \in Entry
      BY <1>1, <1>3, <2>1
    <3> QED
      BY <1>8, <3>1 DEF Entry
  <2> QED
    BY <2>1
<1>10. PICK i \in DOMAIN cfg.overrides : k = n + i
  <2>1. DOMAIN all = 1..Len(all) /\ Len(all) \in Nat
    BY <1>1
  <2>2. k - n \in 1..Len(cfg.overrides) /\ k = n + (k - n)
    BY <1>1, <1>2, <1>3, <1>7, <1>9, <2>1
  <2> QED
    BY <1>2, <2>2
<1>11. all[k].release = post.id
  BY <1>7, <1>8 DEF R!Matches, R!Selects
<1> QED
  BY <1>4, <1>6, <1>10, <1>11

(* Where no override is for a post, the foremost rule is the same without  *)
(* them.                                                                   *)
LEMMA PinsMoveNoOther ==
  ASSUME NEW cfg \in Written, NEW post \in Post,
         \A i \in DOMAIN cfg.overrides : cfg.overrides[i].release # post.id
  PROVE  R!Deciding(R!Compiled(cfg), post)
            = R!Deciding(R!Compiled([cfg EXCEPT !.overrides = <<>>]), post)
<1> DEFINE all == R!Authored(cfg)
           bare == [cfg EXCEPT !.overrides = <<>>]
           free == R!Authored(bare)
           n == Len(Routed(cfg))
<1>1. bare \in Written /\ bare.overrides = <<>> /\ Routed(bare) = Routed(cfg)
  <2>1. /\ bare.overrides = <<>> /\ bare.min = cfg.min /\ bare.rules = cfg.rules
        /\ bare.series = cfg.series /\ bare.review = cfg.review
    BY DEF Written
  <2>2. bare \in Written
    BY EmptySeq DEF Written
  <2> QED
    BY <2>1, <2>2, RoutedAlone
<1> HIDE DEF bare
<1>2. /\ all \in Seq(R!Rule) /\ Routed(cfg) \in Seq(Entry)
      /\ Len(all) = n + Len(cfg.overrides)
      /\ \A i \in DOMAIN Routed(cfg) : all[i] = Routed(cfg)[i]
      /\ \A i \in DOMAIN cfg.overrides : all[n + i] = PinRule(cfg.overrides[i])
  BY OverridesLast
<1>3. /\ free \in Seq(R!Rule) /\ Len(free) = n
      /\ \A i \in DOMAIN Routed(cfg) : free[i] = Routed(cfg)[i]
  <2>1. /\ free \in Seq(R!Rule) /\ Len(free) = Len(Routed(bare)) + Len(bare.overrides)
        /\ \A i \in DOMAIN Routed(bare) : free[i] = Routed(bare)[i]
    BY <1>1, OverridesLast
  <2>2. Len(bare.overrides) = 0
    BY <1>1
  <2> HIDE DEF free
  <2> QED
    BY <1>1, <1>2, <2>1, <2>2
<1>4. /\ cfg.overrides \in Seq(Pin) /\ DOMAIN cfg.overrides = 1..Len(cfg.overrides)
      /\ Len(cfg.overrides) \in Nat
  BY DEF Written
<1> HIDE DEF all, free
<1>5. /\ DOMAIN Routed(cfg) = 1..n /\ n \in Nat /\ DOMAIN free = 1..n
      /\ DOMAIN all = 1..n + Len(cfg.overrides)
  BY <1>2, <1>3, <1>4
<1> HIDE DEF n
<1>6. /\ 1..n \subseteq DOMAIN all /\ \A i \in 1..n : all[i] = free[i]
      /\ \A i \in (DOMAIN all) \ (1..n) : \E j \in DOMAIN cfg.overrides : i = n + j
  <2>1. ASSUME NEW i \in (DOMAIN all) \ (1..n)
        PROVE  i - n \in DOMAIN cfg.overrides /\ i = n + (i - n)
    BY <1>4, <1>5
  <2>2. 1..n \subseteq DOMAIN all
    BY <1>4, <1>5
  <2>3. ASSUME NEW i \in 1..n PROVE all[i] = free[i]
    <3>1. all[i] = Routed(cfg)[i]
      BY <1>2, <1>5
    <3>2. free[i] = Routed(cfg)[i]
      BY <1>3, <1>5
    <3> QED
      BY <3>1, <3>2
  <2>4. \A i \in (DOMAIN all) \ (1..n) : \E j \in DOMAIN cfg.overrides : i = n + j
    BY <2>1
  <2> QED
    BY <2>2, <2>3, <2>4
<1>7. ASSUME NEW j \in DOMAIN cfg.overrides PROVE ~R!Matches(all[n + j], post)
  <2>1. cfg.overrides[j] \in Pin
    BY <1>4
  <2>2. all[n + j] = PinRule(cfg.overrides[j])
    BY <1>2
  <2>3. PinRule(cfg.overrides[j]).release = cfg.overrides[j].release /\ cfg.overrides[j].release # 0
    BY <2>1, PinTyped DEF Pin
  <2>4. all[n + j].release = cfg.overrides[j].release /\ cfg.overrides[j].release # 0
    BY <2>2, <2>3
  <2> QED
    BY <2>4 DEF R!Matches, R!Selects, R!Overriding
<1>8. \A i \in DOMAIN all : R!Matches(all[i], post) => i \in 1..n /\ R!Matches(free[i], post)
  BY <1>6, <1>7
<1>9. \A i, j \in 1..n : R!Before(all, i, j) = R!Before(free, i, j)
  BY <1>6, Zenon DEF R!Before
<1>10. ASSUME NEW k PROVE Foremost(all, post, k) => Foremost(free, post, k) /\ all[k] = free[k]
  BY <1>5, <1>6, <1>8, <1>9 DEF Foremost
<1>11. /\ R!Deciding(R!Compiled(cfg), post) = R!Deciding(R!Sorted(all), post)
       /\ R!Deciding(R!Compiled(bare), post) = R!Deciding(R!Sorted(free), post)
  BY Zenon DEF R!Compiled, all, free
<1>12. CASE \A i \in DOMAIN all : ~R!Matches(all[i], post)
  <2>1. \A i \in DOMAIN free : ~R!Matches(free[i], post)
    BY <1>5, <1>6, <1>12
  <2>2. \A k : ~Foremost(all, post, k) /\ ~Foremost(free, post, k)
    BY <1>12, <2>1 DEF Foremost
  <2> QED
    BY <1>2, <1>3, <1>11, <2>2, FirstDecides DEF bare
<1>13. CASE \E i \in DOMAIN all : R!Matches(all[i], post)
  <2>1. PICK k : Foremost(all, post, k) /\ R!Deciding(R!Sorted(all), post) = all[k]
    BY <1>2, <1>13, FirstDecides
  <2>2. Foremost(free, post, k) /\ all[k] = free[k]
    BY <1>10, <2>1
  <2>3. \E l : Foremost(free, post, l) /\ R!Deciding(R!Sorted(free), post) = free[l]
    BY <1>3, <2>2, FirstDecides DEF Foremost
  <2> QED
    BY <1>3, <1>11, <2>1, <2>2, <2>3, ForemostOnce DEF bare
<1> QED
  BY <1>12, <1>13

LEMMA CompiledTyped ==
  ASSUME NEW cfg \in Written
  PROVE  R!Compiled(cfg) \in Seq(R!Rule)
<1> DEFINE all == R!Authored(cfg)
<1>1. all \in Seq(R!Rule)
  BY OverridesLast
<1> HIDE DEF all
<1>2. PICK at \in [DOMAIN all -> DOMAIN all] : R!Sorted(all) = [k \in DOMAIN all |-> all[at[k]]]
  BY <1>1, SortedPositions, Zenon
<1> QED
  BY <1>1, <1>2 DEF R!Compiled, all

(* A rule that shadows takes every post, so what follows it decides none.  *)
LEMMA ShadowsHide ==
  ASSUME NEW rules \in Seq(R!Rule), NEW post \in Post
  PROVE  R!Winner(rules, post) \notin R!Shadowed(rules)
<1> DEFINE matching == {i \in DOMAIN rules : R!Matches(rules[i], post)}
           w == R!Winner(rules, post)
<1>1. DOMAIN rules = 1..Len(rules) /\ Len(rules) \in Nat
  OBVIOUS
<1>2. w = IF matching = {} THEN 0 ELSE R!Min(matching)
  BY DEF R!Winner
<1>3. matching \subseteq Nat /\ 0 \notin DOMAIN rules
  BY <1>1
<1>4. SUFFICES ASSUME w \in R!Shadowed(rules) PROVE FALSE
  OBVIOUS
<1> HIDE DEF w
<1>5. w \in DOMAIN rules /\ \E j \in 1..(w - 1) : R!Shadows(rules[j])
  BY <1>4 DEF R!Shadowed
<1>6. PICK j \in 1..(w - 1) : R!Shadows(rules[j])
  BY <1>5
<1>7. j \in DOMAIN rules /\ j \in Nat /\ w \in Nat /\ j < w
  BY <1>1, <1>5, <1>6
<1>8. j \in matching
  <2>1. R!Guarded(rules[j], post)
    BY <1>6, Unguarded DEF R!Shadows
  <2> QED
    BY <1>6, <1>7, <2>1 DEF R!Matches, R!Selects, R!Shadows
<1>9. w = R!Min(matching)
  BY <1>2, <1>8
<1>10. w <= j
  BY <1>3, <1>8, <1>9, LeastOf
<1> QED
  BY <1>7, <1>10

LEMMA DecidingTyped ==
  ASSUME NEW rules \in Seq(R!Rule), NEW post
  PROVE  R!Deciding(rules, post) \in R!Rule
<1> DEFINE matching == {i \in DOMAIN rules : R!Matches(rules[i], post)}
           w == R!Winner(rules, post)
<1>1. matching \subseteq Nat /\ 0 \notin DOMAIN rules
  OBVIOUS
<1>2. w = IF matching = {} THEN 0 ELSE R!Min(matching)
  BY DEF R!Winner
<1>3. R!Deciding(rules, post) = IF w = 0 THEN R!Review ELSE rules[w]
  BY DEF R!Deciding
<1>4. R!Review \in R!Rule
  <2>1. "manual" \in R!Strategy
    BY DEF R!Strategy
  <2> QED
    BY <2>1, InputTyped, StrategyUpdate DEF R!Review, R!Rule
<1> HIDE DEF w
<1>5. CASE matching = {}
  BY <1>2, <1>3, <1>4, <1>5
<1>6. CASE matching # {}
  <2>1. R!Min(matching) \in matching
    BY <1>1, <1>6, LeastOf
  <2>2. w \in DOMAIN rules
    BY <1>2, <1>6, <2>1
  <2> QED
    BY <1>1, <1>3, <2>2
<1> QED
  BY <1>5, <1>6

(* A file that is selected was admitted.                                   *)
LEMMA SelectedAdmitted ==
  ASSUME NEW rule \in R!Rule, NEW files, NEW admitted, admitted \subseteq Nat
  PROVE  R!Selected(rule, files, admitted) \in {0} \cup admitted
<1> DEFINE possible == {i \in admitted : rule.glob = {} \/ files[i].name \in rule.glob}
           preferred == {k \in DOMAIN rule.prefer :
                           \E i \in possible : files[i].kind = rule.prefer[k]}
           first == IF preferred = {} THEN possible
                    ELSE {i \in possible : files[i].kind = rule.prefer[R!Min(preferred)]}
<1>1. R!Selected(rule, files, admitted) = IF possible = {} THEN 0 ELSE R!Min(first)
  BY DEF R!Selected
<1>2. preferred \subseteq Nat
  <2>1. rule.prefer \in Seq(STRING)
    BY DEF R!Rule
  <2> QED
    BY <2>1
<1>3. preferred # {} => R!Min(preferred) \in preferred
  BY <1>2, LeastOf
<1>4. possible # {} => first # {}
  BY <1>3
<1>5. first \subseteq admitted
  OBVIOUS
<1>6. possible # {} => R!Min(first) \in first
  BY <1>4, <1>5, LeastOf
<1> HIDE DEF first, possible
<1> QED
  BY <1>1, <1>5, <1>6

LEMMA NamedContent ==
  ASSUME NEW rules \in Seq(R!Rule), NEW post \in Post,
         R!Named(R!Deciding(rules, post), post) # {},
         R!Deciding(rules, post).strategy # "text"
  PROVE  R!Content(rules, post)
            \in {R!Nothing} \cup R!Named(R!Deciding(rules, post), post)
<1> DEFINE rule == R!Deciding(rules, post)
           named == R!Named(rule, post)
           file == R!Selected(rule, post.files, R!Offered(rule, post))
<1>1. rule \in R!Rule
  BY DecidingTyped
<1>2. named \subseteq Nat /\ 0 \notin named
  <2>1. PICK T : post.files \in Seq(T)
    BY AuthoringAssumption
  <2> QED
    BY <2>1 DEF R!Named
<1>3. R!Offered(rule, post) = named
  BY DEF R!Offered
<1>4. file \in {0} \cup named
  BY <1>1, <1>2, <1>3, SelectedAdmitted
<1>5. R!Content(rules, post)
        = IF rule.strategy = "manual" \/ file = 0 THEN R!Nothing ELSE file
  BY Zenon DEF R!Content
<1> HIDE DEF file, named
<1> QED
  BY <1>4, <1>5 DEF named

(* Writing keeps a configuration typed.                                    *)

AuthoredTyped == authored \in Written

LEMMA AuthoringBegins == R!Init => AuthoredTyped
<1> SUFFICES ASSUME R!Init PROVE authored \in Written
  BY DEF AuthoredTyped
<1>1. PICK min \in {R!NoMin, R!DefaultMin}, books \in {<<>>, Labels} :
        authored = [min |-> min, rules |-> <<>>, review |-> <<>>, overrides |-> <<>>,
                    series |-> <<R!Series("s1", <<>>), R!Series("s2", books)>>]
  BY DEF R!Init
<1>2. min \in Nat \cup {R!NoMin}
  BY DEF R!DefaultMin
<1>3. books \in Seq(Book) /\ <<>> \in Seq(Book) /\ <<>> \in Seq(Entry) /\ <<>> \in Seq(Pin)
  BY AuthoringAssumption, EmptySeq DEF Book
<1>4. {"s1", "s2"} \subseteq R!SeriesId
  BY DEF R!SeriesId
<1>5. <<R!Series("s1", <<>>), R!Series("s2", books)>>
        \in [1..2 -> [id : R!SeriesId, books : Seq(Book), inputs : Seq(Entry)]]
  <2>1. /\ R!Series("s1", <<>>) \in [id : R!SeriesId, books : Seq(Book), inputs : Seq(Entry)]
        /\ R!Series("s2", books) \in [id : R!SeriesId, books : Seq(Book), inputs : Seq(Entry)]
    BY <1>3, <1>4 DEF R!Series
  <2> QED
    BY <2>1
<1> QED
  BY <1>1, <1>2, <1>3, <1>5, Zenon DEF Written

LEMMA RuleAdded ==
  ASSUME NEW T1, NEW T2, NEW T3, NEW T4, NEW T5,
         NEW r \in [min : T1, rules : T2, review : T3, overrides : T4, series : T5],
         NEW x \in T2
  PROVE  [r EXCEPT !.rules = x]
            \in [min : T1, rules : T2, review : T3, overrides : T4, series : T5]
OBVIOUS

LEMMA ReviewAdded ==
  ASSUME NEW T1, NEW T2, NEW T3, NEW T4, NEW T5,
         NEW r \in [min : T1, rules : T2, review : T3, overrides : T4, series : T5],
         NEW x \in T3
  PROVE  [r EXCEPT !.review = x]
            \in [min : T1, rules : T2, review : T3, overrides : T4, series : T5]
OBVIOUS

LEMMA OverrideAdded ==
  ASSUME NEW T1, NEW T2, NEW T3, NEW T4, NEW T5,
         NEW r \in [min : T1, rules : T2, review : T3, overrides : T4, series : T5],
         NEW x \in T4
  PROVE  [r EXCEPT !.overrides = x]
            \in [min : T1, rules : T2, review : T3, overrides : T4, series : T5]
OBVIOUS

LEMMA SeriesChanged ==
  ASSUME NEW T1, NEW T2, NEW T3, NEW T4, NEW T5,
         NEW r \in [min : T1, rules : T2, review : T3, overrides : T4, series : T5],
         NEW x \in T5
  PROVE  [r EXCEPT !.series = x]
            \in [min : T1, rules : T2, review : T3, overrides : T4, series : T5]
OBVIOUS

LEMMA AuthoringStays == AuthoredTyped /\ [R!Next]_authored => AuthoredTyped'
<1> SUFFICES ASSUME authored \in Written, [R!Next]_authored PROVE authored' \in Written
  BY DEF AuthoredTyped, Written
<1>1. /\ authored.rules \in Seq(Entry) /\ authored.review \in Seq(Entry)
      /\ authored.overrides \in Seq(Pin)
  BY DEF Written
<1>2. \A input \in Authorable : input \in Entry
  BY AuthoringAssumption DEF Entry
<1>3. CASE \E input \in Authorable : R!AddRule(input)
  <2>1. PICK input \in Authorable : R!AddRule(input)
    BY <1>3
  <2>2. [input EXCEPT !.series = "s1"] \in Entry
    BY <1>2, SeriesKept DEF R!SeriesId
  <2>3. Append(authored.rules, [input EXCEPT !.series = "s1"]) \in Seq(Entry)
    BY <1>1, <2>2
  <2> QED
    BY <2>1, <2>3, RuleAdded DEF Written, R!AddRule
<1>4. CASE \E input \in Authorable : R!AddReview(input)
  <2>1. PICK input \in Authorable : R!AddReview(input)
    BY <1>4
  <2>2. Append(authored.review, input) \in Seq(Entry)
    BY <1>1, <1>2
  <2> QED
    BY <2>1, <2>2, ReviewAdded DEF Written, R!AddReview
<1>5. CASE \E input \in Authorable, i \in 1..2 : R!AddInput(i, input)
  <2>1. PICK input \in Authorable, i \in 1..2 : R!AddInput(i, input)
    BY <1>5
  <2>2. input \in Entry
    BY <1>2
  <2>3. authored.series \in [1..2 -> [id : R!SeriesId, books : Seq(Book), inputs : Seq(Entry)]]
    BY DEF Written
  <2>4. PICK x \in Seq(Entry) : x = Append(authored.series[i].inputs, input)
    <3>1. PICK l \in Seq(Entry) : l = authored.series[i].inputs
      BY <2>3
    <3>2. Append(l, input) \in Seq(Entry)
      BY <2>2, AppendProperties
    <3> QED
      BY <3>1, <3>2
  <2>5. PICK y \in [id : R!SeriesId, books : Seq(Book), inputs : Seq(Entry)] :
          y = [authored.series[i] EXCEPT !.inputs = x]
    BY <2>3
  <2>6. PICK z \in [1..2 -> [id : R!SeriesId, books : Seq(Book), inputs : Seq(Entry)]] :
          z = [authored.series EXCEPT ![i] = y]
    BY <2>3
  <2>7. authored' = [authored EXCEPT !.series = z]
    BY <2>1, <2>4, <2>5, <2>6 DEF R!AddInput
  <2>8. [authored EXCEPT !.series = z] \in Written
    BY SeriesChanged DEF Written
  <2> QED
    BY <2>7, <2>8
<1>6. CASE \E post \in Post, to \in {"s1", R!Unmatched} : R!AddOverride(post.id, to)
  <2>1. PICK post \in Post, to \in {"s1", R!Unmatched} : R!AddOverride(post.id, to)
    BY <1>6
  <2>2. [release |-> post.id, series |-> to] \in Pin
    BY AuthoringAssumption DEF Pin, R!SeriesId
  <2>3. Append(authored.overrides, [release |-> post.id, series |-> to]) \in Seq(Pin)
    BY <1>1, <2>2
  <2> QED
    BY <2>1, <2>3, OverrideAdded DEF Written, R!AddOverride
<1>7. CASE UNCHANGED authored
  BY <1>7
<1> QED
  BY <1>3, <1>4, <1>5, <1>6, <1>7 DEF R!Next

(* However a configuration has been written, an override decides its       *)
(* release and moves no other post, a rule that matched files by their     *)
(* names takes one of those, and what the warnings say can match nothing   *)
(* decides nothing (Config.ruleSet, Classify and the warnings of           *)
(* validation.go).                                                         *)
THEOREM ConfigurationsDecide == R!Spec => []RulesHold
<1>1. AuthoredTyped => RulesHold
  <2> SUFFICES ASSUME authored \in Written PROVE RulesHold
    BY DEF AuthoredTyped
  <2>1. R!Compiled(authored) \in Seq(R!Rule)
    BY CompiledTyped
  <2>2. R!OverridesPin
    <3> SUFFICES ASSUME NEW post \in Post
                 PROVE  LET rule == R!Deciding(R!Compiled(authored), post)
                        IN IF post.id \in R!Pinned
                             THEN \E i \in DOMAIN authored.overrides :
                                    /\ authored.overrides[i].release = post.id
                                    /\ rule.release = post.id
                                    /\ rule.series = authored.overrides[i].series
                             ELSE rule = R!Deciding(
                                            R!Compiled([authored EXCEPT !.overrides = <<>>]), post)
      BY Zenon DEF R!OverridesPin
    <3>1. CASE post.id \in R!Pinned
      <4>1. PICK i \in DOMAIN authored.overrides : authored.overrides[i].release = post.id
        BY <3>1 DEF R!Pinned
      <4> QED
        BY <3>1, <4>1, PinsDecide
    <3>2. CASE post.id \notin R!Pinned
      <4>1. \A i \in DOMAIN authored.overrides : authored.overrides[i].release # post.id
        BY <3>2 DEF R!Pinned
      <4> QED
        BY <3>2, <4>1, PinsMoveNoOther
    <3> QED
      BY <3>1, <3>2
  <2>3. R!ContentPinned
    BY <2>1, NamedContent DEF R!ContentPinned
  <2>4. R!WarningsHold
    BY <2>1, ShadowsHide DEF R!WarningsHold
  <2> QED
    BY <2>2, <2>3, <2>4 DEF RulesHold
<1> QED
  BY <1>1, AuthoringBegins, AuthoringStays, PTL DEF R!Spec

-----------------------------------------------------------------------------
(*--------------------- candidates and their dismissal --------------------*)
\* Induction over 0..n for a set of numbers.
LEMMA Climb ==
  ASSUME NEW n \in Nat, NEW T, 0 \in T, \A k \in 1..n : k - 1 \in T => k \in T
  PROVE  \A k \in 0..n : k \in T
<1> DEFINE left == (0..n) \ T
<1>1. SUFFICES ASSUME left # {} PROVE FALSE
  OBVIOUS
<1>2. left \subseteq Nat
  OBVIOUS
<1>3. PICK k \in left : \A j \in left : k <= j
  BY <1>1, <1>2, LeastOf
<1>4. k \in 1..n /\ k - 1 \in 0..n /\ k - 1 \notin left
  BY <1>3
<1> QED
  BY <1>4

IsSeq(s) == \E T : s \in Seq(T)

LEMMA SeqDomain ==
  ASSUME NEW s, IsSeq(s)
  PROVE  /\ Len(s) \in Nat /\ DOMAIN s = 1..Len(s) /\ DOMAIN s \subseteq Nat
         /\ \A i \in DOMAIN s : i # 0
<1>1. PICK T : s \in Seq(T)
  BY DEF IsSeq
<1> QED
  BY <1>1

LEMMA SeqAppend ==
  ASSUME NEW s, IsSeq(s), NEW e
  PROVE  /\ IsSeq(Append(s, e)) /\ DOMAIN Append(s, e) = DOMAIN s \cup {Len(s) + 1}
         /\ Len(Append(s, e)) = Len(s) + 1
         /\ Append(s, e)[Len(s) + 1] = e /\ \A i \in DOMAIN s : Append(s, e)[i] = s[i]
<1>1. PICK T : s \in Seq(T)
  BY DEF IsSeq
<1> DEFINE U == T \cup {e}
<1>2. s \in Seq(U) /\ e \in U
  BY <1>1
<1> HIDE DEF U
<1>3. Append(s, e) \in Seq(U)
  BY <1>2
<1>4. /\ Len(Append(s, e)) = Len(s) + 1 /\ Append(s, e)[Len(s) + 1] = e
      /\ \A i \in 1..Len(s) : Append(s, e)[i] = s[i]
  BY <1>2, AppendProperties
<1>5. DOMAIN s = 1..Len(s) /\ Len(s) \in Nat /\ DOMAIN Append(s, e) = 1..Len(Append(s, e))
  BY <1>2, <1>3
<1> QED
  BY <1>3, <1>4, <1>5 DEF IsSeq

LEMMA SeqUpdate ==
  ASSUME NEW s, IsSeq(s), NEW e, NEW i \in DOMAIN s
  PROVE  /\ IsSeq([s EXCEPT ![i] = e]) /\ DOMAIN [s EXCEPT ![i] = e] = DOMAIN s
         /\ Len([s EXCEPT ![i] = e]) = Len(s)
         /\ [s EXCEPT ![i] = e][i] = e
         /\ \A j \in DOMAIN s : j # i => [s EXCEPT ![i] = e][j] = s[j]
<1>1. PICK T : s \in Seq(T)
  BY DEF IsSeq
<1> DEFINE U == T \cup {e}
           new == [s EXCEPT ![i] = e]
<1>2. s \in Seq(U) /\ e \in U
  BY <1>1
<1> HIDE DEF U
<1>3. new \in Seq(U)
  BY <1>2
<1>4. DOMAIN new = DOMAIN s /\ new[i] = e /\ \A j \in DOMAIN s : j # i => new[j] = s[j]
  OBVIOUS
<1>5. DOMAIN s = 1..Len(s) /\ Len(s) \in Nat /\ DOMAIN new = 1..Len(new) /\ Len(new) \in Nat
  BY <1>2, <1>3
<1> HIDE DEF new
<1>6. Len(new) = Len(s)
  BY <1>4, <1>5
<1> QED
  BY <1>3, <1>4, <1>6 DEF IsSeq, new

LEMMA SeqMapped ==
  ASSUME NEW n \in Nat, NEW s, s = [i \in 1..n |-> s[i]]
  PROVE  IsSeq(s) /\ Len(s) = n
<1>1. s \in Seq({s[i] : i \in 1..n}) /\ DOMAIN s = 1..n
  OBVIOUS
<1>2. \A T : s \in Seq(T) => DOMAIN s = 1..Len(s) /\ Len(s) \in Nat
  OBVIOUS
<1>3. Len(s) = n
  BY <1>1, <1>2
<1> QED
  BY <1>1, <1>3 DEF IsSeq

LEMMA DMin == \A T : D!Min(T) = R!Min(T)
BY DEF D!Min, R!Min

(* Groups name captured posts.                                             *)
Grouping(groups, captured) ==
    IsSeq(groups) /\ \A i \in DOMAIN groups : groups[i].members \subseteq DOMAIN captured

LEMMA GroupFound ==
  ASSUME NEW groups, IsSeq(groups), NEW v
  PROVE  D!FindGroup(groups, v) \in {0} \cup DOMAIN groups
<1> DEFINE same == {i \in DOMAIN groups : v.family # D!NoFamily /\ groups[i].family = v.family}
           linked(g) ==
              \/ v.labels \cap g.labels # {}
              \/ /\ v.family = D!NoFamily /\ g.family = D!NoFamily
                 /\ v.labels = {} /\ g.labels = {}
                 /\ g.last > 0 /\ v.chapter = g.last + 1
           compatible == {i \in DOMAIN groups :
              (v.family = D!NoFamily \/ groups[i].family = D!NoFamily) /\ linked(groups[i])}
<1>1. same \subseteq Nat /\ compatible \subseteq Nat
  BY SeqDomain
<1>2. D!FindGroup(groups, v)
        = IF same # {} THEN D!Min(same)
          ELSE IF D!Cardinality(compatible) = 1 THEN D!Min(compatible)
          ELSE 0
  BY DEF D!FindGroup
<1>3. same \subseteq DOMAIN groups /\ compatible \subseteq DOMAIN groups
  OBVIOUS
<1> HIDE DEF same, compatible
<1>4. D!Cardinality(compatible) = Cardinality(compatible)
  BY DEF D!Cardinality, Cardinality
<1>5. D!Cardinality(compatible) = 1 => compatible # {}
  <2> SUFFICES ASSUME compatible = {} PROVE Cardinality(compatible) # 1
    BY <1>4
  <2> QED
    BY FS_EmptySet
<1>6. same # {} => D!Min(same) \in same
  BY <1>1, LeastOf, DMin
<1>7. compatible # {} => D!Min(compatible) \in compatible
  BY <1>1, LeastOf, DMin
<1> QED
  BY <1>2, <1>3, <1>5, <1>6, <1>7

LEMMA GroupedKeeps ==
  ASSUME NEW cfg, NEW captured, NEW seen, Grouping(seen.groups, captured),
         NEW post \in DOMAIN captured, NEW v
  PROVE  Grouping(D!Grouped(cfg, seen, post, v), captured)
<1> DEFINE groups == seen.groups
           at == D!FindGroup(groups, v)
           joined(g) == D!Joined(g, post, v, D!Evidence(cfg, seen, post, v))
<1>1. IsSeq(groups) /\ at \in {0} \cup DOMAIN groups
  BY GroupFound DEF Grouping
<1>2. \A g : joined(g).members = g.members \cup {post}
  BY DEF D!Joined
<1>3. joined(D!NewGroup(post, v)).members = {post}
  BY <1>2 DEF D!NewGroup
<1>4. \/ D!Grouped(cfg, seen, post, v) = groups
      \/ at = 0 /\ D!Grouped(cfg, seen, post, v) = Append(groups, joined(D!NewGroup(post, v)))
      \/ at # 0 /\ D!Grouped(cfg, seen, post, v) = [groups EXCEPT ![at] = joined(groups[at])]
  BY DEF D!Grouped
<1> HIDE DEF joined, at, groups
<1>5. Grouping(Append(groups, joined(D!NewGroup(post, v))), captured)
  <2>1. PICK e : e = joined(D!NewGroup(post, v)) /\ e.members = {post}
    BY <1>3
  <2> QED
    BY <1>1, <2>1, SeqAppend DEF Grouping, groups
<1>6. at # 0 => Grouping([groups EXCEPT ![at] = joined(groups[at])], captured)
  <2>1. PICK e : e = joined(groups[at]) /\ e.members = groups[at].members \cup {post}
    BY <1>2
  <2> QED
    BY <1>1, <2>1, SeqUpdate DEF Grouping, groups
<1> QED
  BY <1>4, <1>5, <1>6 DEF groups

LEMMA JudgedKeeps ==
  ASSUME NEW cfg, NEW captured, NEW seen, Grouping(seen.groups, captured), NEW post
  PROVE  Grouping(D!Judged(cfg, seen, captured, post).groups, captured)
<1>1. CASE post \notin DOMAIN captured
  BY <1>1 DEF D!Judged
<1>2. CASE post \in DOMAIN captured
  <2>1. PICK v : D!Judged(cfg, seen, captured, post).groups = D!Grouped(cfg, seen, post, v)
    BY <1>2 DEF D!Judged
  <2> QED
    BY <1>2, <2>1, GroupedKeeps
<1> QED
  BY <1>1, <1>2

LEMMA GroupsCaptured ==
  ASSUME NEW cfg, NEW captured
  PROVE  Grouping(D!Groups(cfg, captured), captured)
<1> DEFINE base == [groups |-> <<>>,
                    last |-> [f \in {v.family : v \in Version} |-> 0],
                    texts |-> [t \in {v.text : v \in Version} |-> 0]]
           Step(f, n) == [post \in 0..n |->
              IF post = 0 THEN base ELSE D!Judged(cfg, f[post - 1], captured, post)]
           seen == CHOOSE f : f = Step(f, Posts)
           T == {n \in Nat : \E f : f = Step(f, n)}
<1>1. Posts \in Nat
  BY DiscoveryAssumption
<1>2. 0 \in T
  <2>1. [post \in 0..0 |-> base] = Step([post \in 0..0 |-> base], 0)
    OBVIOUS
  <2> QED
    BY <2>1
<1>3. ASSUME NEW n \in 1..Posts, n - 1 \in T PROVE n \in T
  <2>1. PICK f : f = Step(f, n - 1)
    BY <1>3
  <2> DEFINE g == [post \in 0..n |-> IF post = n THEN D!Judged(cfg, f[n - 1], captured, n) ELSE f[post]]
  <2>2. n \in Nat /\ DOMAIN f = 0..(n - 1)
    BY <1>1, <2>1
  <2>3. ASSUME NEW post \in 0..n PROVE g[post] = Step(g, n)[post]
    <3>1. CASE post = n
      <4>1. g[post] = D!Judged(cfg, f[n - 1], captured, n)
        BY <2>2, <3>1
      <4>2. g[n - 1] = f[n - 1] /\ n # 0
        BY <1>1, <2>2
      <4>3. Step(g, n)[n] = D!Judged(cfg, g[n - 1], captured, n)
        <5> HIDE DEF g, base
        <5> QED
          BY <1>1, <2>2, <4>2
      <4> QED
        BY <3>1, <4>1, <4>2, <4>3
    <3>2. CASE post # n
      <4>1. post \in 0..(n - 1) /\ g[post] = f[post]
        BY <2>2, <3>2
      <4>2. post # 0 => g[post - 1] = f[post - 1]
        BY <2>2, <4>1
      <4>3. f[post] = IF post = 0 THEN base ELSE D!Judged(cfg, f[post - 1], captured, post)
        <5> HIDE DEF base
        <5> QED
          BY <2>1, <4>1
      <4>4. Step(g, n)[post] = IF post = 0 THEN base ELSE D!Judged(cfg, g[post - 1], captured, post)
        <5> HIDE DEF g, base
        <5> QED
          OBVIOUS
      <4> HIDE DEF g, base, Step
      <4> QED
        BY <4>1, <4>2, <4>3, <4>4
    <3> QED
      BY <3>1, <3>2
  <2>4. g = Step(g, n)
    <3>1. g = [post \in 0..n |-> g[post]]
      <4> HIDE DEF Step, base
      <4> QED
        OBVIOUS
    <3>2. Step(g, n) = [post \in 0..n |-> Step(g, n)[post]]
      <4> HIDE DEF g, base
      <4> QED
        OBVIOUS
    <3> HIDE DEF g, Step
    <3> QED
      BY <2>3, <3>1, <3>2
  <2> HIDE DEF Step, g
  <2> QED
    BY <2>2, <2>4
<1>4. Posts \in T
  <2> HIDE DEF T
  <2>1. \A n \in 0..Posts : n \in T
    BY <1>1, <1>2, <1>3, Climb
  <2> QED
    BY <1>1, <2>1
<1>5. seen = Step(seen, Posts)
  <2>1. \E f : f = Step(f, Posts)
    BY <1>4
  <2> HIDE DEF Step
  <2> QED
    BY <2>1
<1> HIDE DEF seen
<1> DEFINE S == {n \in 0..Posts : Grouping(seen[n].groups, captured)}
<1>6. 0 \in S
  <2>1. seen[0] = base
    BY <1>1, <1>5
  <2>2. base.groups = <<>>
    OBVIOUS
  <2>3. Grouping(<<>>, captured)
    BY EmptySeq DEF Grouping, IsSeq
  <2> QED
    BY <1>1, <2>1, <2>2, <2>3
<1>7. ASSUME NEW n \in 1..Posts, n - 1 \in S PROVE n \in S
  <2>1. seen[n] = D!Judged(cfg, seen[n - 1], captured, n)
    <3> HIDE DEF base
    <3>1. n \in 0..Posts /\ n # 0
      BY <1>1
    <3>2. Step(seen, Posts)[n] = D!Judged(cfg, seen[n - 1], captured, n)
      BY <3>1
    <3> QED
      BY <1>5, <3>2, Zenon
  <2> QED
    BY <1>1, <1>7, <2>1, JudgedKeeps
<1>8. Posts \in S
  <2> HIDE DEF S
  <2>1. \A n \in 0..Posts : n \in S
    BY <1>1, <1>6, <1>7, Climb
  <2> QED
    BY <1>1, <2>1
<1>9. D!Groups(cfg, captured) = seen[Posts].groups
  BY DEF D!Groups, seen
<1> QED
  BY <1>8, <1>9

(* Each earlier candidate has a successor among those found, or none.      *)
LEMMA SuccessorsFound ==
  ASSUME NEW previous, IsSeq(previous), NEW found, IsSeq(found)
  PROVE  /\ IsSeq(D!Successors(previous, found))
         /\ Len(D!Successors(previous, found)) = Len(previous)
         /\ \A i \in DOMAIN previous :
              D!Successors(previous, found)[i] \in {0} \cup DOMAIN found
<1> DEFINE left(before, k) == {i \in DOMAIN found :
                i \notin D!Range(before) /\ D!Overlap(previous[k], found[i]) > 0}
           best(before, k) == {i \in left(before, k) : \A j \in left(before, k) :
                D!Overlap(previous[k], found[j]) <= D!Overlap(previous[k], found[i])}
           of(before, k) == Append(before,
                IF best(before, k) = {} THEN 0 ELSE D!Min(best(before, k)))
           n == Len(previous)
           Step(f, m) == [k \in 0..m |-> IF k = 0 THEN <<>> ELSE of(f[k - 1], k)]
           taken == CHOOSE f : f = Step(f, n)
           T == {m \in Nat : \E f : f = Step(f, m)}
<1>1. n \in Nat /\ DOMAIN previous = 1..n
  BY SeqDomain
<1>2. \A before, k : best(before, k) \subseteq DOMAIN found
  OBVIOUS
<1>3. D!Successors(previous, found) = taken[n]
  BY DEF D!Successors
<1>4. \A before, k : of(before, k) = Append(before, IF best(before, k) = {} THEN 0 ELSE D!Min(best(before, k)))
  OBVIOUS
<1> HIDE DEF n, best, of
<1>5. 0 \in T
  <2>1. [k \in 0..0 |-> <<>>] = Step([k \in 0..0 |-> <<>>], 0)
    OBVIOUS
  <2> QED
    BY <2>1
<1>6. ASSUME NEW m \in 1..n, m - 1 \in T PROVE m \in T
  <2>1. PICK f : f = Step(f, m - 1)
    BY <1>6
  <2> DEFINE g == [k \in 0..m |-> IF k = m THEN of(f[m - 1], m) ELSE f[k]]
  <2>2. m \in Nat /\ m # 0 /\ m - 1 \in 0..(m - 1)
    BY <1>1
  <2>3. ASSUME NEW k \in 0..m PROVE g[k] = IF k = 0 THEN <<>> ELSE of(g[k - 1], k)
    <3>1. CASE k = m
      <4>1. g[k] = of(f[m - 1], m) /\ g[m - 1] = f[m - 1]
        BY <2>2, <3>1
      <4> HIDE DEF g
      <4> QED
        BY <2>2, <3>1, <4>1
    <3>2. CASE k # m
      <4>1. k \in 0..(m - 1) /\ g[k] = f[k] /\ (k # 0 => g[k - 1] = f[k - 1])
        BY <2>2, <3>2
      <4>2. f[k] = IF k = 0 THEN <<>> ELSE of(f[k - 1], k)
        BY <2>1, <4>1
      <4> HIDE DEF g
      <4> QED
        BY <4>1, <4>2
    <3> QED
      BY <3>1, <3>2
  <2>4. g = [k \in 0..m |-> g[k]]
    OBVIOUS
  <2> HIDE DEF g
  <2>5. g = Step(g, m)
    BY <2>3, <2>4
  <2> QED
    BY <2>2, <2>5
<1>7. n \in T
  <2> HIDE DEF T
  <2>1. \A m \in 0..n : m \in T
    BY <1>1, <1>5, <1>6, Climb
  <2> QED
    BY <1>1, <2>1
<1>8. taken = Step(taken, n)
  <2>1. \E f : f = Step(f, n)
    BY <1>7
  <2> HIDE DEF Step
  <2> QED
    BY <2>1
<1> HIDE DEF taken
<1>9. \A k \in 0..n : taken[k] = IF k = 0 THEN <<>> ELSE of(taken[k - 1], k)
  BY <1>8
<1> DEFINE S == {k \in 0..n : /\ IsSeq(taken[k]) /\ Len(taken[k]) = k
                               /\ \A i \in 1..k : taken[k][i] \in {0} \cup DOMAIN found}
<1>10. 0 \in S
  <2>1. taken[0] = <<>> /\ 0 \in 0..n
    BY <1>1, <1>9
  <2>2. IsSeq(<<>>) /\ Len(<<>>) = 0
    BY EmptySeq DEF IsSeq
  <2> QED
    BY <2>1, <2>2
<1>11. ASSUME NEW k \in 1..n, k - 1 \in S PROVE k \in S
  <2> DEFINE before == taken[k - 1]
             b == best(before, k)
             e == IF b = {} THEN 0 ELSE D!Min(b)
  <2>1. /\ k \in 0..n /\ k # 0 /\ k \in Nat /\ IsSeq(before) /\ Len(before) = k - 1
        /\ \A i \in 1..(k - 1) : before[i] \in {0} \cup DOMAIN found
    BY <1>1, <1>11
  <2>2. b \subseteq Nat /\ b \subseteq DOMAIN found
    BY <1>2, SeqDomain
  <2>3. e \in {0} \cup DOMAIN found
    <3> HIDE DEF b
    <3>1. b # {} => D!Min(b) \in b
      BY <2>2, LeastOf, DMin
    <3> QED
      BY <2>2, <3>1
  <2>4. taken[k] = Append(before, e)
    BY <1>4, <1>9, <2>1
  <2> HIDE DEF before, e
  <2>5. PICK s : s = Append(before, e) /\ IsSeq(s) /\ Len(s) = k /\ s[k] = e
                 /\ \A i \in 1..(k - 1) : s[i] = before[i]
    <3>1. DOMAIN before = 1..(k - 1) /\ Len(before) + 1 = k
      BY <2>1, SeqDomain
    <3>2. /\ IsSeq(Append(before, e)) /\ Len(Append(before, e)) = Len(before) + 1
          /\ Append(before, e)[Len(before) + 1] = e
          /\ \A i \in DOMAIN before : Append(before, e)[i] = before[i]
      BY <2>1, SeqAppend
    <3>3. /\ Len(Append(before, e)) = k /\ Append(before, e)[k] = e
          /\ \A i \in 1..(k - 1) : Append(before, e)[i] = before[i]
      BY <3>1, <3>2, Zenon
    <3> QED
      BY <3>2, <3>3
  <2>6. \A i \in 1..k : s[i] \in {0} \cup DOMAIN found
    BY <2>1, <2>3, <2>5
  <2> QED
    BY <2>1, <2>4, <2>5, <2>6
<1>12. n \in S
  <2> HIDE DEF S
  <2>1. \A m \in 0..n : m \in S
    BY <1>1, <1>10, <1>11, Climb
  <2> QED
    BY <1>1, <2>1
<1> QED
  BY <1>1, <1>3, <1>12 DEF n

(* Candidates as records, and what reconciling makes of one.               *)
Row(c) ==
    c = [id |-> c.id, family |-> c.family, first |-> c.first, members |-> c.members,
         evidence |-> c.evidence, prints |-> c.prints, status |-> c.status,
         dismissed |-> c.dismissed]

Renamed(c, id) ==
    [id |-> id, family |-> c.family, first |-> c.first, members |-> c.members,
     evidence |-> c.evidence, prints |-> c.prints, status |-> c.status,
     dismissed |-> c.dismissed]

LEMMA RowRenamed ==
  ASSUME NEW c, Row(c), NEW id
  PROVE  [c EXCEPT !.id = id] = Renamed(c, id)
<1>1. PICK a, b, d, e, f, g, h, j :
        c = [id |-> a, family |-> b, first |-> d, members |-> e,
             evidence |-> f, prints |-> g, status |-> h, dismissed |-> j]
  BY DEF Row
<1> QED
  BY <1>1 DEF Renamed

LEMMA RowFaded ==
  ASSUME NEW old, Row(old), NEW captured, NEW fresh,
         NEW new, new = D!Faded(old, captured, fresh)
  PROVE  /\ Row(new) /\ new.id = old.id /\ new.members = old.members
         /\ new.prints = old.prints /\ new.evidence = old.evidence
         /\ new.dismissed = old.dismissed
         /\ new.status = IF D!Kept(old, captured, fresh) = {} THEN "resolved" ELSE old.status
<1>1. PICK a, b, d, e, f, g, h, j :
        old = [id |-> a, family |-> b, first |-> d, members |-> e,
               evidence |-> f, prints |-> g, status |-> h, dismissed |-> j]
  BY DEF Row
<1>2. PICK s : s = IF D!Kept(old, captured, fresh) = {} THEN "resolved" ELSE old.status
  OBVIOUS
<1>3. new = [old EXCEPT !.status = s]
  BY <1>2 DEF D!Faded
<1>4. new = [id |-> a, family |-> b, first |-> d, members |-> e,
             evidence |-> f, prints |-> g, status |-> s, dismissed |-> j]
  BY <1>1, <1>3
<1>5. Row(new) /\ new.id = old.id /\ new.members = old.members /\ new.prints = old.prints
      /\ new.evidence = old.evidence /\ new.dismissed = old.dismissed /\ new.status = s
  BY <1>1, <1>4 DEF Row
<1> QED
  BY <1>2, <1>5

LEMMA SamePrint ==
  ASSUME NEW c, NEW o, c.prints = o.prints, c.evidence = o.evidence
  PROVE  D!Fingerprint(c) = D!Fingerprint(o)
BY Zenon DEF D!Fingerprint

Succeeded(new, c, old, kept) ==
    /\ Row(new) /\ new.id = old.id /\ new.dismissed = old.dismissed
    /\ new.members = c.members \cup kept
    /\ new.prints = [m \in DOMAIN c.prints \cup kept |->
                       IF m \in kept THEN old.prints[m] ELSE c.prints[m]]
    /\ new.status = IF old.dismissed = D!Fingerprint(new) THEN "resolved" ELSE c.status

LEMMA RowSucceeds ==
  ASSUME NEW c, Row(c), NEW old, Row(old), NEW captured, NEW fresh,
         NEW new, new = D!Succeeds(c, old, captured, fresh),
         NEW kept, kept = D!Kept(old, captured, fresh)
  PROVE  Succeeded(new, c, old, kept)
<1>1. PICK a, b, d, e, f, g, h, j :
        c = [id |-> a, family |-> b, first |-> d, members |-> e,
             evidence |-> f, prints |-> g, status |-> h, dismissed |-> j]
  BY DEF Row
<1>2. PICK members, prints, evidence :
        /\ members = c.members \cup kept
        /\ prints = [m \in DOMAIN c.prints \cup kept |->
                       IF m \in kept THEN old.prints[m] ELSE c.prints[m]]
        /\ evidence = IF kept = {} THEN c.evidence ELSE c.evidence \cup old.evidence
  OBVIOUS
<1> DEFINE carried == D!Carried(c, old)
           merged == [carried EXCEPT !.members = members, !.prints = prints, !.evidence = evidence]
<1>12. PICK x, y : x = old.id /\ y = old.dismissed
  OBVIOUS
<1>3. carried = [id |-> x, family |-> b, first |-> d, members |-> e,
                 evidence |-> f, prints |-> g, status |-> h, dismissed |-> y]
  <2>1. carried = [c EXCEPT !.id = x, !.dismissed = y]
    BY <1>12, Zenon DEF D!Carried
  <2> HIDE DEF carried
  <2> QED
    BY <1>1, <2>1
<1>4. merged = [id |-> x, family |-> b, first |-> d, members |-> members,
                evidence |-> evidence, prints |-> prints, status |-> h, dismissed |-> y]
  <2> DEFINE z == carried
  <2>1. merged = [z EXCEPT !.members = members, !.prints = prints, !.evidence = evidence]
    BY Zenon
  <2>2. z = [id |-> x, family |-> b, first |-> d, members |-> e,
             evidence |-> f, prints |-> g, status |-> h, dismissed |-> y]
    BY <1>3
  <2> HIDE DEF merged, z
  <2> QED
    BY <2>1, <2>2
<1>5. carried.members = c.members /\ carried.prints = c.prints /\ carried.evidence = c.evidence
  <2> HIDE DEF carried
  <2> QED
    BY <1>1, <1>3
<1>6. new = [merged EXCEPT !.status = IF old.dismissed = D!Fingerprint(merged) THEN "resolved" ELSE @]
  <2>1. merged = [carried EXCEPT !.members = @ \cup kept,
            !.prints = [m \in DOMAIN @ \cup kept |-> IF m \in kept THEN old.prints[m] ELSE @[m]],
            !.evidence = IF kept = {} THEN @ ELSE @ \cup old.evidence]
    <3> HIDE DEF carried
    <3> QED
      BY <1>2, <1>5, Zenon
  <2> DEFINE Merged(k) == [D!Carried(c, old) EXCEPT !.members = @ \cup k,
                !.prints = [m \in DOMAIN @ \cup k |-> IF m \in k THEN old.prints[m] ELSE @[m]],
                !.evidence = IF k = {} THEN @ ELSE @ \cup old.evidence]
             Closed(x1) == [x1 EXCEPT !.status = IF old.dismissed = D!Fingerprint(x1) THEN "resolved" ELSE @]
  <2>2. D!Succeeds(c, old, captured, fresh) = Closed(Merged(D!Kept(old, captured, fresh)))
    BY Zenon DEF D!Succeeds
  <2>3. Merged(kept) = merged
    BY <2>1, Zenon
  <2>4. new = Closed(merged)
    <3> HIDE DEF Merged, Closed, merged
    <3> QED
      BY <2>2, <2>3
  <2> QED
    BY <2>4
<1> HIDE DEF merged
<1>7. PICK s : s = IF y = D!Fingerprint(merged) THEN "resolved" ELSE h
  OBVIOUS
<1>8. new = [id |-> x, family |-> b, first |-> d, members |-> members,
             evidence |-> evidence, prints |-> prints, status |-> s, dismissed |-> y]
  <2>1. merged.status = h
    BY <1>4
  <2>2. new = [merged EXCEPT !.status = s]
    BY <1>6, <1>7, <1>12, <2>1
  <2> QED
    BY <1>4, <2>2
<1>9. new.prints = merged.prints /\ new.evidence = merged.evidence
  BY <1>4, <1>8
<1>10. D!Fingerprint(new) = D!Fingerprint(merged)
  BY <1>9, SamePrint
<1>11. /\ Row(new) /\ new.id = old.id /\ new.dismissed = old.dismissed
       /\ new.members = members /\ new.prints = prints /\ new.status = s /\ c.status = h
  BY <1>1, <1>8, <1>12 DEF Row
<1> QED
  BY <1>2, <1>7, <1>10, <1>11, <1>12 DEF Succeeded

(* A candidate that is new gets an identity no other has.                  *)
LEMMA FreshId ==
  ASSUME NEW c, Row(c), NEW p, NEW f, NEW k, c.id = [post |-> p, family |-> f, n |-> k],
         NEW reserved, IsFiniteSet(reserved)
  PROVE  \E id : D!Named(c, reserved) = Renamed(c, id) /\ id \notin reserved
<1> DEFINE numbered(n) == [c.id EXCEPT !.family = c.family, !.n = n]
           max == Cardinality(reserved)
           free == {n \in 0..max : numbered(n) \notin reserved}
<1>1. CASE c.id \notin reserved
  <2>1. D!Named(c, reserved) = c
    BY <1>1 DEF D!Named
  <2>2. c = Renamed(c, c.id)
    BY DEF Row, Renamed
  <2> QED
    BY <1>1, <2>1, <2>2
<1>2. CASE c.id \in reserved
  <2>1. max \in Nat
    BY FS_CardinalityType
  <2>2. \A n : numbered(n) = [post |-> p, family |-> c.family, n |-> n]
    <3> SUFFICES ASSUME NEW n PROVE numbered(n) = [post |-> p, family |-> c.family, n |-> n]
      OBVIOUS
    <3>1. PICK q : q = c.family
      OBVIOUS
    <3>2. numbered(n) = [[post |-> p, family |-> f, n |-> k] EXCEPT !.family = q, !.n = n]
      BY <3>1, Zenon
    <3> HIDE DEF numbered
    <3> QED
      BY <3>1, <3>2
  <2> HIDE DEF numbered
  <2>3. \A n, m : numbered(n) = numbered(m) => n = m
    <3> SUFFICES ASSUME NEW n, NEW m, numbered(n) = numbered(m) PROVE n = m
      OBVIOUS
    <3>1. numbered(n).n = n /\ numbered(m).n = m
      BY <2>2
    <3> QED
      BY <3>1
  <2>4. free # {}
    <3> SUFFICES ASSUME \A n \in 0..max : numbered(n) \in reserved PROVE FALSE
      OBVIOUS
    <3> DEFINE names == [n \in 0..max |-> numbered(n)]
    <3>1. IsFiniteSet(0..max) /\ Cardinality(0..max) = max + 1
      <4> HIDE DEF max
      <4> QED
        BY <2>1, FS_Interval
    <3>2. names \in Injection(0..max, reserved)
      BY <2>3 DEF Injection, IsInjective
    <3>3. Cardinality(0..max) <= Cardinality(reserved)
      BY <3>2, FS_Injection
    <3> HIDE DEF max
    <3>4. Cardinality(0..max) <= max
      BY <3>3 DEF max
    <3> QED
      BY <2>1, <3>1, <3>4
  <2>5. D!Min(free) \in free
    <3>1. free \subseteq Nat
      BY <2>1
    <3> QED
      BY <2>4, <3>1, LeastOf, DMin
  <2>6. D!Named(c, reserved)
          = [c EXCEPT !.id = numbered(D!Min({n \in 0..D!Cardinality(reserved) : numbered(n) \notin reserved}))]
    BY <1>2 DEF D!Named, numbered
  <2>7. D!Cardinality(reserved) = max
    BY DEF D!Cardinality, Cardinality
  <2>8. D!Named(c, reserved) = Renamed(c, numbered(D!Min(free)))
    <3> HIDE DEF max, free
    <3> QED
      BY <2>6, <2>7, RowRenamed DEF free
  <2> QED
    BY <2>5, <2>8
<1> QED
  BY <1>1, <1>2

(* The table a run computes: its earlier candidates in their order, then   *)
(* new ones, no two of one identity.                                       *)
IdsApart(rows) == \A i, j \in DOMAIN rows : rows[i].id = rows[j].id => i = j

Continues(new, old, found, captured, fresh) ==
    \/ new = D!Faded(old, captured, fresh)
    \/ \E k \in DOMAIN found : new = D!Succeeds(found[k], old, captured, fresh)

Reconciled(rows, found, previous, captured, fresh) ==
    /\ IsSeq(rows) /\ DOMAIN previous \subseteq DOMAIN rows /\ IdsApart(rows)
    /\ \A i \in DOMAIN previous : Continues(rows[i], previous[i], found, captured, fresh)
    /\ \A i \in (DOMAIN rows) \ (DOMAIN previous) :
         \E k \in DOMAIN found : \E id : rows[i] = Renamed(found[k], id)

LEMMA IdsFinite == ASSUME NEW rows, IsSeq(rows) PROVE IsFiniteSet(D!Ids(rows))
<1>1. DOMAIN rows = 1..Len(rows) /\ Len(rows) \in Nat
  BY SeqDomain
<1>2. IsFiniteSet(1..Len(rows))
  BY <1>1, FS_Interval
<1> DEFINE ids == [i \in 1..Len(rows) |-> rows[i].id]
<1>3. D!Ids(rows) = {ids[i] : i \in 1..Len(rows)}
  BY <1>1 DEF D!Ids
<1>4. ids \in Surjection(1..Len(rows), D!Ids(rows))
  BY <1>3 DEF Surjection
<1> HIDE DEF ids
<1> QED
  BY <1>2, <1>4, FS_Surjection

LEMMA ContinuesRow ==
  ASSUME NEW found, \A k \in DOMAIN found : Row(found[k]), NEW old, Row(old),
         NEW captured, NEW fresh, NEW new, Continues(new, old, found, captured, fresh)
  PROVE  Row(new) /\ new.id = old.id /\ new.dismissed = old.dismissed
<1>1. CASE new = D!Faded(old, captured, fresh)
  BY <1>1, RowFaded
<1>2. CASE \E k \in DOMAIN found : new = D!Succeeds(found[k], old, captured, fresh)
  <2>1. PICK k \in DOMAIN found : new = D!Succeeds(found[k], old, captured, fresh)
    BY <1>2
  <2>2. PICK c : c = found[k] /\ Row(c)
    OBVIOUS
  <2>3. new = D!Succeeds(c, old, captured, fresh)
    BY <2>1, <2>2
  <2>4. PICK kept : kept = D!Kept(old, captured, fresh)
    OBVIOUS
  <2>5. Succeeded(new, c, old, kept)
    BY <2>2, <2>3, <2>4, RowSucceeds
  <2> QED
    BY <2>5 DEF Succeeded
<1> QED
  BY <1>1, <1>2 DEF Continues

LEMMA Appended ==
  ASSUME NEW rows, NEW found, NEW previous, NEW captured, NEW fresh,
         Reconciled(rows, found, previous, captured, fresh), IsSeq(previous),
         NEW k \in DOMAIN found, NEW id, id \notin D!Ids(rows)
  PROVE  Reconciled(Append(rows, Renamed(found[k], id)), found, previous, captured, fresh)
<1> DEFINE e == Renamed(found[k], id)
<1>1. e.id = id
  BY DEF Renamed
<1>2. /\ IsSeq(rows) /\ DOMAIN previous \subseteq DOMAIN rows /\ IdsApart(rows)
      /\ \A i \in DOMAIN previous : Continues(rows[i], previous[i], found, captured, fresh)
      /\ \A i \in (DOMAIN rows) \ (DOMAIN previous) :
            \E j \in DOMAIN found : \E x : rows[i] = Renamed(found[j], x)
  BY DEF Reconciled
<1>3. \E j \in DOMAIN found : \E x : e = Renamed(found[j], x)
  OBVIOUS
<1> HIDE DEF e
<1>4. PICK s, n : /\ s = Append(rows, e) /\ IsSeq(s) /\ DOMAIN s = DOMAIN rows \cup {n}
                  /\ n \notin DOMAIN rows /\ s[n] = e /\ \A i \in DOMAIN rows : s[i] = rows[i]
  <2>1. Len(rows) + 1 \notin DOMAIN rows
    BY <1>2, SeqDomain
  <2>2. /\ IsSeq(Append(rows, e)) /\ DOMAIN Append(rows, e) = DOMAIN rows \cup {Len(rows) + 1}
        /\ Append(rows, e)[Len(rows) + 1] = e
        /\ \A i \in DOMAIN rows : Append(rows, e)[i] = rows[i]
    BY <1>2, SeqAppend
  <2> QED
    BY <2>1, <2>2, Zenon
<1>5. IdsApart(s)
  BY <1>1, <1>2, <1>4 DEF IdsApart, D!Ids
<1>6. \A i \in (DOMAIN s) \ (DOMAIN previous) :
         \E j \in DOMAIN found : \E x : s[i] = Renamed(found[j], x)
  BY <1>2, <1>3, <1>4
<1>7. \A i \in DOMAIN previous : Continues(s[i], previous[i], found, captured, fresh)
  BY <1>2, <1>4
<1> QED
  BY <1>2, <1>4, <1>5, <1>6, <1>7 DEF Reconciled, e

LEMMA Reconciles ==
  ASSUME NEW previous, IsSeq(previous), \A i \in DOMAIN previous : Row(previous[i]),
         IdsApart(previous), NEW found, IsSeq(found),
         \A k \in DOMAIN found : /\ Row(found[k])
                                 /\ \E p, f, q : found[k].id = [post |-> p, family |-> f, n |-> q],
         NEW captured, NEW fresh
  PROVE  Reconciled(D!Reconcile(found, previous, captured, fresh), found, previous, captured, fresh)
<1> DEFINE next == D!Successors(previous, found)
           continued == [i \in DOMAIN previous |->
              IF next[i] = 0 THEN D!Faded(previous[i], captured, fresh)
              ELSE D!Succeeds(found[next[i]], previous[i], captured, fresh)]
           of(before, k) == IF k \in D!Range(next) THEN before
                            ELSE Append(before, D!Named(found[k], D!Ids(before)))
           n == Len(found)
           Step(f, m) == [k \in 0..m |-> IF k = 0 THEN continued ELSE of(f[k - 1], k)]
           rows == CHOOSE f : f = Step(f, n)
           T == {m \in Nat : \E f : f = Step(f, m)}
           S == {k \in 0..n : Reconciled(rows[k], found, previous, captured, fresh)}
<1>1. n \in Nat /\ DOMAIN found = 1..n
  BY SeqDomain
<1>2. D!Reconcile(found, previous, captured, fresh) = rows[n]
  BY DEF D!Reconcile
<1>3. \A before, k : \/ of(before, k) = before
                     \/ of(before, k) = Append(before, D!Named(found[k], D!Ids(before)))
  OBVIOUS
<1>4. Reconciled(continued, found, previous, captured, fresh)
  <2>1. IsSeq(continued) /\ DOMAIN continued = DOMAIN previous
    <3>1. DOMAIN previous = 1..Len(previous) /\ Len(previous) \in Nat
      BY SeqDomain
    <3> DEFINE s == continued
    <3>2. s = [i \in 1..Len(previous) |-> s[i]]
      BY <3>1
    <3>3. DOMAIN s = DOMAIN previous
      OBVIOUS
    <3> HIDE DEF s
    <3>4. IsSeq(s)
      BY <3>1, <3>2, SeqMapped
    <3> QED
      BY <3>3, <3>4 DEF s
  <2>2. ASSUME NEW i \in DOMAIN previous
        PROVE  Continues(continued[i], previous[i], found, captured, fresh)
    <3>1. next[i] \in {0} \cup DOMAIN found
      BY SuccessorsFound
    <3> HIDE DEF next
    <3>2. continued[i] = IF next[i] = 0 THEN D!Faded(previous[i], captured, fresh)
                         ELSE D!Succeeds(found[next[i]], previous[i], captured, fresh)
      OBVIOUS
    <3> HIDE DEF continued
    <3> QED
      BY <3>1, <3>2, Zenon DEF Continues
  <2> HIDE DEF continued
  <2>3. \A i \in DOMAIN previous : continued[i].id = previous[i].id
    BY <2>2, ContinuesRow
  <2>4. IdsApart(continued)
    BY <2>1, <2>3 DEF IdsApart
  <2> QED
    BY <2>1, <2>2, <2>4 DEF Reconciled
<1> HIDE DEF n, of, continued
<1>5. 0 \in T
  <2>1. [k \in 0..0 |-> continued] = Step([k \in 0..0 |-> continued], 0)
    OBVIOUS
  <2> QED
    BY <2>1
<1>6. ASSUME NEW m \in 1..n, m - 1 \in T PROVE m \in T
  <2>1. PICK f : f = Step(f, m - 1)
    BY <1>6
  <2> DEFINE g == [k \in 0..m |-> IF k = m THEN of(f[m - 1], m) ELSE f[k]]
  <2>2. m \in Nat /\ m # 0 /\ m - 1 \in 0..(m - 1)
    BY <1>1
  <2>3. ASSUME NEW k \in 0..m PROVE g[k] = IF k = 0 THEN continued ELSE of(g[k - 1], k)
    <3>1. CASE k = m
      <4>1. g[k] = of(f[m - 1], m) /\ g[m - 1] = f[m - 1]
        BY <2>2, <3>1
      <4> HIDE DEF g
      <4> QED
        BY <2>2, <3>1, <4>1
    <3>2. CASE k # m
      <4>1. k \in 0..(m - 1) /\ g[k] = f[k] /\ (k # 0 => g[k - 1] = f[k - 1])
        BY <2>2, <3>2
      <4>2. f[k] = IF k = 0 THEN continued ELSE of(f[k - 1], k)
        BY <2>1, <4>1
      <4> HIDE DEF g
      <4> QED
        BY <4>1, <4>2
    <3> QED
      BY <3>1, <3>2
  <2>4. g = [k \in 0..m |-> g[k]]
    OBVIOUS
  <2> HIDE DEF g
  <2>5. g = Step(g, m)
    BY <2>3, <2>4
  <2> QED
    BY <2>2, <2>5
<1>7. n \in T
  <2> HIDE DEF T
  <2>1. \A m \in 0..n : m \in T
    BY <1>1, <1>5, <1>6, Climb
  <2> QED
    BY <1>1, <2>1
<1>8. rows = Step(rows, n)
  <2>1. \E f : f = Step(f, n)
    BY <1>7
  <2> HIDE DEF Step
  <2> QED
    BY <2>1
<1> HIDE DEF rows
<1>9. \A k \in 0..n : rows[k] = IF k = 0 THEN continued ELSE of(rows[k - 1], k)
  BY <1>8
<1>10. 0 \in S
  BY <1>1, <1>4, <1>9
<1>11. ASSUME NEW k \in 1..n, k - 1 \in S PROVE k \in S
  <2> DEFINE before == rows[k - 1]
  <2>1. k \in 0..n /\ k # 0 /\ Reconciled(before, found, previous, captured, fresh)
    BY <1>1, <1>11
  <2>2. rows[k] = of(before, k)
    BY <1>9, <2>1
  <2> HIDE DEF before
  <2>3. PICK p, f, q : found[k].id = [post |-> p, family |-> f, n |-> q]
    BY <1>1
  <2>4. IsFiniteSet(D!Ids(before)) /\ Row(found[k]) /\ k \in DOMAIN found
    BY <1>1, <2>1, IdsFinite DEF Reconciled
  <2>5. PICK id : D!Named(found[k], D!Ids(before)) = Renamed(found[k], id) /\ id \notin D!Ids(before)
    BY <2>3, <2>4, FreshId
  <2>6. Reconciled(Append(before, Renamed(found[k], id)), found, previous, captured, fresh)
    BY <2>1, <2>4, <2>5, Appended
  <2>7. Reconciled(rows[k], found, previous, captured, fresh)
    BY <1>3, <2>1, <2>2, <2>5, <2>6
  <2> QED
    BY <2>1, <2>7
<1>12. n \in S
  <2> HIDE DEF S
  <2>1. \A m \in 0..n : m \in S
    BY <1>1, <1>10, <1>11, Climb
  <2> QED
    BY <1>1, <2>1
<1> QED
  BY <1>2, <1>12

(* What holds of the table, of the rows a run has computed, and between    *)
(* the two while nobody has written them.                                  *)
Seen(c) ==
    /\ c.members \subseteq D!Index /\ DOMAIN c.prints = c.members
    /\ \A m \in c.members : c.prints[m].edit \in Nat /\ c.prints[m].edit <= site[m].edit

RowsSound(rows) ==
    /\ IsSeq(rows) /\ IdsApart(rows)
    /\ \A i \in DOMAIN rows : Row(rows[i]) /\ Seen(rows[i])

\* What was dismissed outside of a run is known to be, and is closed.
DismissalsKnown(rows) ==
    \A i \in DOMAIN rows :
      LET id == rows[i].id
      IN id \in DOMAIN dismissals /\ dismissals[id].alone =>
            /\ rows[i].dismissed = dismissals[id].of
            /\ dismissals[id].of = D!Fingerprint(rows[i]) => rows[i].status = "resolved"

Observed(m, print) ==
    /\ m \in DOMAIN run.captured
    /\ run.captured[m].edit >= print.edit \/ run.captured[m].is = print.capture

\* An open candidate loses what a run has seen a version of, and no more.
Follows(new, old) ==
    /\ new.id = old.id
    /\ \A m \in DOMAIN old.prints :
         /\ old.status # "resolved"
         /\ \/ m \notin DOMAIN new.prints
            \/ new.prints[m].edit < old.prints[m].edit
            \/ new.status = "resolved" /\ new.dismissed # D!Fingerprint(new)
         => Observed(m, old.prints[m])

SiteSound ==
    /\ changes \in Nat /\ DOMAIN site = D!Index
    /\ \A m \in D!Index : site[m].edit \in Nat /\ site[m].edit <= changes + 1
    /\ DOMAIN stored \subseteq D!Index
    /\ \A m \in DOMAIN stored : stored[m].edit \in Nat /\ stored[m].edit <= site[m].edit

TableSound ==
    RowsSound(candidates) /\ DismissalsKnown(candidates)
    /\ DOMAIN dismissals \subseteq D!Ids(candidates)

RunSound ==
    /\ run = [at |-> run.at, captured |-> run.captured, fresh |-> run.fresh, rows |-> run.rows]
    /\ run.at \in {"idle", "synced", "judged"}
    /\ run.at # "idle" =>
         /\ DOMAIN run.captured \subseteq D!Index
         /\ \A m \in DOMAIN run.captured :
              /\ run.captured[m].edit \in Nat /\ run.captured[m].edit <= site[m].edit
              /\ m \in run.fresh => run.captured[m] = site[m]

RowsFollow ==
    /\ run.at # "judged" => run.rows = <<>>
    /\ run.at = "judged" =>
         /\ RowsSound(run.rows) /\ DismissalsKnown(run.rows)
         /\ DOMAIN candidates \subseteq DOMAIN run.rows
         /\ \A i \in DOMAIN candidates : Follows(run.rows[i], candidates[i])

CandidateInv == SiteSound /\ TableSound /\ RunSound /\ RowsFollow

(* What a run detects is sound, and open.                                  *)
Found(groups) == [i \in DOMAIN groups |-> D!Detected(config, run.captured, groups[i])]

Opened(c) ==
    /\ Row(c) /\ Seen(c) /\ c.status # "resolved"
    /\ \E p, f, q : c.id = [post |-> p, family |-> f, n |-> q]

LEMMA DetectedSound ==
  ASSUME SiteSound, RunSound, run.at = "synced", NEW groups,
         Grouping(groups, run.captured), NEW found,
         found = Found(groups)
  PROVE  IsSeq(found) /\ \A k \in DOMAIN found : Opened(found[k])
<1> USE DEF Found
<1>1. IsSeq(found) /\ DOMAIN found = DOMAIN groups
  <2>1. DOMAIN groups = 1..Len(groups) /\ Len(groups) \in Nat
    BY SeqDomain DEF Grouping
  <2>2. found = [i \in 1..Len(groups) |-> found[i]]
    BY <2>1
  <2> QED
    BY <2>1, <2>2, SeqMapped
<1>2. ASSUME NEW k \in DOMAIN groups
      PROVE  Opened(found[k])
  <2>1. PICK g : g = groups[k] /\ g.members \subseteq DOMAIN run.captured
    BY DEF Grouping
  <2>2. PICK id, prints, status :
          /\ id = [post |-> g.first, family |-> D!NoFamily, n |-> -1]
          /\ prints = [m \in g.members |->
                [capture |-> run.captured[m].is, evidence |-> D!Shown(config, run.captured[m].is),
                 edit |-> run.captured[m].edit]]
          /\ status = IF D!Cardinality(g.members) > 1 THEN "needs_decision" ELSE "possible"
    OBVIOUS
  <2>3. found[k] = [id |-> id, family |-> g.family, first |-> g.first, members |-> g.members,
                    evidence |-> g.evidence, prints |-> prints, status |-> status, dismissed |-> {}]
    BY <2>1, <2>2, Zenon DEF D!Detected
  <2>4. PICK c : c = found[k]
    OBVIOUS
  <2>5. /\ Row(c) /\ c.members = g.members /\ c.prints = prints /\ c.status = status /\ c.id = id
    BY <2>3, <2>4 DEF Row
  <2>6. status # "resolved"
    BY <2>2
  <2>7. DOMAIN prints = g.members /\ \A m \in g.members : prints[m].edit = run.captured[m].edit
    BY <2>2
  <2>8. Seen(c)
    BY <2>1, <2>5, <2>7 DEF Seen, RunSound
  <2>9. \E p, f, q : c.id = [post |-> p, family |-> f, n |-> q]
    <3>1. c.id = [post |-> g.first, family |-> D!NoFamily, n |-> -1]
      BY <2>2, <2>5
    <3> QED
      BY <3>1
  <2> QED
    BY <2>4, <2>5, <2>6, <2>8, <2>9 DEF Opened
<1> QED
  BY <1>1, <1>2

(* One candidate from a run to the next.                                   *)
LEMMA ContinuesSound ==
  ASSUME SiteSound, RunSound, run.at = "synced", NEW old, Row(old), Seen(old), NEW found,
         \A k \in DOMAIN found : Row(found[k]) /\ Seen(found[k]) /\ found[k].status # "resolved",
         NEW new, Continues(new, old, found, run.captured, run.fresh)
  PROVE  /\ Row(new) /\ Seen(new) /\ Follows(new, old) /\ new.dismissed = old.dismissed
         /\ \/ old.dismissed = D!Fingerprint(new) => new.status = "resolved"
            \/ D!Fingerprint(new) = D!Fingerprint(old)
               /\ (old.status = "resolved" => new.status = "resolved")
<1>0. PICK kept : kept = D!Kept(old, run.captured, run.fresh)
  OBVIOUS
<1>1. /\ old.members \subseteq D!Index /\ DOMAIN old.prints = old.members
      /\ \A m \in old.members : old.prints[m].edit \in Nat /\ old.prints[m].edit <= site[m].edit
  BY DEF Seen
<1>2. kept \subseteq old.members
  BY <1>0 DEF D!Kept
<1>3. ASSUME NEW m \in old.members, m \notin kept PROVE Observed(m, old.prints[m])
  <2>1. D!Superseded(old, m, run.captured, run.fresh)
    BY <1>0, <1>3 DEF D!Kept
  <2>2. /\ m \in DOMAIN run.captured
        /\ m \in run.fresh \/ run.captured[m].is = old.prints[m].capture
    BY <2>1 DEF D!Superseded
  <2>3. m \in run.fresh => run.captured[m] = site[m]
    BY <2>2 DEF RunSound
  <2>4. m \in run.fresh => run.captured[m].edit >= old.prints[m].edit
    BY <1>1, <2>3 DEF SiteSound
  <2> QED
    BY <2>2, <2>4 DEF Observed
<1>4. CASE new = D!Faded(old, run.captured, run.fresh)
  <2>1. /\ Row(new) /\ new.id = old.id /\ new.members = old.members
        /\ new.prints = old.prints /\ new.evidence = old.evidence /\ new.dismissed = old.dismissed
        /\ new.status = IF kept = {} THEN "resolved" ELSE old.status
    BY <1>0, <1>4, RowFaded
  <2>2. D!Fingerprint(new) = D!Fingerprint(old)
    BY <2>1, SamePrint
  <2>3. Seen(new)
    BY <1>1, <2>1 DEF Seen
  <2>4. Follows(new, old)
    <3> SUFFICES ASSUME NEW m \in DOMAIN old.prints, old.status # "resolved",
                        \/ m \notin DOMAIN new.prints
                        \/ new.prints[m].edit < old.prints[m].edit
                        \/ new.status = "resolved"
                 PROVE  Observed(m, old.prints[m])
      BY <2>1 DEF Follows
    <3>1. new.status = "resolved"
      BY <1>1, <2>1
    <3>2. kept = {} /\ m \in old.members
      BY <1>1, <2>1, <3>1
    <3> QED
      BY <1>3, <3>2
  <2> QED
    BY <2>1, <2>2, <2>3, <2>4
<1>5. CASE \E k \in DOMAIN found : new = D!Succeeds(found[k], old, run.captured, run.fresh)
  <2>1. PICK c : /\ new = D!Succeeds(c, old, run.captured, run.fresh)
                 /\ Row(c) /\ Seen(c) /\ c.status # "resolved"
    BY <1>5
  <2>2. /\ Row(new) /\ new.id = old.id /\ new.dismissed = old.dismissed
        /\ new.members = c.members \cup kept
        /\ new.prints = [m \in DOMAIN c.prints \cup kept |->
                           IF m \in kept THEN old.prints[m] ELSE c.prints[m]]
        /\ new.status = IF old.dismissed = D!Fingerprint(new) THEN "resolved" ELSE c.status
    <3>1. Succeeded(new, c, old, kept)
      BY <1>0, <2>1, RowSucceeds
    <3> QED
      BY <3>1 DEF Succeeded
  <2>3. /\ c.members \subseteq D!Index /\ DOMAIN c.prints = c.members
        /\ \A m \in c.members : c.prints[m].edit \in Nat /\ c.prints[m].edit <= site[m].edit
    BY <2>1 DEF Seen
  <2>4. DOMAIN new.prints = new.members
    BY <2>2, <2>3
  <2>5. \A m \in new.members : new.prints[m] = IF m \in kept THEN old.prints[m] ELSE c.prints[m]
    BY <2>2, <2>3
  <2>6. Seen(new)
    BY <1>1, <1>2, <2>2, <2>3, <2>4, <2>5 DEF Seen
  <2>7. Follows(new, old)
    <3> SUFFICES ASSUME NEW m \in DOMAIN old.prints,
                        \/ m \notin DOMAIN new.prints
                        \/ new.prints[m].edit < old.prints[m].edit
                        \/ new.status = "resolved" /\ new.dismissed # D!Fingerprint(new)
                 PROVE  Observed(m, old.prints[m])
      BY <2>2 DEF Follows
    <3>1. ~(new.status = "resolved" /\ new.dismissed # D!Fingerprint(new))
      BY <2>1, <2>2
    <3>2. ASSUME m \in kept PROVE FALSE
      <4>1. m \in DOMAIN new.prints /\ new.prints[m] = old.prints[m]
        BY <2>2, <2>4, <2>5, <3>2
      <4>2. old.prints[m].edit \in Nat
        BY <1>1
      <4> QED
        BY <3>1, <4>1, <4>2
    <3> QED
      BY <1>1, <1>3, <3>2
  <2>8. old.dismissed = D!Fingerprint(new) => new.status = "resolved"
    BY <2>2
  <2> QED
    BY <2>2, <2>6, <2>7, <2>8
<1> QED
  BY <1>4, <1>5 DEF Continues

(* What a run computes is sound, and follows the table it has read.        *)
LEMMA JudgedSound ==
  ASSUME SiteSound, TableSound, RunSound, run.at = "synced", NEW found, IsSeq(found),
         \A k \in DOMAIN found : Opened(found[k]),
         NEW rows, rows = D!Reconcile(found, candidates, run.captured, run.fresh)
  PROVE  /\ RowsSound(rows) /\ DismissalsKnown(rows) /\ DOMAIN candidates \subseteq DOMAIN rows
         /\ \A i \in DOMAIN candidates : Follows(rows[i], candidates[i])
<1>1. /\ IsSeq(candidates) /\ IdsApart(candidates)
      /\ \A i \in DOMAIN candidates : Row(candidates[i]) /\ Seen(candidates[i])
  BY DEF TableSound, RowsSound
<1>2. Reconciled(rows, found, candidates, run.captured, run.fresh)
  BY <1>1, Reconciles DEF Opened
<1>3. /\ IsSeq(rows) /\ DOMAIN candidates \subseteq DOMAIN rows /\ IdsApart(rows)
      /\ \A i \in DOMAIN candidates :
            Continues(rows[i], candidates[i], found, run.captured, run.fresh)
      /\ \A i \in (DOMAIN rows) \ (DOMAIN candidates) :
            \E k \in DOMAIN found : \E id : rows[i] = Renamed(found[k], id)
  BY <1>2 DEF Reconciled
<1>4. ASSUME NEW i \in DOMAIN candidates
      PROVE  /\ Row(rows[i]) /\ Seen(rows[i]) /\ Follows(rows[i], candidates[i])
             /\ rows[i].dismissed = candidates[i].dismissed
             /\ \/ candidates[i].dismissed = D!Fingerprint(rows[i]) => rows[i].status = "resolved"
                \/ D!Fingerprint(rows[i]) = D!Fingerprint(candidates[i])
                   /\ (candidates[i].status = "resolved" => rows[i].status = "resolved")
  <2>1. Row(candidates[i]) /\ Seen(candidates[i])
    BY <1>1
  <2>2. Continues(rows[i], candidates[i], found, run.captured, run.fresh)
    BY <1>3
  <2> QED
    BY <2>1, <2>2, ContinuesSound DEF Opened
<1>5. ASSUME NEW i \in (DOMAIN rows) \ (DOMAIN candidates) PROVE Row(rows[i]) /\ Seen(rows[i])
  <2>1. PICK k \in DOMAIN found : \E x : rows[i] = Renamed(found[k], x)
    BY <1>3
  <2>6. PICK id : rows[i] = Renamed(found[k], id)
    BY <2>1
  <2>2. PICK c : c = found[k] /\ Row(c) /\ Seen(c)
    BY DEF Opened
  <2>3. rows[i] = Renamed(c, id)
    BY <2>6, <2>2
  <2>4. PICK r : r = rows[i] /\ Row(r) /\ r.members = c.members /\ r.prints = c.prints
    BY <2>3 DEF Renamed, Row
  <2> QED
    BY <2>2, <2>4 DEF Seen
<1>6. RowsSound(rows)
  BY <1>3, <1>4, <1>5 DEF RowsSound
<1>7. ASSUME NEW i \in DOMAIN rows, rows[i].id \in DOMAIN dismissals, dismissals[rows[i].id].alone
      PROVE  /\ rows[i].dismissed = dismissals[rows[i].id].of
             /\ dismissals[rows[i].id].of = D!Fingerprint(rows[i]) => rows[i].status = "resolved"
  <2>1. PICK j \in DOMAIN candidates : candidates[j].id = rows[i].id
    BY <1>7 DEF TableSound, D!Ids
  <2>2. rows[j].id = candidates[j].id
    BY <1>4 DEF Follows
  <2>3. i = j
    BY <1>3, <2>1, <2>2 DEF IdsApart
  <2>4. /\ candidates[i].dismissed = dismissals[rows[i].id].of
        /\ dismissals[rows[i].id].of = D!Fingerprint(candidates[i]) => candidates[i].status = "resolved"
    BY <1>7, <2>1, <2>3 DEF TableSound, DismissalsKnown
  <2> QED
    BY <1>4, <2>3, <2>4
<1> QED
  BY <1>3, <1>4, <1>6, <1>7 DEF DismissalsKnown

LEMMA CandidateBegins == D!Init => CandidateInv
<1> SUFFICES ASSUME D!Init PROVE CandidateInv
  OBVIOUS
<1>1. PICK first \in First : site = [m \in D!Index |-> [edit |-> 1, is |-> first[m]]]
  BY DEF D!Init
<1>2. /\ stored = <<>> /\ candidates = <<>> /\ dismissals = <<>> /\ changes = 0
      /\ run = [at |-> "idle", captured |-> <<>>, fresh |-> {}, rows |-> <<>>]
  BY DEF D!Init, D!Idle
<1>3. IsSeq(<<>>) /\ DOMAIN <<>> = {}
  BY EmptySeq DEF IsSeq
<1>4. SiteSound
  BY <1>1, <1>2, <1>3 DEF SiteSound
<1>5. TableSound
  BY <1>2, <1>3 DEF TableSound, RowsSound, IdsApart, DismissalsKnown
<1>6. RunSound /\ RowsFollow
  BY <1>2 DEF RunSound, RowsFollow
<1> QED
  BY <1>4, <1>5, <1>6 DEF CandidateInv

\* The table is read and the posts edited without touching what is sound.
LEMMA TableKept ==
  ASSUME TableSound, SiteSound, candidates' = candidates, dismissals' = dismissals,
         \A m \in D!Index : site'[m].edit \in Nat /\ site'[m].edit >= site[m].edit
  PROVE  TableSound'
<1>1. ASSUME NEW c, Seen(c) PROVE Seen(c)'
  BY <1>1 DEF Seen, SiteSound, D!Index
<1>2. RowsSound(candidates)'
  <2>1. PICK rows : rows = candidates /\ rows = candidates'
    OBVIOUS
  <2>2. \A i \in DOMAIN rows : Row(rows[i]) /\ Seen(rows[i])'
    BY <1>1, <2>1 DEF TableSound, RowsSound
  <2> QED
    BY <2>1, <2>2 DEF TableSound, RowsSound, Seen
<1>3. DismissalsKnown(candidates)'
  BY DEF TableSound, DismissalsKnown
<1> QED
  BY <1>2, <1>3 DEF TableSound

LEMMA CandidateSyncs ==
  ASSUME CandidateInv, NEW k \in {1, Posts + 1 - Window}, NEW last \in {k - 1, k, Posts},
         D!Sync(k, last)
  PROVE  CandidateInv'
<1> USE DEF CandidateInv
<1>1. Posts \in Nat /\ k \in 1..Posts /\ k..last \subseteq D!Index /\ k..Posts \subseteq D!Index
  BY DiscoveryAssumption DEF D!Index
<1>2. PICK st, cap :
        /\ st = [m \in DOMAIN stored \cup (k..last) |-> IF m \in k..last THEN site[m] ELSE stored[m]]
        /\ cap = [m \in DOMAIN st \cup (k..Posts) |-> IF m >= k THEN site[m] ELSE st[m]]
  OBVIOUS
<1>3. /\ stored' = st /\ UNCHANGED <<site, config, candidates, dismissals, changes>>
      /\ run' = [at |-> "synced", captured |-> cap, fresh |-> k..Posts, rows |-> <<>>]
  <2>1. stored' = st /\ UNCHANGED <<site, config, candidates, dismissals, changes>>
    BY <1>2 DEF D!Sync
  <2>2. run' = [D!Idle EXCEPT !.at = "synced", !.fresh = k..Posts,
                  !.captured = [m \in DOMAIN stored' \cup (k..Posts) |->
                                  IF m >= k THEN site[m] ELSE stored'[m]]]
    BY Zenon DEF D!Sync
  <2>3. cap = [m \in DOMAIN stored' \cup (k..Posts) |-> IF m >= k THEN site[m] ELSE stored'[m]]
    BY <1>2, <2>1
  <2>4. run' = [D!Idle EXCEPT !.at = "synced", !.fresh = k..Posts, !.captured = cap]
    BY <2>2, <2>3
  <2> QED
    BY <2>1, <2>4 DEF D!Idle
<1>4. /\ DOMAIN st \subseteq D!Index
      /\ \A m \in DOMAIN st : st[m].edit \in Nat /\ st[m].edit <= site[m].edit
  BY <1>1, <1>2 DEF SiteSound
<1>5. SiteSound'
  BY <1>3, <1>4 DEF SiteSound
<1>6. TableSound'
  BY <1>3, TableKept DEF SiteSound
<1>7. DOMAIN cap \subseteq D!Index /\ \A m \in DOMAIN cap :
        /\ cap[m].edit \in Nat /\ cap[m].edit <= site[m].edit
        /\ m \in k..Posts => cap[m] = site[m]
  BY <1>1, <1>2, <1>4 DEF SiteSound, D!Index
<1>8. RunSound' /\ RowsFollow'
  BY <1>3, <1>7 DEF RunSound, RowsFollow
<1> QED
  BY <1>5, <1>6, <1>8

LEMMA CandidateJudges == ASSUME CandidateInv, D!Judge PROVE CandidateInv'
<1> USE DEF CandidateInv
<1>1. run.at = "synced" /\ UNCHANGED <<site, stored, config, candidates, dismissals, changes>>
  BY DEF D!Judge
<1>2. PICK groups, found, rows :
        /\ groups = D!Groups(config, run.captured)
        /\ found = Found(groups)
        /\ rows = D!Reconcile(found, candidates, run.captured, run.fresh)
        /\ run' = [run EXCEPT !.at = "judged", !.rows = rows]
  BY Zenon DEF D!Judge, Found
<1>3. Grouping(groups, run.captured)
  BY <1>2, GroupsCaptured
<1>4. IsSeq(found) /\ \A k \in DOMAIN found : Opened(found[k])
  BY <1>1, <1>2, <1>3, DetectedSound
<1>5. /\ RowsSound(rows) /\ DismissalsKnown(rows) /\ DOMAIN candidates \subseteq DOMAIN rows
      /\ \A i \in DOMAIN candidates : Follows(rows[i], candidates[i])
  BY <1>1, <1>2, <1>4, JudgedSound
<1>6. run' = [at |-> "judged", captured |-> run.captured, fresh |-> run.fresh, rows |-> rows]
  <2>1. PICK a, b, c, d : run = [at |-> a, captured |-> b, fresh |-> c, rows |-> d]
    BY DEF RunSound
  <2> QED
    BY <1>2, <2>1
<1>7. SiteSound' /\ TableSound'
  BY <1>1, TableKept DEF SiteSound
<1>8. RunSound'
  BY <1>1, <1>6 DEF RunSound
<1>9. RowsFollow'
  <2>1. run'.rows = rows /\ run'.at = "judged" /\ run'.captured = run.captured
    BY <1>6
  <2>2. RowsSound(run.rows)'
    BY <1>1, <1>5, <2>1 DEF RowsSound, Seen
  <2>3. DismissalsKnown(run.rows)'
    BY <1>1, <1>5, <2>1 DEF DismissalsKnown
  <2>4. ASSUME NEW i \in DOMAIN candidates PROVE Follows(run.rows[i], candidates[i])'
    BY <1>1, <1>5, <2>1 DEF Follows, Observed
  <2> QED
    BY <1>1, <1>5, <2>1, <2>2, <2>3, <2>4 DEF RowsFollow
<1> QED
  BY <1>7, <1>8, <1>9

LEMMA CandidateSaves == ASSUME CandidateInv, D!Save PROVE CandidateInv'
<1> USE DEF CandidateInv
<1>1. /\ run.at = "judged" /\ candidates' = run.rows
      /\ UNCHANGED <<site, stored, config, dismissals, changes>>
      /\ run' = [at |-> "idle", captured |-> <<>>, fresh |-> {}, rows |-> <<>>]
  BY DEF D!Save, D!Idle
<1>2. /\ RowsSound(run.rows) /\ DismissalsKnown(run.rows)
      /\ DOMAIN candidates \subseteq DOMAIN run.rows
      /\ \A i \in DOMAIN candidates : Follows(run.rows[i], candidates[i])
  BY <1>1 DEF RowsFollow
<1>3. DOMAIN dismissals \subseteq D!Ids(run.rows)
  BY <1>2 DEF TableSound, D!Ids, Follows
<1>4. TableSound'
  <2>1. RowsSound(candidates)' /\ DismissalsKnown(candidates)'
    BY <1>1, <1>2 DEF RowsSound, Seen, DismissalsKnown
  <2> QED
    BY <1>1, <1>3, <2>1 DEF TableSound
<1>5. SiteSound' /\ RunSound' /\ RowsFollow'
  BY <1>1 DEF SiteSound, RunSound, RowsFollow
<1> QED
  BY <1>4, <1>5

LEMMA CandidateGivesUp == ASSUME CandidateInv, D!GiveUp PROVE CandidateInv'
<1> USE DEF CandidateInv
<1>1. /\ UNCHANGED <<site, stored, config, candidates, dismissals, changes>>
      /\ run' = [at |-> "idle", captured |-> <<>>, fresh |-> {}, rows |-> <<>>]
  BY DEF D!GiveUp, D!Idle
<1>2. SiteSound' /\ RunSound' /\ RowsFollow'
  BY <1>1 DEF SiteSound, RunSound, RowsFollow
<1> QED
  BY <1>1, <1>2, TableKept DEF SiteSound

\* What a dismissal makes of one candidate.
Closed(c) == [c EXCEPT !.status = "resolved", !.dismissed = D!Fingerprint(c)]

LEMMA DismissedRow ==
  ASSUME NEW c, Row(c), NEW new, new = Closed(c)
  PROVE  /\ Row(new) /\ new.id = c.id /\ new.members = c.members /\ new.prints = c.prints
         /\ new.status = "resolved" /\ new.dismissed = D!Fingerprint(c)
         /\ D!Fingerprint(new) = D!Fingerprint(c)
<1>0. PICK f : f = D!Fingerprint(c)
  OBVIOUS
<1>1. PICK a, b, d, e, g, h, j, k :
        c = [id |-> a, family |-> b, first |-> d, members |-> e,
             evidence |-> g, prints |-> h, status |-> j, dismissed |-> k]
  BY DEF Row
<1>2. new = [id |-> a, family |-> b, first |-> d, members |-> e,
             evidence |-> g, prints |-> h, status |-> "resolved", dismissed |-> f]
  <2>1. new = [c EXCEPT !.status = "resolved", !.dismissed = f]
    BY <1>0, Zenon DEF Closed
  <2> QED
    BY <1>1, <2>1
<1>3. /\ Row(new) /\ new.id = c.id /\ new.members = c.members /\ new.prints = c.prints
      /\ new.evidence = c.evidence /\ new.status = "resolved" /\ new.dismissed = f
  BY <1>1, <1>2 DEF Row
<1> QED
  BY <1>0, <1>3, SamePrint

LEMMA CandidateDismisses ==
  ASSUME CandidateInv, NEW i \in DOMAIN candidates, D!Dismiss(i)
  PROVE  CandidateInv'
<1> USE DEF CandidateInv
<1>1. RowsSound(candidates) /\ Row(candidates[i])
  BY DEF TableSound, RowsSound
<1>2. PICK c, f, new, d :
        /\ c = candidates[i] /\ f = D!Fingerprint(c) /\ new = Closed(c)
        /\ d.of = f /\ (d.alone <=> run.at # "judged")
        /\ candidates' = [candidates EXCEPT ![i] = new]
        /\ dismissals' = [id \in DOMAIN dismissals \cup {c.id} |-> IF id = c.id THEN d ELSE dismissals[id]]
  <2> DEFINE c0 == candidates[i]
             f0 == D!Fingerprint(c0)
             d0 == [of |-> f0, alone |-> run.at # "judged"]
  <2>1. candidates' = [candidates EXCEPT ![i] = Closed(c0)]
    BY Zenon DEF D!Dismiss, Closed
  <2>2. dismissals' = [id \in DOMAIN dismissals \cup {c0.id} |-> IF id = c0.id THEN d0 ELSE dismissals[id]]
    BY Zenon DEF D!Dismiss
  <2>3. d0.of = f0 /\ (d0.alone <=> run.at # "judged")
    BY Zenon
  <2> WITNESS c0, f0, Closed(c0), d0
  <2> HIDE DEF d0, f0, c0
  <2> QED
    BY <2>1, <2>2, <2>3, Zenon DEF f0, c0
<1>3. UNCHANGED <<site, stored, config, run, changes>>
  BY DEF D!Dismiss
<1>4. /\ Row(new) /\ new.id = c.id /\ new.members = c.members /\ new.prints = c.prints
      /\ new.status = "resolved" /\ new.dismissed = f /\ D!Fingerprint(new) = f
  BY <1>1, <1>2, DismissedRow
<1>5. PICK rows : /\ rows = candidates' /\ IsSeq(rows) /\ DOMAIN rows = DOMAIN candidates
                  /\ rows[i] = new /\ \A j \in DOMAIN candidates : j # i => rows[j] = candidates[j]
  BY <1>1, <1>2, SeqUpdate DEF RowsSound
<1>6. \A j \in DOMAIN rows : rows[j].id = candidates[j].id
  BY <1>2, <1>4, <1>5
<1>7. RowsSound(rows)
  <2>1. IdsApart(rows)
    BY <1>1, <1>5, <1>6 DEF RowsSound, IdsApart
  <2>2. Seen(new)
    BY <1>1, <1>2, <1>4 DEF RowsSound, Seen
  <2> QED
    BY <1>1, <1>4, <1>5, <2>1, <2>2 DEF RowsSound
<1>8. c.id \in DOMAIN dismissals' /\ dismissals'[c.id] = d
      /\ \A id : id # c.id => /\ id \in DOMAIN dismissals' <=> id \in DOMAIN dismissals
                              /\ id \in DOMAIN dismissals => dismissals'[id] = dismissals[id]
  BY <1>2
<1>9. TableSound'
  <2>1. RowsSound(candidates)'
    BY <1>3, <1>5, <1>7 DEF RowsSound, Seen
  <2>2. ASSUME NEW j \in DOMAIN rows, rows[j].id \in DOMAIN dismissals', dismissals'[rows[j].id].alone
        PROVE  /\ rows[j].dismissed = dismissals'[rows[j].id].of
               /\ dismissals'[rows[j].id].of = D!Fingerprint(rows[j]) => rows[j].status = "resolved"
    <3>1. CASE j = i
      BY <1>2, <1>4, <1>5, <1>8, <3>1
    <3>2. CASE j # i
      <4>1. rows[j] = candidates[j] /\ rows[j].id # c.id
        BY <1>1, <1>2, <1>5, <3>2 DEF RowsSound, IdsApart
      <4>2. rows[j].id \in DOMAIN dismissals /\ dismissals'[rows[j].id] = dismissals[rows[j].id]
        BY <1>8, <2>2, <4>1
      <4> QED
        BY <1>5, <2>2, <4>1, <4>2 DEF TableSound, DismissalsKnown
    <3> QED
      BY <3>1, <3>2
  <2>3. DismissalsKnown(candidates)'
    BY <1>5, <2>2 DEF DismissalsKnown
  <2>4. DOMAIN dismissals' \subseteq D!Ids(rows)
    BY <1>1, <1>2, <1>5, <1>6, <1>8 DEF TableSound, D!Ids
  <2> QED
    BY <1>5, <2>1, <2>3, <2>4 DEF TableSound
<1>10. SiteSound' /\ RunSound'
  BY <1>3 DEF SiteSound, RunSound
<1>11. RowsFollow'
  <2>1. CASE run.at # "judged"
    BY <1>3, <2>1 DEF RowsFollow
  <2>2. CASE run.at = "judged"
    <3>1. /\ RowsSound(run.rows) /\ DismissalsKnown(run.rows)
          /\ DOMAIN candidates \subseteq DOMAIN run.rows
          /\ \A j \in DOMAIN candidates : Follows(run.rows[j], candidates[j])
      BY <2>2 DEF RowsFollow
    <3>2. RowsSound(run.rows)'
      BY <1>3, <3>1 DEF RowsSound, Seen
    <3>3. DismissalsKnown(run.rows)'
      BY <1>2, <1>3, <1>8, <2>2, <3>1 DEF DismissalsKnown
    <3>4. ASSUME NEW j \in DOMAIN rows PROVE Follows(run.rows[j], rows[j])'
      BY <1>2, <1>3, <1>4, <1>5, <3>1 DEF Follows, Observed
    <3> QED
      BY <1>3, <1>5, <2>2, <3>1, <3>2, <3>3, <3>4 DEF RowsFollow
  <2> QED
    BY <2>1, <2>2
<1> QED
  BY <1>9, <1>10, <1>11

LEMMA CandidateEdits ==
  ASSUME CandidateInv, NEW p \in D!Index, NEW v, D!Edit(p, v)
  PROVE  CandidateInv'
<1> USE DEF CandidateInv
<1>1. /\ run.at = "idle" /\ changes' = changes + 1
      /\ UNCHANGED <<stored, config, candidates, run, dismissals>>
      /\ site' = [site EXCEPT ![p] = [edit |-> changes + 2, is |-> v]]
  BY DEF D!Edit
<1>2. /\ DOMAIN site' = D!Index
      /\ \A m \in D!Index : /\ site'[m].edit \in Nat /\ site'[m].edit >= site[m].edit
                            /\ site'[m].edit <= changes + 2
  <2>0. PICK n : n = changes + 2
    OBVIOUS
  <2>4. PICK e : e = [edit |-> n, is |-> v]
    OBVIOUS
  <2>1. e = [edit |-> n, is |-> v] /\ e.edit = n
    BY <2>4
  <2>2. site' = [site EXCEPT ![p] = e] /\ DOMAIN site = D!Index
    BY <1>1, <2>0, <2>1 DEF SiteSound
  <2>3. \A m \in D!Index : site'[m] = IF m = p THEN e ELSE site[m]
    BY <2>2
  <2> QED
    BY <2>0, <2>1, <2>2, <2>3 DEF SiteSound
<1>3. SiteSound'
  BY <1>1, <1>2 DEF SiteSound
<1>4. TableSound'
  BY <1>1, <1>2, TableKept
<1>5. RunSound' /\ RowsFollow'
  BY <1>1 DEF RunSound, RowsFollow
<1> QED
  BY <1>3, <1>4, <1>5

LEMMA CandidateRests ==
  ASSUME CandidateInv, UNCHANGED <<site, stored, candidates, run, dismissals>>,
         changes' \in {changes, changes + 1}
  PROVE  CandidateInv'
<1> USE DEF CandidateInv
<1>1. SiteSound'
  BY DEF SiteSound
<1>2. TableSound'
  BY TableKept DEF SiteSound
<1>3. RunSound'
  BY DEF RunSound
<1>4. RowsFollow'
  <2>1. PICK rows, old : rows = run.rows /\ rows = run'.rows /\ old = candidates /\ old = candidates'
    OBVIOUS
  <2>2. CASE run.at = "judged"
    <3>1. RowsSound(rows) /\ DismissalsKnown(rows) /\ DOMAIN old \subseteq DOMAIN rows
          /\ \A j \in DOMAIN old : Follows(rows[j], old[j])
      BY <2>1, <2>2 DEF RowsFollow
    <3>2. RowsSound(run.rows)'
      BY <2>1, <3>1 DEF RowsSound, Seen
    <3>3. DismissalsKnown(run.rows)'
      BY <2>1, <3>1 DEF DismissalsKnown
    <3>4. \A j \in DOMAIN old : Follows(rows[j], old[j])'
      BY <3>1 DEF Follows, Observed
    <3> QED
      BY <2>1, <2>2, <3>1, <3>2, <3>3, <3>4 DEF RowsFollow
  <2>3. CASE run.at # "judged"
    BY <2>3 DEF RowsFollow
  <2> QED
    BY <2>2, <2>3
<1> QED
  BY <1>1, <1>2, <1>3, <1>4

LEMMA CandidateStays == CandidateInv /\ [D!Next]_(D!vars) => CandidateInv'
<1> SUFFICES ASSUME CandidateInv, [D!Next]_(D!vars) PROVE CandidateInv'
  OBVIOUS
<1>1. ASSUME NEW k \in {1, Posts + 1 - Window}, NEW last \in {k - 1, k, Posts}, D!Sync(k, last)
      PROVE  CandidateInv'
  BY <1>1, CandidateSyncs
<1>2. CASE D!Judge
  BY <1>2, CandidateJudges
<1>3. CASE D!Save
  BY <1>3, CandidateSaves
<1>4. CASE D!GiveUp
  BY <1>4, CandidateGivesUp
<1>5. ASSUME NEW i \in DOMAIN candidates, D!Dismiss(i) PROVE CandidateInv'
  BY <1>5, CandidateDismisses
<1>6. ASSUME NEW m \in D!Index, NEW v \in Version, D!Edit(m, v) PROVE CandidateInv'
  BY <1>6, CandidateEdits
<1>7. ASSUME NEW cfg \in Config, D!Configure(cfg) PROVE CandidateInv'
  BY <1>7, CandidateRests DEF D!Configure
<1>8. CASE UNCHANGED D!vars
  BY <1>8, CandidateRests DEF D!vars
<1> QED
  BY <1>1, <1>2, <1>3, <1>4, <1>5, <1>6, <1>7, <1>8, Zenon DEF D!Next

LEMMA CandidatesAreSound == D!Spec => []CandidateInv
<1>1. D!Init => CandidateInv
  BY CandidateBegins
<1>2. CandidateInv /\ [D!Next]_(D!vars) => CandidateInv'
  BY CandidateStays
<1> QED
  BY <1>1, <1>2, PTL DEF D!Spec

LEMMA RowsCounted ==
  ASSUME NEW rows, IsSeq(rows), IdsApart(rows)
  PROVE  Cardinality(D!Ids(rows)) = Len(rows)
<1>1. DOMAIN rows = 1..Len(rows) /\ Len(rows) \in Nat
  BY SeqDomain
<1> DEFINE ids == [i \in 1..Len(rows) |-> rows[i].id]
<1>2. ids \in Bijection(1..Len(rows), D!Ids(rows))
  <2>1. D!Ids(rows) = {ids[i] : i \in 1..Len(rows)}
    BY <1>1 DEF D!Ids
  <2>2. ids \in [1..Len(rows) -> D!Ids(rows)]
    BY <2>1
  <2>3. ids \in Surjection(1..Len(rows), D!Ids(rows))
    BY <2>1, <2>2 DEF Surjection
  <2>4. \A i, j \in 1..Len(rows) : ids[i] = ids[j] => i = j
    BY <1>1 DEF IdsApart
  <2> HIDE DEF ids
  <2>5. ids \in Injection(1..Len(rows), D!Ids(rows))
    BY <2>2, <2>4 DEF Injection, IsInjective
  <2> QED
    BY <2>3, <2>5 DEF Bijection
<1> HIDE DEF ids
<1> QED
  BY <1>1, <1>2, FS_CountingElements DEF ExistsBijection

\* No two candidates of a run share an identity, and a candidate whose
\* evidence is what an operator has dismissed between two runs stays closed,
\* however the posts, the captures and the configurations change
\* (MCAuthoring!DismissalKept: reconcile and SetDiscoveryCandidateStatus).
THEOREM DismissalsAreKept == D!Spec => []DismissalKept
<1>1. ASSUME CandidateInv PROVE DismissalKept
  <2>1. TableSound /\ RowsFollow /\ RunSound
    BY <1>1 DEF CandidateInv
  <2>2. D!DismissalKept
    BY <2>1 DEF TableSound, DismissalsKnown, D!DismissalKept
  <2>3. Cardinality(D!Ids(run.rows)) = Len(run.rows)
    <3>1. IsSeq(run.rows) /\ IdsApart(run.rows)
      <4>1. IsSeq(<<>>) /\ IdsApart(<<>>)
        BY EmptySeq DEF IsSeq, IdsApart
      <4> QED
        BY <2>1, <4>1 DEF RowsFollow, RowsSound
    <3> QED
      BY <3>1, RowsCounted
  <2>4. D!IdsUnique
    BY <2>3 DEF D!IdsUnique, D!Cardinality, Cardinality
  <2> QED
    BY <2>2, <2>4 DEF DismissalKept
<1> QED
  BY <1>1, CandidatesAreSound, PTL

\* The candidate of an identity is the one row that has it.
LEMMA OfRow ==
  ASSUME NEW rows, IdsApart(rows), NEW i \in DOMAIN rows, NEW id, id = rows[i].id
  PROVE  D!Of(rows, id) = rows[i]
<1>1. D!ToSet(rows) = {rows[j] : j \in DOMAIN rows}
  BY DEF D!ToSet
<1>2. \A c \in D!ToSet(rows) : c.id = id => c = rows[i]
  BY <1>1 DEF IdsApart
<1>3. rows[i] \in D!ToSet(rows) /\ rows[i].id = id
  BY <1>1
<1> QED
  BY <1>2, <1>3 DEF D!Of

\* No post leaves an open candidate, none of its evidence goes back to an
\* earlier version of a post and the candidate is not resolved, but because
\* of a version of the post that is as new, or the very one the evidence was
\* seen in (MCAuthoring!EvidenceKept: reconcile and mergeEvidence).
THEOREM EvidenceIsKept == D!Spec => EvidenceKept
<1> DEFINE Keeps ==
        \A i \in DOMAIN candidates : \A m \in DOMAIN candidates[i].prints :
          LET old == candidates[i] new == D!Of(candidates', old.id)
          IN /\ old.status # "resolved"
             /\ \/ m \notin DOMAIN new.prints
                \/ new.prints[m].edit < old.prints[m].edit
                \/ new.status = "resolved" /\ new.dismissed # D!Fingerprint(new)
             => /\ m \in DOMAIN run.captured
                /\ \/ run.captured[m].edit >= old.prints[m].edit
                   \/ run.captured[m].is = old.prints[m].capture
<1>1. ASSUME CandidateInv, D!Save PROVE Keeps
  <2>1. /\ run.at = "judged" /\ candidates' = run.rows /\ IdsApart(run.rows)
        /\ \A i \in DOMAIN candidates : i \in DOMAIN run.rows /\ Follows(run.rows[i], candidates[i])
    BY <1>1 DEF D!Save, CandidateInv, RowsFollow, RowsSound
  <2>2. ASSUME NEW i \in DOMAIN candidates
        PROVE  D!Of(candidates', candidates[i].id) = run.rows[i]
    <3>1. candidates[i].id = run.rows[i].id /\ i \in DOMAIN run.rows
      BY <2>1 DEF Follows
    <3> QED
      BY <2>1, <3>1, OfRow
  <2> QED
    BY <2>1, <2>2 DEF Follows, Observed
<1>2. ASSUME CandidateInv, NEW i \in DOMAIN candidates, D!Dismiss(i) PROVE Keeps
  <2>1. CandidateInv'
    BY <1>2, CandidateDismisses
  <2>2. RowsSound(candidates) /\ RowsSound(candidates)' /\ Row(candidates[i])
    BY <1>2, <2>1 DEF CandidateInv, TableSound, RowsSound
  <2>3. PICK new : new = Closed(candidates[i]) /\ candidates' = [candidates EXCEPT ![i] = new]
    BY <1>2, Zenon DEF D!Dismiss, Closed
  <2>4. /\ new.id = candidates[i].id /\ new.prints = candidates[i].prints
        /\ new.dismissed = D!Fingerprint(new)
    BY <2>2, <2>3, DismissedRow
  <2>5. PICK rows : /\ rows = candidates' /\ DOMAIN rows = DOMAIN candidates /\ IdsApart(rows)
                    /\ rows[i] = new /\ \A j \in DOMAIN candidates : j # i => rows[j] = candidates[j]
    <3>1. IdsApart(candidates')
      BY <2>2 DEF RowsSound
    <3> QED
      BY <2>3, <3>1
  <2>6. ASSUME NEW j \in DOMAIN candidates PROVE D!Of(rows, candidates[j].id) = rows[j]
    <3>1. rows[j].id = candidates[j].id
      BY <2>4, <2>5
    <3> QED
      BY <2>5, <3>1, OfRow
  <2>7. ASSUME NEW j \in DOMAIN candidates, NEW m \in DOMAIN candidates[j].prints
        PROVE  /\ m \in DOMAIN rows[j].prints
               /\ ~(rows[j].prints[m].edit < candidates[j].prints[m].edit)
               /\ candidates[j].status # "resolved" /\ rows[j].status = "resolved"
                    => rows[j].dismissed = D!Fingerprint(rows[j])
    <3>1. rows[j].prints = candidates[j].prints
      BY <2>4, <2>5
    <3>2. candidates[j].prints[m].edit \in Nat
      BY <2>2 DEF RowsSound, Seen
    <3> QED
      BY <2>4, <2>5, <3>1, <3>2
  <2> QED
    BY <2>5, <2>6, <2>7
<1>3. CandidateInv /\ [D!Next]_(D!vars) => [Keeps]_candidates
  <2> HIDE DEF Keeps
  <2> SUFFICES ASSUME CandidateInv, [D!Next]_(D!vars), candidates' # candidates PROVE Keeps
    OBVIOUS
  <2>1. D!Save \/ \E i \in DOMAIN candidates : D!Dismiss(i)
    BY DEF D!Next, D!vars, D!Sync, D!Judge, D!GiveUp, D!Edit, D!Configure
  <2> QED
    BY <1>1, <1>2, <2>1
<1> QED
  BY <1>3, CandidateBegins, CandidateStays, PTL DEF D!Spec, EvidenceKept, D!EvidenceKept

-----------------------------------------------------------------------------
(*----------------- positions and the reader's index ----------------------*)
\* A function defined by recursion on 0..n exists.
Stepping(n, S, next) == \A k \in 1..n, v \in S : next[<<k, v>>] \in S
Reaches(f, n, S, first, next) ==
    f \in [0..n -> S] /\ f[0] = first /\ \A k \in 1..n : f[k] = next[<<k, f[k - 1]>>]

LEMMA Recursion ==
  ASSUME NEW n \in Nat, NEW S, NEW first \in S, NEW next, Stepping(n, S, next)
  PROVE  \E f : Reaches(f, n, S, first, next)
<1> DEFINE Fits(f, m) == Reaches(f, m, S, first, next)
           T == {m \in 0..n : \E f : Fits(f, m)}
<1>1. 0 \in T
  <2>1. Fits([k \in 0..0 |-> first], 0)
    BY DEF Reaches
  <2> HIDE DEF Fits
  <2> QED
    BY <2>1
<1>2. ASSUME NEW m \in 1..n, m - 1 \in T PROVE m \in T
  <2>1. PICK f : Fits(f, m - 1)
    BY <1>2
  <2> DEFINE v == next[<<m, f[m - 1]>>]
             g == [k \in 0..m |-> IF k = m THEN v ELSE f[k]]
  <2>2. /\ m \in Nat /\ m # 0 /\ m - 1 \in 0..(m - 1) /\ f \in [0..(m - 1) -> S] /\ f[0] = first
        /\ \A k \in 1..(m - 1) : f[k] = next[<<k, f[k - 1]>>]
    BY <2>1 DEF Reaches
  <2>3. v \in S
    BY <2>2 DEF Stepping
  <2>4. /\ g \in [0..m -> S] /\ g[m] = v /\ \A k \in 0..(m - 1) : g[k] = f[k]
    <3> HIDE DEF v
    <3> QED
      BY <2>2, <2>3
  <2> HIDE DEF g
  <2>5. ASSUME NEW k \in 1..m PROVE g[k] = next[<<k, g[k - 1]>>]
    <3>1. CASE k = m
      BY <2>2, <2>4, <3>1
    <3>2. CASE k # m
      <4>1. k \in 1..(m - 1) /\ k - 1 \in 0..(m - 1) /\ k \in 0..(m - 1)
        BY <2>2, <3>2
      <4> HIDE DEF v
      <4> QED
        BY <2>2, <2>4, <4>1
    <3> QED
      BY <3>1, <3>2
  <2>6. g[0] = first
    BY <2>2, <2>4
  <2>7. Fits(g, m)
    BY <2>4, <2>5, <2>6 DEF Reaches
  <2> QED
    BY <2>2, <2>7
<1>3. n \in T
  <2> HIDE DEF T
  <2>1. \A m \in 0..n : m \in T
    BY <1>1, <1>2, Climb
  <2> QED
    BY <2>1
<1> QED
  BY <1>3

(* What is found in a title, and the coordinates made of it.               *)
LEMMA MergeTyped ==
  ASSUME NEW info \in Text, NEW t \in Text
  PROVE  Merge(info, t) \in Text
<1> DEFINE book == IF info.book = 0 THEN t.book ELSE info.book
           taken == ~HasChapter(info) /\ info.part = 0 /\ (HasChapter(t) \/ t.part # 0)
<1>1. PICK base \in Text : base = [(IF taken THEN t ELSE info) EXCEPT !.book = book]
  <2>1. \A x \in Text, n \in Nat : [x EXCEPT !.book = n] \in Text
    BY DEF Text
  <2>2. book \in Nat /\ (IF taken THEN t ELSE info) \in Text
    BY DEF Text
  <2> HIDE DEF book, taken
  <2> QED
    BY <2>1, <2>2
<1>2. \A x \in Text, n \in Nat : [x EXCEPT !.part = n] \in Text
  BY DEF Text
<1>3. (IF base.part = 0 THEN t.part ELSE base.part) \in Nat
  BY DEF Text
<1>4. Merge(info, t) = [base EXCEPT !.part = IF base.part = 0 THEN t.part ELSE base.part]
  BY <1>1 DEF Merge
<1> QED
  BY <1>2, <1>3, <1>4

LEMMA DetectTyped ==
  ASSUME NEW r, r.title \in Text, r.file \in Text
  PROVE  Detect(r) \in Text
<1>1. Plain \in Text
  BY DEF Plain, Text
<1>2. PICK found \in Text : found = Merge(Merge(Plain, r.title), r.file)
  BY <1>1, MergeTyped
<1>3. Detect(r) = [found EXCEPT !.marker = r.title.marker, !.marked = r.title.marked,
                                !.plural = r.title.plural]
  BY <1>2 DEF Detect
<1>4. \A x \in Text, m, n \in Nat : [x EXCEPT !.marker = m, !.marked = n] \in Text
  BY DEF Text
<1>5. \A x \in Text, n \in Nat : [x EXCEPT !.plural = n] \in Text
  BY DEF Text
<1>6. r.title.marker \in Nat /\ r.title.marked \in Nat /\ r.title.plural \in Nat
  BY DEF Text
<1> DEFINE marked == [found EXCEPT !.marker = r.title.marker, !.marked = r.title.marked]
<1>7. marked \in Text /\ Detect(r) = [marked EXCEPT !.plural = r.title.plural]
  BY <1>3, <1>4, <1>6
<1> HIDE DEF marked
<1> QED
  BY <1>5, <1>6, <1>7

\* A half chapter is one of a chapter.
Placed(c) ==
    /\ c \in [book : Nat, chapter : Nat, half : BOOLEAN, dotted : BOOLEAN, part : Nat, fraction : Nat]
    /\ c.half => c.chapter > 0 /\ ~c.dotted

LEMMA CoordinatesPlaced ==
  ASSUME NEW r, r.title \in Text, r.file \in Text
  PROVE  Placed(Coordinates(r))
<1> DEFINE C(d, b, c, half, dotted) ==
             [book |-> b, chapter |-> c, half |-> half, dotted |-> dotted,
              part |-> d.part, fraction |-> IF half THEN d.fraction ELSE 0]
           book(d) == IF d.book = 0 THEN d.marker ELSE d.book
           chapter(d) == IF d.book = 0 /\ d.chapter = 0 THEN d.marked ELSE d.chapter
<1>1. PICK d \in Text : d = Detect(r)
  BY DetectTyped
<1>2. /\ d.book \in Nat /\ d.chapter \in Nat /\ d.whole \in Nat /\ d.fraction \in Nat
      /\ d.part \in Nat /\ d.plural \in Nat /\ d.marker \in Nat /\ d.marked \in Nat
  BY DEF Text
<1>3. PICK b \in Nat, m \in Nat : b = book(d) /\ m = chapter(d)
  BY <1>2
<1>4. Coordinates(r) =
        IF m > 0 THEN C(d, b, m, FALSE, FALSE)
        ELSE IF d.label = "none" /\ d.plural > 0 THEN C(d, b, d.plural, FALSE, FALSE)
        ELSE IF d.label = "dotted" /\ r.title.label = "dotted" /\ b = 0
          THEN C(d, d.whole, d.fraction, FALSE, TRUE)
        ELSE IF d.label \in {"half", "dotted"} THEN C(d, b, d.whole, d.whole > 0, FALSE)
        ELSE IF d.label = "letter" THEN C(d, b, d.whole, FALSE, FALSE)
        ELSE C(d, b, 0, FALSE, FALSE)
  BY <1>1, <1>3 DEF Coordinates
<1>5. \A k, n \in Nat : Placed(C(d, k, n, FALSE, FALSE)) /\ Placed(C(d, k, n, FALSE, TRUE))
  BY <1>2 DEF Placed
<1>6. Placed(C(d, b, d.whole, d.whole > 0, FALSE))
  <2>1. CASE d.whole > 0
    <3>1. C(d, b, d.whole, d.whole > 0, FALSE) = C(d, b, d.whole, TRUE, FALSE)
      BY <2>1
    <3>2. Placed(C(d, b, d.whole, TRUE, FALSE))
      BY <1>2, <2>1 DEF Placed
    <3> HIDE DEF C
    <3> QED
      BY <3>1, <3>2
  <2>2. CASE ~(d.whole > 0)
    <3>1. (d.whole > 0) = FALSE
      BY <2>2
    <3> HIDE DEF C
    <3> QED
      BY <1>2, <1>3, <1>5, <3>1
  <2> QED
    BY <2>1, <2>2
<1> HIDE DEF C
<1>7. 0 \in Nat /\ m \in Nat /\ d.plural \in Nat /\ b \in Nat /\ d.whole \in Nat /\ d.fraction \in Nat
  BY <1>2
<1> QED
  BY <1>4, <1>5, <1>6, <1>7

\* The coordinates of n releases.
Coordinated(c, n) == n \in Nat /\ IsSeq(c) /\ Len(c) = n /\ \A i \in 1..n : Placed(c[i])

LEMMA SeriesCoordinated ==
  ASSUME NEW s \in Seq(Release)
  PROVE  Coordinated(CoordinatesOf(s), Len(s))
<1> DEFINE c == CoordinatesOf(s)
           n == Len(s)
<1>1. n \in Nat /\ c = [i \in 1..n |-> Coordinates(s[i])]
  BY DEF CoordinatesOf
<1>2. ASSUME NEW i \in 1..n PROVE Placed(c[i])
  <2>1. s[i] \in Release
    BY <1>1
  <2>2. s[i].title \in Text /\ s[i].file \in Text
    BY <2>1, NumberingAssumption
  <2>3. c[i] = Coordinates(s[i])
    BY <1>1
  <2> HIDE DEF c
  <2> QED
    BY <2>2, <2>3, CoordinatesPlaced
<1> HIDE DEF n
<1>3. c = [i \in 1..n |-> c[i]]
  BY <1>1
<1> HIDE DEF c
<1>4. IsSeq(c) /\ Len(c) = n
  BY <1>1, <1>3, SeqMapped
<1> QED
  BY <1>1, <1>2, <1>4 DEF Coordinated, c, n

LEMMA NumbersTyped ==
  ASSUME NEW c, Placed(c)
  PROVE  \E q \in Int : Number(c) = <<c.chapter, q>>
<1>1. c.chapter \in Nat /\ c.fraction \in Nat /\ c.half \in BOOLEAN
  BY DEF Placed
<1>2. CASE c.half
  BY <1>1, <1>2 DEF Number
<1>3. CASE ~c.half
  BY <1>1, <1>3 DEF Number, Whole
<1> QED
  BY <1>1, <1>2, <1>3

LEMMA BooksNamed ==
  ASSUME NEW c, NEW n, Coordinated(c, n)
  PROVE  /\ BookAt(c) \in [0..n -> Nat] /\ BookAt(c)[0] = 1
         /\ \A k \in 1..n : BookAt(c)[k] =
              IF c[k].dotted \/ c[k].book > 0 THEN c[k].book ELSE BookAt(c)[k - 1]
<1> DEFINE of(v, k) == IF c[k].dotted \/ c[k].book > 0 THEN c[k].book ELSE v
           Step(f) == [k \in 0..n |-> IF k = 0 THEN 1 ELSE of(f[k - 1], k)]
           next == [p \in (1..n) \X Nat |-> of(p[2], p[1])]
<1>1. n \in Nat /\ Len(c) = n /\ \A k \in 1..n : c[k].book \in Nat
  BY DEF Coordinated, Placed
<1>2. BookAt(c) = CHOOSE f : f = Step(f)
  BY <1>1 DEF BookAt
<1>3. \A k \in 1..n, v \in Nat : of(v, k) \in Nat
  BY <1>1
<1>4. \A k \in 1..n, v \in Nat : next[<<k, v>>] = of(v, k)
  <2> HIDE DEF of
  <2> QED
    OBVIOUS
<1> HIDE DEF of, next
<1>5. PICK f \in [0..n -> Nat] : f[0] = 1 /\ \A k \in 1..n : f[k] = next[<<k, f[k - 1]>>]
  <2>1. Stepping(n, Nat, next)
    BY <1>3, <1>4 DEF Stepping
  <2>2. PICK f : Reaches(f, n, Nat, 1, next)
    BY <1>1, <2>1, Recursion
  <2> QED
    BY <2>2 DEF Reaches
<1>6. \A k \in 1..n : k - 1 \in 0..n /\ f[k - 1] \in Nat
  BY <1>1, <1>5
<1>7. \A k \in 1..n : f[k] = of(f[k - 1], k)
  BY <1>4, <1>5, <1>6
<1>8. \E g : g = Step(g)
  <2>1. f = Step(f)
    BY <1>1, <1>5, <1>7
  <2> HIDE DEF Step
  <2> QED
    BY <2>1
<1>9. PICK g : g = BookAt(c) /\ g = Step(g)
  <2> HIDE DEF Step
  <2> QED
    BY <1>2, <1>8
<1>10. DOMAIN g = 0..n /\ g[0] = 1 /\ \A k \in 1..n : g[k] = of(g[k - 1], k)
  BY <1>1, <1>9
<1>11. \A k \in 0..n : g[k] \in Nat
  <2> DEFINE T == {k \in 0..n : g[k] \in Nat}
  <2>1. 0 \in T
    BY <1>1, <1>10
  <2>2. ASSUME NEW k \in 1..n, k - 1 \in T PROVE k \in T
    BY <1>1, <1>3, <1>10, <2>2
  <2> HIDE DEF T
  <2>3. \A k \in 0..n : k \in T
    BY <1>1, <2>1, <2>2, Climb
  <2> QED
    BY <2>3 DEF T
<1>12. g \in [0..n -> Nat]
  BY <1>9, <1>10, <1>11
<1> QED
  BY <1>9, <1>10, <1>12 DEF of

(* How far the numbers got, book by book.                                  *)
Scanned(seen, c, n) ==
    /\ seen \in [0..n -> [book : Nat, highest : Nat, restarts : BOOLEAN]]
    /\ seen[0].book = 0 /\ seen[0].highest = 0
    /\ \A k \in 1..n :
         /\ c[k].chapter = 0 => seen[k] = seen[k - 1]
         /\ c[k].chapter # 0 =>
              /\ seen[k].book = Larger(c[k].book, seen[k - 1].book)
              /\ seen[k].highest = Larger(c[k].chapter, seen[k - 1].highest)
              /\ seen[k].restarts <=>
                   \/ seen[k - 1].restarts
                   \/ /\ c[k].book > seen[k - 1].book
                      /\ c[k].chapter <= seen[k - 1].highest
                      /\ (seen[k - 1].book > 0 \/ seen[k - 1].highest > 0)

LEMMA SeriesScanned ==
  ASSUME NEW c, NEW n, Coordinated(c, n)
  PROVE  \E seen : /\ Scanned(seen, c, n)
                   /\ RestartsPerBook(c) <=> (\E i \in 1..n : c[i].dotted) \/ seen[n].restarts
<1> DEFINE S == [book : Nat, highest : Nat, restarts : BOOLEAN]
           first == [book |-> 0, highest |-> 0, restarts |-> FALSE]
           of(v, k) ==
             IF c[k].chapter = 0 THEN v
             ELSE [book |-> Larger(c[k].book, v.book),
                   highest |-> Larger(c[k].chapter, v.highest),
                   restarts |-> \/ v.restarts
                                \/ /\ c[k].book > v.book
                                   /\ c[k].chapter <= v.highest
                                   /\ (v.book > 0 \/ v.highest > 0)]
           Step(f) == [k \in 0..n |-> IF k = 0 THEN first ELSE of(f[k - 1], k)]
           next == [p \in (1..n) \X S |-> of(p[2], p[1])]
           seen == CHOOSE f : f = Step(f)
<1>1. n \in Nat /\ Len(c) = n /\ \A k \in 1..n : c[k].book \in Nat /\ c[k].chapter \in Nat
  BY DEF Coordinated, Placed
<1>2. RestartsPerBook(c) <=> (\E i \in 1..n : c[i].dotted) \/ seen[n].restarts
  BY <1>1 DEF RestartsPerBook
<1>3. ASSUME NEW k \in 1..n, NEW v \in S PROVE of(v, k) \in S
  <2>1. \A i, j \in Nat : Larger(i, j) \in Nat
    BY DEF Larger
  <2>2. v.book \in Nat /\ v.highest \in Nat
    OBVIOUS
  <2>3. Larger(c[k].book, v.book) \in Nat /\ Larger(c[k].chapter, v.highest) \in Nat
    BY <1>1, <2>1, <2>2
  <2> QED
    BY <2>3
<1>4. \A k \in 1..n, v \in S : next[<<k, v>>] = of(v, k)
  <2> HIDE DEF of, S
  <2> QED
    OBVIOUS
<1>5. first \in S
  OBVIOUS
<1> HIDE DEF of, next, S, first
<1>6. PICK f \in [0..n -> S] : f[0] = first /\ \A k \in 1..n : f[k] = next[<<k, f[k - 1]>>]
  <2>1. Stepping(n, S, next)
    BY <1>3, <1>4 DEF Stepping
  <2>2. PICK f : Reaches(f, n, S, first, next)
    BY <1>1, <1>5, <2>1, Recursion
  <2> QED
    BY <2>2 DEF Reaches
<1>7. \A k \in 1..n : f[k] = of(f[k - 1], k)
  <2>1. \A k \in 1..n : k - 1 \in 0..n /\ f[k - 1] \in S
    BY <1>1, <1>6
  <2> QED
    BY <1>4, <1>6, <2>1
<1>8. seen = Step(seen)
  <2>1. f = Step(f)
    BY <1>1, <1>6, <1>7
  <2> HIDE DEF Step
  <2> QED
    BY <2>1
<1> HIDE DEF seen
<1>9. DOMAIN seen = 0..n /\ seen[0] = first /\ \A k \in 1..n : seen[k] = of(seen[k - 1], k)
  BY <1>1, <1>8
<1>10. seen \in [0..n -> S]
  <2> DEFINE T == {k \in 0..n : seen[k] \in S}
  <2>1. 0 \in T
    BY <1>1, <1>5, <1>9
  <2>2. ASSUME NEW k \in 1..n, k - 1 \in T PROVE k \in T
    BY <1>1, <1>3, <1>9, <2>2
  <2> HIDE DEF T
  <2>3. \A k \in 0..n : k \in T
    BY <1>1, <2>1, <2>2, Climb
  <2>4. \A k \in 0..n : seen[k] \in S
    BY <2>3 DEF T
  <2>5. seen = [k \in 0..n |-> seen[k]]
    BY <1>8
  <2> QED
    BY <2>4, <2>5
<1>11. Scanned(seen, c, n)
  <2>1. seen[0].book = 0 /\ seen[0].highest = 0
    BY <1>9 DEF first
  <2>2. ASSUME NEW k \in 1..n
        PROVE  /\ c[k].chapter = 0 => seen[k] = seen[k - 1]
               /\ c[k].chapter # 0 =>
                    /\ seen[k].book = Larger(c[k].book, seen[k - 1].book)
                    /\ seen[k].highest = Larger(c[k].chapter, seen[k - 1].highest)
                    /\ seen[k].restarts <=>
                         \/ seen[k - 1].restarts
                         \/ /\ c[k].book > seen[k - 1].book
                            /\ c[k].chapter <= seen[k - 1].highest
                            /\ (seen[k - 1].book > 0 \/ seen[k - 1].highest > 0)
    <3>1. PICK v, w : v = seen[k - 1] /\ w = seen[k] /\ w = of(v, k)
      BY <1>9
    <3>2. c[k].chapter = 0 => w = v
      BY <3>1 DEF of
    <3>3. CASE c[k].chapter # 0
      <4>1. w = [book |-> Larger(c[k].book, v.book),
                 highest |-> Larger(c[k].chapter, v.highest),
                 restarts |-> \/ v.restarts
                              \/ /\ c[k].book > v.book
                                 /\ c[k].chapter <= v.highest
                                 /\ (v.book > 0 \/ v.highest > 0)]
        BY <3>1, <3>3 DEF of
      <4>2. /\ w.book = Larger(c[k].book, v.book)
            /\ w.highest = Larger(c[k].chapter, v.highest)
        BY <4>1
      <4>3. w.restarts <=> \/ v.restarts
                           \/ /\ c[k].book > v.book
                              /\ c[k].chapter <= v.highest
                              /\ (v.book > 0 \/ v.highest > 0)
        BY <4>1, Zenon
      <4> QED
        BY <3>1, <3>3, <4>2, <4>3, Zenon
    <3> QED
      BY <3>1, <3>2, <3>3, Zenon
  <2> QED
    BY <1>10, <2>1, <2>2 DEF Scanned, S
<1> QED
  BY <1>2, <1>11

(* The labels, one release after the other.                                *)
LabelledBy(at, mode, perBook, c, n) ==
    /\ at \in [0..n -> [count : Nat, book : Nat, last : Int \X Int]]
    /\ at[0] = [count |-> 0, book |-> 1, last |-> NoLabel]
    /\ \A k \in 1..n : at[k] = LabelNext(mode, perBook, at[k - 1], c[k])

LEMMA SeriesLabelled ==
  ASSUME NEW s, NEW c, NEW n, c = CoordinatesOf(s), Len(s) = n, Coordinated(c, n)
  PROVE  \E at, mode, perBook :
           /\ LabelledBy(at, mode, perBook, c, n)
           /\ mode = Mode(c) /\ perBook = (mode = "chapter" /\ RestartsPerBook(c))
           /\ SeriesIndexes(s) = [i \in 1..n |-> at[i].last]
<1> DEFINE S == [count : Nat, book : Nat, last : Int \X Int]
           first == [count |-> 0, book |-> 1, last |-> NoLabel]
           mode == Mode(c)
           perBook == mode = "chapter" /\ RestartsPerBook(c)
           of(v, k) == LabelNext(mode, perBook, v, c[k])
           Step(f) == [k \in 0..n |-> IF k = 0 THEN first ELSE of(f[k - 1], k)]
           next == [p \in (1..n) \X S |-> of(p[2], p[1])]
           at == CHOOSE f : f = Step(f)
<1>1. /\ n \in Nat /\ Len(c) = n
      /\ \A k \in 1..n : /\ c[k].book \in Nat /\ c[k].chapter \in Nat /\ c[k].part \in Nat
                          /\ c[k].fraction \in Nat
  BY DEF Coordinated, Placed
<1>2. SeriesIndexes(s) = [i \in 1..n |-> at[i].last]
  BY DEF SeriesIndexes
<1> HIDE DEF mode, perBook
<1>3. ASSUME NEW k \in 1..n, NEW v \in S PROVE of(v, k) \in S
  <2>1. /\ c[k].book \in Nat /\ c[k].chapter \in Nat /\ c[k].part \in Nat /\ c[k].fraction \in Nat
        /\ v.count \in Nat /\ v.book \in Nat /\ v.last \in Int \X Int
    BY <1>1
  <2>2. of(v, k).last \in Int \X Int
    <3>1. /\ \A i, j \in Nat : <<i, j>> \in Int \X Int /\ Whole(i) \in Int \X Int
          /\ NoLabel \in Int \X Int /\ v.count + 1 \in Nat /\ 0 \in Nat
      BY <2>1 DEF Whole, NoLabel
    <3>2. LabelOf(mode, perBook, v, c[k]) \in Int \X Int
      BY <2>1, <3>1 DEF LabelOf
    <3>3. of(v, k).last = IF LabelOf(mode, perBook, v, c[k]) # NoLabel THEN LabelOf(mode, perBook, v, c[k])
                          ELSE IF v.last # NoLabel THEN v.last ELSE Whole(0)
      BY DEF LabelNext
    <3> QED
      BY <2>1, <3>1, <3>2, <3>3
  <2>3. of(v, k) = [count |-> v.count + 1,
                    book |-> IF Opens(mode, perBook, c[k]) THEN c[k].book ELSE v.book,
                    last |-> of(v, k).last]
    BY DEF LabelNext
  <2> HIDE DEF of
  <2> QED
    BY <2>1, <2>2, <2>3
<1>4. \A k \in 1..n, v \in S : next[<<k, v>>] = of(v, k)
  <2> HIDE DEF of, S
  <2> QED
    OBVIOUS
<1>5. first \in S
  BY DEF NoLabel
<1> HIDE DEF of, next, S, first
<1>6. PICK f \in [0..n -> S] : f[0] = first /\ \A k \in 1..n : f[k] = next[<<k, f[k - 1]>>]
  <2>1. Stepping(n, S, next)
    BY <1>3, <1>4 DEF Stepping
  <2>2. PICK f : Reaches(f, n, S, first, next)
    BY <1>1, <1>5, <2>1, Recursion
  <2> QED
    BY <2>2 DEF Reaches
<1>7. \A k \in 1..n : f[k] = of(f[k - 1], k)
  <2>1. \A k \in 1..n : k - 1 \in 0..n /\ f[k - 1] \in S
    BY <1>1, <1>6
  <2> QED
    BY <1>4, <1>6, <2>1
<1>8. at = Step(at)
  <2>1. f = Step(f)
    BY <1>1, <1>6, <1>7
  <2> HIDE DEF Step
  <2> QED
    BY <2>1
<1> HIDE DEF at
<1>9. DOMAIN at = 0..n /\ at[0] = first /\ \A k \in 1..n : at[k] = of(at[k - 1], k)
  BY <1>1, <1>8
<1>10. at \in [0..n -> S]
  <2> DEFINE T == {k \in 0..n : at[k] \in S}
  <2>1. 0 \in T
    BY <1>1, <1>5, <1>9
  <2>2. ASSUME NEW k \in 1..n, k - 1 \in T PROVE k \in T
    BY <1>1, <1>3, <1>9, <2>2
  <2> HIDE DEF T
  <2>3. \A k \in 0..n : k \in T
    BY <1>1, <2>1, <2>2, Climb
  <2>4. \A k \in 0..n : at[k] \in S
    BY <2>3 DEF T
  <2>5. at = [k \in 0..n |-> at[k]]
    BY <1>8
  <2> QED
    BY <2>4, <2>5
<1>11. LabelledBy(at, mode, perBook, c, n)
  BY <1>9, <1>10 DEF LabelledBy, S, of, first
<1> QED
  BY <1>2, <1>11 DEF mode, perBook

(* Labels that never go back come in order.                                *)
Onward(at, n) == \A k \in 2..n : ~Before(at[k].last, at[k - 1].last)

LEMMA OnwardReads ==
  ASSUME NEW n \in Nat, NEW at, Onward(at, n),
         at \in [0..n -> [count : Nat, book : Nat, last : Int \X Int]]
  PROVE  \A i, j \in 1..n : i < j => ~Before(at[j].last, at[i].last)
<1>1. TAKE i, j \in 1..n
<1>2. HAVE i < j
<1>3. \A p, q, r \in Int \X Int : ~Before(q, p) /\ ~Before(r, q) => ~Before(r, p)
  BY DEF Before
<1>4. \A p \in Int \X Int : ~Before(p, p)
  BY DEF Before
<1> DEFINE T == {m \in 0..n : m < i \/ ~Before(at[m].last, at[i].last)}
<1>5. \A m \in 0..n : at[m].last \in Int \X Int
  OBVIOUS
<1>6. 0 \in T
  OBVIOUS
<1>7. ASSUME NEW m \in 1..n, m - 1 \in T PROVE m \in T
  <2>1. m \in 0..n /\ m - 1 \in 0..n /\ i \in 0..n
    OBVIOUS
  <2>2. CASE m < i
    BY <2>1, <2>2
  <2>3. CASE m = i
    BY <1>4, <1>5, <2>1, <2>3
  <2>4. CASE m > i
    <3>1. ~Before(at[m - 1].last, at[i].last)
      BY <1>7, <2>1, <2>4
    <3>2. ~Before(at[m].last, at[m - 1].last)
      <4>1. m \in 2..n
        BY <2>4
      <4> QED
        BY <4>1 DEF Onward
    <3>3. ~Before(at[m].last, at[i].last)
      BY <1>3, <1>5, <2>1, <3>1, <3>2
    <3> QED
      BY <2>1, <3>3
  <2> QED
    BY <2>1, <2>2, <2>3, <2>4
<1> HIDE DEF T
<1>8. \A m \in 0..n : m \in T
  BY <1>6, <1>7, Climb
<1> QED
  BY <1>2, <1>8 DEF T

(* One release is labelled.                                                *)
LEMMA LabelledNext ==
  ASSUME NEW at, NEW mode, NEW perBook, NEW c, NEW n, Coordinated(c, n),
         LabelledBy(at, mode, perBook, c, n), NEW k \in 1..n
  PROVE  \E label \in Int \X Int :
           /\ label = LabelOf(mode, perBook, at[k - 1], c[k])
           /\ at[k].last = IF label # NoLabel THEN label
                           ELSE IF at[k - 1].last # NoLabel THEN at[k - 1].last ELSE Whole(0)
           /\ at[k].count = at[k - 1].count + 1
           /\ at[k].book = IF Opens(mode, perBook, c[k]) THEN c[k].book ELSE at[k - 1].book
           /\ at[k - 1].last \in Int \X Int /\ at[k - 1].book \in Nat /\ at[k - 1].count \in Nat
<1>1. /\ c[k].book \in Nat /\ c[k].chapter \in Nat /\ c[k].part \in Nat /\ c[k].fraction \in Nat
      /\ n \in Nat /\ k - 1 \in 0..n
  BY DEF Coordinated, Placed
<1>2. PICK v \in [count : Nat, book : Nat, last : Int \X Int] :
        v = at[k - 1] /\ at[k] = LabelNext(mode, perBook, v, c[k])
  BY <1>1 DEF LabelledBy
<1>3. \A i, j \in Nat : <<i, j>> \in Int \X Int /\ Whole(i) \in Int \X Int
  BY DEF Whole
<1>4. NoLabel \in Int \X Int
  BY DEF NoLabel
<1> DEFINE label == LabelOf(mode, perBook, v, c[k])
<1>5. label \in Int \X Int
  <2>1. v.count + 1 \in Nat /\ v.book \in Nat /\ 0 \in Nat
    OBVIOUS
  <2> QED
    BY <1>1, <1>3, <1>4, <2>1 DEF LabelOf
<1>6. at[k] = [count |-> v.count + 1,
               book |-> IF Opens(mode, perBook, c[k]) THEN c[k].book ELSE v.book,
               last |-> IF label # NoLabel THEN label
                        ELSE IF v.last # NoLabel THEN v.last ELSE Whole(0)]
  BY <1>2 DEF LabelNext
<1>7. v.last \in Int \X Int /\ v.book \in Nat /\ v.count \in Nat
  OBVIOUS
<1> WITNESS label \in Int \X Int
<1>8. at[k].last = IF label # NoLabel THEN label ELSE IF v.last # NoLabel THEN v.last ELSE Whole(0)
  BY <1>6
<1>9. at[k].count = v.count + 1 /\ at[k].book = IF Opens(mode, perBook, c[k]) THEN c[k].book ELSE v.book
  BY <1>6
<1> HIDE DEF label
<1> QED
  BY <1>2, <1>7, <1>8, <1>9 DEF label

LEMMA OrdinalsOnward ==
  ASSUME NEW at, NEW perBook, NEW c, NEW n, Coordinated(c, n),
         LabelledBy(at, "ordinal", perBook, c, n)
  PROVE  Onward(at, n)
<1>1. n \in Nat /\ at[0].count = 0
  BY DEF Coordinated, LabelledBy
<1>2. ASSUME NEW k \in 1..n, at[k - 1].count = k - 1
      PROVE  at[k].count = k /\ at[k].last = Whole(k)
  <2>1. PICK label \in Int \X Int :
          /\ at[k].last = IF label # NoLabel THEN label
                          ELSE IF at[k - 1].last # NoLabel THEN at[k - 1].last ELSE Whole(0)
          /\ label = Whole(at[k - 1].count + 1)
          /\ at[k].count = at[k - 1].count + 1
    BY LabelledNext DEF LabelOf
  <2>2. label = Whole(k) /\ at[k].count = k
    BY <1>2, <2>1
  <2>3. label # NoLabel
    BY <2>2 DEF Whole, NoLabel
  <2> QED
    BY <2>1, <2>2, <2>3
<1> DEFINE T == {k \in 0..n : at[k].count = k}
<1>3. 0 \in T
  BY <1>1
<1>4. \A k \in 1..n : k - 1 \in T => k \in T
  BY <1>1, <1>2
<1>5. \A k \in 0..n : at[k].count = k
  <2> HIDE DEF T
  <2>1. \A k \in 0..n : k \in T
    BY <1>1, <1>3, <1>4, Climb
  <2> QED
    BY <2>1 DEF T
<1>6. ASSUME NEW k \in 2..n PROVE ~Before(at[k].last, at[k - 1].last)
  <2>1. k \in 1..n /\ k - 1 \in 1..n /\ k - 1 \in 0..n /\ (k - 1) - 1 \in 0..n
    BY <1>1
  <2>2. at[k].last = Whole(k) /\ at[k - 1].last = Whole(k - 1)
    BY <1>2, <1>5, <2>1
  <2>3. ~Before(Whole(k), Whole(k - 1))
    BY <2>1 DEF Before, Whole
  <2> QED
    BY <2>2, <2>3
<1> QED
  BY <1>6 DEF Onward

LEMMA PartsOnward ==
  ASSUME NEW at, NEW perBook, NEW c, NEW n, Coordinated(c, n),
         LabelledBy(at, "part", perBook, c, n),
         \A i, j \in 1..n : i < j /\ c[i].part > 0 /\ c[j].part > 0 => c[i].part <= c[j].part
  PROVE  Onward(at, n)
<1> DEFINE Known(k) == \/ k = 0 /\ at[k].last = NoLabel
                       \/ at[k].last = Whole(0)
                       \/ \E i \in 1..k : c[i].part > 0 /\ at[k].last = Whole(c[i].part)
           T == {k \in 0..n : Known(k)}
<1>1. n \in Nat /\ at[0].last = NoLabel /\ \A i \in 1..n : c[i].part \in Nat
  BY DEF Coordinated, LabelledBy, Placed
<1>2. ASSUME NEW k \in 1..n, Known(k - 1)
      PROVE  Known(k) /\ (k > 1 => ~Before(at[k].last, at[k - 1].last))
  <2>1. PICK label \in Int \X Int :
          /\ at[k].last = IF label # NoLabel THEN label
                          ELSE IF at[k - 1].last # NoLabel THEN at[k - 1].last ELSE Whole(0)
          /\ label = IF c[k].part > 0 THEN Whole(c[k].part) ELSE NoLabel
          /\ at[k - 1].last \in Int \X Int
    BY LabelledNext DEF LabelOf
  <2>2. k \in Nat /\ c[k].part \in Nat /\ k # 0
    BY <1>1
  <2>3. \A p \in Int \X Int : ~Before(p, p)
    BY DEF Before
  <2>4. \A i \in Nat : Whole(i) # NoLabel
    BY DEF Whole, NoLabel
  <2>5. CASE c[k].part > 0
    <3>1. at[k].last = Whole(c[k].part)
      BY <2>1, <2>2, <2>4, <2>5
    <3>2. Known(k)
      <4>1. k \in 1..k
        BY <2>2
      <4> QED
        BY <2>5, <3>1, <4>1
    <3>3. \A i, j \in Nat : i <= j => ~Before(Whole(j), Whole(i))
      BY DEF Whole, Before
    <3>4. ASSUME k > 1 PROVE ~Before(at[k].last, at[k - 1].last)
      <4>1. CASE at[k - 1].last = Whole(0)
        BY <2>2, <3>1, <3>3, <4>1
      <4>2. ASSUME NEW i \in 1..(k - 1), c[i].part > 0, at[k - 1].last = Whole(c[i].part)
            PROVE  ~Before(at[k].last, at[k - 1].last)
        <5>1. i \in 1..n /\ i < k
          BY <1>1
        <5>2. c[i].part <= c[k].part /\ c[i].part \in Nat
          BY <1>1, <2>5, <4>2, <5>1
        <5> QED
          BY <2>2, <3>1, <3>3, <4>2, <5>2
      <4>3. k - 1 # 0
        BY <3>4, <2>2
      <4> QED
        BY <1>2, <4>1, <4>2, <4>3
    <3> QED
      BY <3>2, <3>4
  <2>6. CASE ~(c[k].part > 0)
    <3>1. at[k].last = IF at[k - 1].last # NoLabel THEN at[k - 1].last ELSE Whole(0)
      BY <2>1, <2>6
    <3>2. \A i \in 1..(k - 1) : i \in 1..k /\ c[i].part \in Nat
      BY <1>1, <2>2
    <3>3. Known(k)
      BY <1>2, <2>4, <3>1, <3>2
    <3>4. ASSUME k > 1 PROVE at[k - 1].last # NoLabel
      BY <1>2, <2>2, <2>4, <3>2, <3>4
    <3>5. k > 1 => ~Before(at[k].last, at[k - 1].last)
      BY <2>1, <2>3, <3>1, <3>4
    <3> QED
      BY <3>3, <3>5
  <2> QED
    BY <2>5, <2>6
<1>3. \A k \in 0..n : Known(k)
  <2>1. 0 \in T
    BY <1>1
  <2>2. \A k \in 1..n : k - 1 \in T => k \in T
    <3> HIDE DEF Known
    <3> QED
      BY <1>1, <1>2
  <2> HIDE DEF T
  <2>3. \A k \in 0..n : k \in T
    BY <1>1, <2>1, <2>2, Climb
  <2> QED
    BY <2>3 DEF T
<1> HIDE DEF Known
<1>4. ASSUME NEW k \in 2..n PROVE ~Before(at[k].last, at[k - 1].last)
  <2>1. k \in 1..n /\ k - 1 \in 0..n /\ k > 1
    BY <1>1
  <2> QED
    BY <1>2, <1>3, <2>1
<1> QED
  BY <1>4 DEF Onward

(* Books in the author's order.                                            *)
InBooks(b, c, n) ==
    \A i, j \in 1..n : i < j =>
      /\ b[i] <= b[j]
      /\ Numbered(c[i]) /\ Numbered(c[j]) /\ b[i] = b[j] =>
           ~Before(Number(c[j]), Number(c[i]))

(* A number that is not before another is not of an earlier chapter.       *)
LEMMA ChaptersFollow ==
  ASSUME NEW c, NEW d, Placed(c), Placed(d), ~Before(Number(d), Number(c))
  PROVE  c.chapter <= d.chapter
<1>1. PICK p \in Int : Number(c) = <<c.chapter, p>>
  BY NumbersTyped
<1>2. PICK q \in Int : Number(d) = <<d.chapter, q>>
  BY NumbersTyped
<1>3. c.chapter \in Nat /\ d.chapter \in Nat
  BY DEF Placed
<1>4. \A m, n \in Nat, r, s \in Int : ~Before(<<n, s>>, <<m, r>>) => m <= n
  BY DEF Before
<1> QED
  BY <1>1, <1>2, <1>3, <1>4

LEMMA BooksOnward ==
  ASSUME NEW at, NEW c, NEW n, Coordinated(c, n),
         LabelledBy(at, "chapter", TRUE, c, n), InBooks(BookAt(c), c, n)
  PROVE  Onward(at, n)
<1> DEFINE x(i) == IF Numbered(c[i]) THEN {0, c[i].chapter} ELSE {0}
           Known(k) == /\ at[k].book = BookAt(c)[k]
                       /\ \/ k = 0 /\ at[k].last = NoLabel
                          \/ \E i \in 1..k : \E m \in x(i) : at[k].last = <<BookAt(c)[i], m>>
           T == {k \in 0..n : Known(k)}
<1>1. PICK b \in [0..n -> Nat] :
        /\ b = BookAt(c) /\ b[0] = 1
        /\ \A k \in 1..n : b[k] = IF c[k].dotted \/ c[k].book > 0 THEN c[k].book ELSE b[k - 1]
  BY BooksNamed
<1>2. /\ n \in Nat /\ at[0].last = NoLabel /\ at[0].book = 1
      /\ \A i \in 1..n : c[i].chapter \in Nat /\ c[i].book \in Nat /\ c[i].fraction \in Nat
  <2>1. at[0].last = NoLabel /\ at[0].book = 1
    BY DEF LabelledBy
  <2> QED
    BY <2>1 DEF Coordinated, Placed
<1>3. \A i \in 1..n : \A m \in x(i) : m \in Nat /\ (m # 0 => Numbered(c[i]) /\ m = c[i].chapter)
  BY <1>2
<1>4. \A i \in 1..n : 0 \in x(i) /\ (Numbered(c[i]) => c[i].chapter \in x(i))
  OBVIOUS
<1> HIDE DEF x
<1>5. ASSUME NEW k \in 1..n, Known(k - 1)
      PROVE  Known(k) /\ (k > 1 => ~Before(at[k].last, at[k - 1].last))
  <2>1. PICK label \in Int \X Int :
          /\ label = LabelOf("chapter", TRUE, at[k - 1], c[k])
          /\ at[k].last = IF label # NoLabel THEN label
                          ELSE IF at[k - 1].last # NoLabel THEN at[k - 1].last ELSE Whole(0)
          /\ at[k].book = IF Opens("chapter", TRUE, c[k]) THEN c[k].book ELSE at[k - 1].book
          /\ at[k - 1].last \in Int \X Int
    <3> HIDE DEF Known, T
    <3>1. PICK yes : yes = TRUE
      OBVIOUS
    <3>2. LabelledBy(at, "chapter", yes, c, n)
      BY <3>1
    <3>3. PICK label \in Int \X Int :
          /\ label = LabelOf("chapter", yes, at[k - 1], c[k])
          /\ at[k].last = IF label # NoLabel THEN label
                          ELSE IF at[k - 1].last # NoLabel THEN at[k - 1].last ELSE Whole(0)
          /\ at[k].book = IF Opens("chapter", yes, c[k]) THEN c[k].book ELSE at[k - 1].book
          /\ at[k - 1].last \in Int \X Int
      BY <3>2, LabelledNext
    <3> QED
      BY <3>1, <3>3
  <2>2. label =
          IF c[k].dotted \/ (c[k].book > 0 /\ c[k].chapter > 0) THEN <<c[k].book, c[k].chapter>>
          ELSE IF c[k].chapter > 0 THEN <<at[k - 1].book, c[k].chapter>>
          ELSE IF c[k].book > 0 /\ c[k].book # at[k - 1].book THEN <<c[k].book, 0>>
          ELSE IF at[k - 1].last = NoLabel THEN <<at[k - 1].book, 0>>
          ELSE NoLabel
    BY <2>1 DEF LabelOf
  <2>3. k \in Nat /\ k # 0 /\ k \in 1..k /\ k \in 0..n /\ k - 1 \in 0..n /\ (k > 1 => k - 1 \in 1..n /\ k - 1 # 0)
    BY <1>2
  <2>4. \A i, m \in Nat : <<i, m>> # NoLabel
    BY DEF NoLabel
  <2>5. at[k].book = b[k] /\ at[k - 1].book = b[k - 1]
    BY <1>1, <1>5, <2>1 DEF Opens
  <2>6. k > 1 => \E i \in 1..(k - 1) : \E m \in x(i) : at[k - 1].last = <<b[i], m>>
    BY <1>1, <1>5, <2>3
  <2>7. \A i \in 1..(k - 1) : i \in 1..n /\ i < k /\ i \in 1..k
    BY <1>2
  <2>8. \A i, j, m, y \in Nat : i < j \/ (i = j /\ m <= y) => ~Before(<<j, y>>, <<i, m>>)
    BY DEF Before
  <2>9. CASE label = NoLabel
    <3>1. at[k - 1].last # NoLabel /\ at[k].last = at[k - 1].last
      <4>1. b[k - 1] \in Nat /\ c[k].book \in Nat /\ c[k].chapter \in Nat /\ 0 \in Nat
        BY <1>2, <2>3
      <4> QED
        BY <2>1, <2>2, <2>4, <2>5, <2>9, <4>1
    <3>2. k > 1
      BY <1>2, <2>3, <3>1
    <3>3. Known(k)
      BY <1>1, <2>5, <2>6, <2>7, <3>1, <3>2
    <3>4. ~Before(at[k].last, at[k - 1].last)
      <4>1. \A p \in Int \X Int : ~Before(p, p)
        BY DEF Before
      <4> QED
        BY <2>1, <3>1, <4>1
    <3> QED
      BY <3>3, <3>4
  <2>10. CASE label # NoLabel
    <3>1. PICK y \in x(k) : /\ label = <<b[k], y>>
                            /\ k > 1 => (Numbered(c[k]) /\ y = c[k].chapter) \/ b[k] # b[k - 1]
      <4>1. CASE c[k].dotted \/ c[k].chapter > 0
        <5>1. Numbered(c[k])
          BY <4>1 DEF Numbered
        <5>2. label = <<b[k], c[k].chapter>>
          BY <1>1, <1>2, <2>2, <2>5, <4>1
        <5> QED
          BY <1>4, <5>1, <5>2
      <4>2. CASE ~(c[k].dotted \/ c[k].chapter > 0)
        <5>1. CASE c[k].book > 0 /\ c[k].book # at[k - 1].book
          <6>1. label = <<b[k], 0>> /\ b[k] # b[k - 1]
            BY <1>1, <2>2, <2>5, <4>2, <5>1
          <6> QED
            BY <1>4, <6>1
        <5>2. CASE ~(c[k].book > 0 /\ c[k].book # at[k - 1].book)
          <6>1. at[k - 1].last = NoLabel /\ label = <<b[k - 1], 0>>
            BY <2>2, <2>5, <2>10, <4>2, <5>2
          <6>2. b[k] = b[k - 1]
            BY <1>1, <1>2, <2>5, <4>2, <5>2
          <6>3. ~(k > 1)
            <7>1. \A i \in 1..n : b[i] \in Nat
              BY <1>2
            <7> QED
              BY <1>3, <2>4, <2>6, <2>7, <6>1, <7>1
          <6> QED
            BY <1>4, <6>1, <6>2, <6>3
        <5> QED
          BY <5>1, <5>2
      <4> QED
        BY <4>1, <4>2
    <3>2. at[k].last = <<b[k], y>>
      BY <2>1, <2>10, <3>1
    <3>3. Known(k)
      BY <1>1, <2>3, <2>5, <3>2
    <3>4. ASSUME k > 1 PROVE ~Before(at[k].last, at[k - 1].last)
      <4>1. PICK i \in 1..(k - 1) : \E m \in x(i) : at[k - 1].last = <<b[i], m>>
        BY <2>6, <3>4
      <4>2. PICK m \in x(i) : at[k - 1].last = <<b[i], m>>
        BY <4>1
      <4>3. i \in 1..n /\ i < k /\ b[i] \in Nat /\ b[k] \in Nat /\ b[k - 1] \in Nat /\ y \in Nat /\ m \in Nat
        BY <1>2, <1>3, <2>3, <2>7
      <4>4. b[i] <= b[k - 1] /\ b[k - 1] <= b[k]
        <5>1. b[k - 1] <= b[k]
          <6>1. k - 1 \in 1..n /\ k - 1 < k
            BY <2>3, <3>4
          <6> QED
            BY <1>1, <6>1 DEF InBooks
        <5>2. CASE i = k - 1
          BY <4>3, <5>1, <5>2
        <5>3. CASE i < k - 1
          BY <1>1, <2>3, <3>4, <4>3, <5>1, <5>3 DEF InBooks
        <5> QED
          BY <4>3, <5>2, <5>3
      <4>5. ASSUME b[i] = b[k] PROVE m <= y
        <5>1. Numbered(c[k]) /\ y = c[k].chapter
          BY <3>1, <3>4, <4>3, <4>4, <4>5
        <5>2. CASE m = 0
          BY <4>3, <5>2
        <5>3. CASE m # 0
          <6>1. Numbered(c[i]) /\ m = c[i].chapter
            BY <1>3, <4>3, <5>3
          <6>2. ~Before(Number(c[k]), Number(c[i]))
            BY <1>1, <4>3, <4>5, <5>1, <6>1 DEF InBooks
          <6>3. c[i].chapter <= c[k].chapter
            <7>1. Placed(c[i]) /\ Placed(c[k])
              BY <4>3 DEF Coordinated
            <7> QED
              BY <6>2, <7>1, ChaptersFollow
          <6> QED
            BY <5>1, <6>1, <6>3
        <5> QED
          BY <5>2, <5>3
      <4>6. b[i] < b[k] \/ (b[i] = b[k] /\ m <= y)
        BY <4>3, <4>4, <4>5
      <4> QED
        BY <2>8, <3>2, <4>2, <4>3, <4>6
    <3> QED
      BY <3>3, <3>4
  <2> QED
    BY <2>9, <2>10
<1>6. \A k \in 0..n : Known(k)
  <2>1. 0 \in T
    BY <1>1, <1>2
  <2>2. \A k \in 1..n : k - 1 \in T => k \in T
    <3> HIDE DEF Known
    <3> QED
      BY <1>2, <1>5
  <2> HIDE DEF T
  <2>3. \A k \in 0..n : k \in T
    BY <1>2, <2>1, <2>2, Climb
  <2> QED
    BY <2>3 DEF T
<1> HIDE DEF Known
<1>7. ASSUME NEW k \in 2..n PROVE ~Before(at[k].last, at[k - 1].last)
  <2>1. k \in 1..n /\ k - 1 \in 0..n /\ k > 1
    BY <1>2
  <2> QED
    BY <1>5, <1>6, <2>1
<1> QED
  BY <1>7 DEF Onward

\* Books are opened by releases that have a number.
BooksOpened(b, c, n) ==
    \A j \in 1..n : Numbered(c[j]) => b[j] = 1 \/ \E i \in 1..j : Numbered(c[i]) /\ c[i].book > 0 /\ b[i] = b[j]

(* Without a restart, what the scan found grows past every earlier number. *)
LEMMA ScanRises ==
  ASSUME NEW c, NEW n, Coordinated(c, n), NEW seen, Scanned(seen, c, n), ~seen[n].restarts
  PROVE  \A k \in 1..n : c[k].chapter > 0 /\ c[k].book > seen[k - 1].book /\ seen[k - 1].highest > 0 =>
           c[k].chapter > seen[k - 1].highest
<1>1. n \in Nat /\ \A i \in 1..n : c[i].chapter \in Nat /\ c[i].book \in Nat
  BY DEF Coordinated, Placed
<1>2. \A k \in 0..n : seen[k].book \in Nat /\ seen[k].highest \in Nat
  BY DEF Scanned
<1>3. ASSUME NEW k \in 1..n, seen[k - 1].restarts PROVE seen[k].restarts
  <2>1. CASE c[k].chapter = 0
    <3>1. seen[k] = seen[k - 1]
      BY <2>1 DEF Scanned
    <3> QED
      BY <1>3, <3>1
  <2>2. CASE c[k].chapter # 0
    BY <1>3, <2>2, Zenon DEF Scanned
  <2> QED
    BY <2>1, <2>2
<1>4. ASSUME NEW k \in 0..n, seen[k].restarts PROVE FALSE
  <2> DEFINE T == {m \in 0..n : m < k \/ seen[m].restarts}
  <2>1. 0 \in T
    BY <1>1, <1>4
  <2>2. ASSUME NEW m \in 1..n, m - 1 \in T PROVE m \in T
    <3>1. m \in 0..n /\ (m < k \/ m = k \/ ~(m - 1 < k))
      BY <1>1
    <3> QED
      BY <1>3, <1>4, <2>2, <3>1
  <2> HIDE DEF T
  <2>3. \A m \in 0..n : m \in T
    BY <1>1, <2>1, <2>2, Climb
  <2>4. n \in T
    BY <1>1, <2>3
  <2> QED
    BY <1>1, <2>4 DEF T
<1>5. ASSUME NEW k \in 1..n, c[k].chapter > 0, c[k].book > seen[k - 1].book, seen[k - 1].highest > 0,
             c[k].chapter <= seen[k - 1].highest
      PROVE  FALSE
  <2>1. c[k].chapter # 0 /\ k \in 0..n
    BY <1>1, <1>5
  <2>2. seen[k].restarts
    BY <1>5, <2>1, Zenon DEF Scanned
  <2> QED
    BY <1>4, <2>1, <2>2
<1>6. \A k \in 1..n : k - 1 \in 0..n
  BY <1>1
<1> QED
  BY <1>1, <1>2, <1>5, <1>6

(* What the scan holds are books and numbers it passed.                    *)
LEMMA ScanPassed ==
  ASSUME NEW c, NEW n, Coordinated(c, n), NEW seen, Scanned(seen, c, n)
  PROVE  \A k \in 0..n :
           /\ seen[k].book = 0 \/ \E i \in 1..k : c[i].chapter > 0 /\ c[i].book = seen[k].book
           /\ \A i \in 1..k : c[i].chapter <= seen[k].highest
<1> DEFINE Known(k) == /\ seen[k].book = 0 \/ \E i \in 1..k : c[i].chapter > 0 /\ c[i].book = seen[k].book
                       /\ \A i \in 1..k : c[i].chapter <= seen[k].highest
           T == {k \in 0..n : Known(k)}
<1>1. n \in Nat /\ \A i \in 1..n : c[i].chapter \in Nat /\ c[i].book \in Nat
  BY DEF Coordinated, Placed
<1>2. \A k \in 0..n : seen[k].book \in Nat /\ seen[k].highest \in Nat
  BY DEF Scanned
<1>3. 0 \in T
  BY <1>1 DEF Scanned
<1>4. ASSUME NEW k \in 1..n, Known(k - 1) PROVE Known(k)
  <2>1. /\ k \in 0..n /\ k - 1 \in 0..n /\ k \in 1..k /\ k \in Nat
        /\ \A i \in 1..k : i \in 1..n /\ (i = k \/ i \in 1..(k - 1))
        /\ \A i \in 1..(k - 1) : i \in 1..k
    BY <1>1
  <2>2. CASE c[k].chapter = 0
    <3>1. seen[k] = seen[k - 1]
      BY <2>2 DEF Scanned
    <3>2. \A i \in 1..k : c[i].chapter <= seen[k].highest
      BY <1>1, <1>2, <1>4, <2>1, <2>2, <3>1
    <3> QED
      BY <1>4, <2>1, <3>1, <3>2
  <2>3. CASE c[k].chapter # 0
    <3>1. seen[k].book = Larger(c[k].book, seen[k - 1].book) /\ seen[k].highest = Larger(c[k].chapter, seen[k - 1].highest)
      BY <2>3 DEF Scanned
    <3>2. \A i, j \in Nat : Larger(i, j) \in {i, j} /\ i <= Larger(i, j) /\ j <= Larger(i, j)
      BY DEF Larger
    <3>3. /\ c[k].chapter \in Nat /\ c[k].book \in Nat /\ c[k].chapter > 0
          /\ seen[k - 1].book \in Nat /\ seen[k - 1].highest \in Nat /\ seen[k].highest \in Nat
      BY <1>1, <1>2, <2>1, <2>3
    <3>4. /\ seen[k].book \in {c[k].book, seen[k - 1].book}
          /\ c[k].chapter <= seen[k].highest /\ seen[k - 1].highest <= seen[k].highest
      BY <3>1, <3>2, <3>3
    <3>5. ASSUME NEW i \in 1..k PROVE c[i].chapter <= seen[k].highest
      <4>1. CASE i = k
        BY <3>4, <4>1
      <4>2. CASE i # k
        <5>1. c[i].chapter \in Nat /\ c[i].chapter <= seen[k - 1].highest
          BY <1>1, <1>4, <2>1, <4>2
        <5> QED
          BY <3>3, <3>4, <5>1
      <4> QED
        BY <4>1, <4>2
    <3>6. seen[k].book = 0 \/ \E i \in 1..k : c[i].chapter > 0 /\ c[i].book = seen[k].book
      BY <1>4, <2>1, <3>3, <3>4
    <3> QED
      BY <3>5, <3>6
  <2> QED
    BY <2>2, <2>3
<1>5. \A k \in 1..n : k - 1 \in T => k \in T
  <2> HIDE DEF Known
  <2> QED
    BY <1>1, <1>4
<1>6. \A k \in 0..n : k \in T
  <2> HIDE DEF T
  <2> QED
    BY <1>1, <1>3, <1>5, Climb
<1> QED
  BY <1>6

(* A number of a later chapter is not before one of an earlier chapter.    *)
LEMMA EarlierChapters ==
  ASSUME NEW c, NEW d, Placed(c), Placed(d), c.chapter < d.chapter
  PROVE  ~Before(Number(d), Number(c))
<1>1. PICK p \in Int : Number(c) = <<c.chapter, p>>
  BY NumbersTyped
<1>2. PICK q \in Int : Number(d) = <<d.chapter, q>>
  BY NumbersTyped
<1>3. c.chapter \in Nat /\ d.chapter \in Nat
  BY DEF Placed
<1>4. \A m, n \in Nat, r, s \in Int : m < n => ~Before(<<n, s>>, <<m, r>>)
  BY DEF Before
<1> QED
  BY <1>1, <1>2, <1>3, <1>4

LEMMA NumbersGrow ==
  ASSUME NEW c, NEW n, Coordinated(c, n), ~RestartsPerBook(c),
         InBooks(BookAt(c), c, n), BooksOpened(BookAt(c), c, n)
  PROVE  \A i, j \in 1..n : i < j /\ c[i].chapter > 0 /\ c[j].chapter > 0 =>
           ~Before(Number(c[j]), Number(c[i]))
<1>1. PICK seen : Scanned(seen, c, n) /\ ~seen[n].restarts /\ \A i \in 1..n : ~c[i].dotted
  BY SeriesScanned
<1>2. PICK b \in [0..n -> Nat] :
        /\ b = BookAt(c) /\ b[0] = 1
        /\ \A k \in 1..n : b[k] = IF c[k].dotted \/ c[k].book > 0 THEN c[k].book ELSE b[k - 1]
  BY BooksNamed
<1>3. /\ n \in Nat
      /\ \A i \in 1..n : c[i].chapter \in Nat /\ c[i].book \in Nat /\ c[i].fraction \in Nat
  BY DEF Coordinated, Placed
<1>4. \A i \in 1..n : Numbered(c[i]) <=> c[i].chapter > 0
  BY <1>1 DEF Numbered
<1>5. \A k \in 0..n : b[k] >= 1
  <2> DEFINE T == {k \in 0..n : b[k] >= 1}
  <2>1. 0 \in T
    BY <1>2, <1>3
  <2>2. ASSUME NEW k \in 1..n, k - 1 \in T PROVE k \in T
    <3>1. b[k] = IF c[k].dotted \/ c[k].book > 0 THEN c[k].book ELSE b[k - 1]
      BY <1>2
    <3>2. k \in 0..n /\ ~c[k].dotted
      BY <1>1, <1>3
    <3>3. b[k] = IF c[k].book > 0 THEN c[k].book ELSE b[k - 1]
      BY <3>1, <3>2
    <3> QED
      BY <1>3, <2>2, <3>2, <3>3
  <2> HIDE DEF T
  <2>3. \A k \in 0..n : k \in T
    BY <1>3, <2>1, <2>2, Climb
  <2> QED
    BY <2>3 DEF T
<1>6. SUFFICES ASSUME NEW i \in 1..n, NEW j \in 1..n, i < j, c[i].chapter > 0, c[j].chapter > 0
      PROVE  ~Before(Number(c[j]), Number(c[i]))
  OBVIOUS
<1>7. b[i] <= b[j] /\ b[i] \in Nat /\ b[j] \in Nat /\ b[i] >= 1 /\ i \in 0..n /\ j \in 0..n
  <2>1. i \in 0..n /\ j \in 0..n
    BY <1>3
  <2>2. b[i] <= b[j]
    BY <1>2, <1>6 DEF InBooks
  <2> QED
    BY <1>5, <2>1, <2>2
<1>8. CASE b[i] = b[j]
  BY <1>2, <1>4, <1>6, <1>8 DEF InBooks
<1>9. CASE b[i] # b[j]
  <2> DEFINE openers == {m \in 1..j : c[m].chapter > 0 /\ c[m].book > 0 /\ b[m] = b[j]}
  <2>1. openers # {} /\ openers \subseteq Nat
    <3>1. b[j] # 1
      BY <1>7, <1>9
    <3>2. PICK m \in 1..j : Numbered(c[m]) /\ c[m].book > 0 /\ b[m] = b[j]
      BY <1>2, <1>4, <1>6, <3>1 DEF BooksOpened
    <3>3. m \in 1..n
      BY <1>3
    <3> QED
      BY <1>4, <3>2, <3>3
  <2>2. PICK m \in openers : \A k \in openers : m <= k
    BY <2>1, LeastOf
  <2>3. /\ m \in 1..n /\ m - 1 \in 0..n /\ m <= j /\ c[m].chapter > 0 /\ c[m].book > 0
        /\ b[m] = b[j] /\ c[m].book = b[m]
    BY <1>2, <1>3, <2>2
  <2>4. i < m
    <3>1. CASE m < i
      <4>1. b[m] <= b[i]
        BY <1>2, <2>3, <3>1 DEF InBooks
      <4> QED
        BY <1>7, <1>9, <2>3, <4>1
    <3> QED
      BY <1>9, <2>3, <3>1
  <2>5. seen[m - 1].book \in Nat /\ seen[m - 1].highest \in Nat
    BY <1>1, <2>3 DEF Scanned
  <2>6. c[m].book > seen[m - 1].book
    <3>1. CASE seen[m - 1].book = 0
      BY <1>3, <2>3, <3>1
    <3>2. CASE seen[m - 1].book # 0
      <4>1. PICK k \in 1..(m - 1) : c[k].chapter > 0 /\ c[k].book = seen[m - 1].book
        BY <1>1, <2>3, <3>2, ScanPassed
      <4>2. k \in 1..n /\ k < m /\ k \in 1..j /\ c[k].book > 0 /\ c[k].book = b[k]
        BY <1>2, <1>3, <2>3, <2>5, <3>2, <4>1
      <4>3. b[k] <= b[m]
        BY <1>2, <2>3, <4>2 DEF InBooks
      <4>4. b[k] # b[m]
        BY <2>2, <2>3, <4>1, <4>2
      <4> QED
        BY <1>3, <2>3, <4>1, <4>2, <4>3, <4>4
    <3> QED
      BY <3>1, <3>2
  <2>7. c[i].chapter <= seen[m - 1].highest
    <3>1. i \in 1..(m - 1)
      BY <2>3, <2>4
    <3> QED
      BY <1>1, <2>3, <3>1, ScanPassed
  <2>8. c[m].chapter > seen[m - 1].highest
    <3>1. seen[m - 1].highest > 0
      BY <1>3, <1>6, <2>5, <2>7
    <3> QED
      BY <1>1, <2>3, <2>6, <3>1, ScanRises
  <2>9. c[m].chapter <= c[j].chapter
    <3>1. CASE m = j
      BY <1>3, <3>1
    <3>2. CASE m # j
      <4>1. m < j
        BY <1>3, <2>3, <3>2
      <4>2. ~Before(Number(c[j]), Number(c[m]))
        BY <1>2, <1>4, <1>6, <2>3, <4>1 DEF InBooks
      <4>3. Placed(c[m]) /\ Placed(c[j])
        BY <2>3 DEF Coordinated
      <4> QED
        BY <4>2, <4>3, ChaptersFollow
    <3> QED
      BY <3>1, <3>2
  <2>10. c[i].chapter < c[j].chapter
    BY <1>3, <2>3, <2>5, <2>7, <2>8, <2>9
  <2>11. Placed(c[i]) /\ Placed(c[j])
    BY DEF Coordinated
  <2> QED
    BY <1>3, <2>10, <2>11, EarlierChapters
<1> QED
  BY <1>8, <1>9

LEMMA NumbersOnward ==
  ASSUME NEW at, NEW c, NEW n, Coordinated(c, n), LabelledBy(at, "chapter", FALSE, c, n),
         \A i, j \in 1..n : i < j /\ c[i].chapter > 0 /\ c[j].chapter > 0 =>
           ~Before(Number(c[j]), Number(c[i]))
  PROVE  Onward(at, n)
<1> DEFINE own(i) == Number(c[i])
           Known(k) == \/ k = 0 /\ at[k].last = NoLabel
                       \/ at[k].last = Whole(0)
                       \/ \E i \in 1..k : c[i].chapter > 0 /\ at[k].last = own(i)
           T == {k \in 0..n : Known(k)}
<1>1. n \in Nat /\ \A i \in 1..n : c[i].chapter \in Nat /\ c[i].fraction \in Nat
  BY DEF Coordinated, Placed
<1>2. \A i \in 1..n : c[i].half => c[i].chapter > 0
  BY DEF Coordinated, Placed
<1>3. at[0].last = NoLabel
  BY DEF LabelledBy
<1>4. \A i \in 1..n : own(i) # NoLabel
  <2>1. \A p \in Nat, q \in Int : <<p, q>> # <<-1, -1>>
    OBVIOUS
  <2>2. ASSUME NEW i \in 1..n PROVE own(i) # NoLabel
    <3>1. \E q \in Int : own(i) = <<c[i].chapter, q>>
      BY NumbersTyped DEF Coordinated
    <3> HIDE DEF own
    <3> QED
      BY <1>1, <2>1, <3>1 DEF NoLabel
  <2> QED
    BY <2>2
<1>5. ASSUME NEW k \in 1..n, c[k].chapter > 0 PROVE ~Before(own(k), Whole(0))
  <2>1. \E q \in Int : own(k) = <<c[k].chapter, q>>
    BY NumbersTyped DEF Coordinated
  <2>2. \A p \in Nat, q \in Int : p > 0 => ~Before(<<p, q>>, <<0, -1>>)
    BY DEF Before
  <2> HIDE DEF own
  <2> QED
    BY <1>1, <1>5, <2>1, <2>2 DEF Whole
<1>6. ASSUME NEW i \in 1..n, NEW k \in 1..n, i < k, c[i].chapter > 0, c[k].chapter > 0
      PROVE  ~Before(own(k), own(i))
  BY <1>6
<1> HIDE DEF own
<1>7. ASSUME NEW k \in 1..n, Known(k - 1)
      PROVE  Known(k) /\ (k > 1 => ~Before(at[k].last, at[k - 1].last))
  <2>1. PICK label \in Int \X Int :
          /\ at[k].last = IF label # NoLabel THEN label
                          ELSE IF at[k - 1].last # NoLabel THEN at[k - 1].last ELSE Whole(0)
          /\ label = IF c[k].chapter > 0 THEN own(k) ELSE NoLabel
          /\ at[k - 1].last \in Int \X Int
    <3> HIDE DEF Known, T
    <3>1. PICK no : no = FALSE
      OBVIOUS
    <3>2. LabelledBy(at, "chapter", no, c, n)
      BY <3>1
    <3>3. PICK label \in Int \X Int :
          /\ label = LabelOf("chapter", no, at[k - 1], c[k])
          /\ at[k].last = IF label # NoLabel THEN label
                          ELSE IF at[k - 1].last # NoLabel THEN at[k - 1].last ELSE Whole(0)
          /\ at[k - 1].last \in Int \X Int
      BY <3>2, LabelledNext
    <3>4. LabelOf("chapter", no, at[k - 1], c[k]) = IF c[k].chapter > 0 THEN own(k) ELSE NoLabel
      BY <1>2, <3>1 DEF LabelOf, own, Number
    <3> QED
      BY <3>3, <3>4
  <2>2. k \in Nat /\ k # 0 /\ k \in 1..k
    BY <1>1
  <2>3. \A p \in Int \X Int : ~Before(p, p)
    BY DEF Before
  <2>4. Whole(0) # NoLabel
    BY DEF Whole, NoLabel
  <2>5. \A i \in 1..(k - 1) : i \in 1..k /\ i \in 1..n /\ i < k
    BY <1>1, <2>2
  <2>6. CASE c[k].chapter > 0
    <3>1. at[k].last = own(k)
      BY <1>4, <2>1, <2>6
    <3>2. Known(k)
      BY <2>2, <2>6, <3>1
    <3>3. ASSUME k > 1 PROVE ~Before(at[k].last, at[k - 1].last)
      <4>1. k - 1 # 0
        BY <2>2, <3>3
      <4>2. CASE at[k - 1].last = Whole(0)
        BY <1>5, <2>6, <3>1, <4>2
      <4>3. ASSUME NEW i \in 1..(k - 1), c[i].chapter > 0, at[k - 1].last = own(i)
            PROVE  ~Before(at[k].last, at[k - 1].last)
        BY <1>6, <2>5, <2>6, <3>1, <4>3
      <4> QED
        BY <1>7, <4>1, <4>2, <4>3
    <3> QED
      BY <3>2, <3>3
  <2>7. CASE ~(c[k].chapter > 0)
    <3>1. at[k].last = IF at[k - 1].last # NoLabel THEN at[k - 1].last ELSE Whole(0)
      BY <2>1, <2>7
    <3>2. Known(k)
      BY <1>7, <2>4, <2>5, <3>1
    <3>3. ASSUME k > 1 PROVE at[k - 1].last # NoLabel
      BY <1>4, <1>7, <2>2, <2>4, <2>5, <3>3
    <3>4. k > 1 => ~Before(at[k].last, at[k - 1].last)
      BY <2>1, <2>3, <3>1, <3>3
    <3> QED
      BY <3>2, <3>4
  <2> QED
    BY <2>6, <2>7
<1>8. \A k \in 0..n : Known(k)
  <2>1. 0 \in T
    BY <1>1, <1>3
  <2>2. \A k \in 1..n : k - 1 \in T => k \in T
    <3> HIDE DEF Known
    <3> QED
      BY <1>1, <1>7
  <2> HIDE DEF T
  <2>3. \A k \in 0..n : k \in T
    BY <1>1, <2>1, <2>2, Climb
  <2> QED
    BY <2>3 DEF T
<1> HIDE DEF Known
<1>9. ASSUME NEW k \in 2..n PROVE ~Before(at[k].last, at[k - 1].last)
  <2>1. k \in 1..n /\ k - 1 \in 0..n /\ k > 1
    BY <1>1
  <2> QED
    BY <1>7, <1>8, <2>1
<1> QED
  BY <1>9 DEF Onward

\* A series told in order is read in order.
LEMMA SeriesReads ==
  ASSUME NEW s \in Seq(Release), NEW c, c = CoordinatesOf(s),
         InAuthorOrder(c), NumbersOpenBooks(c), PartsInOrder(c)
  PROVE  Readable(s)
<1> DEFINE n == Len(s)
<1>1. Coordinated(c, n)
  BY SeriesCoordinated
<1>2. n \in Nat /\ Len(c) = n
  BY <1>1 DEF Coordinated
<1> HIDE DEF n
<1>3. PICK at, mode, perBook :
        /\ LabelledBy(at, mode, perBook, c, n)
        /\ mode = Mode(c) /\ perBook = (mode = "chapter" /\ RestartsPerBook(c))
        /\ SeriesIndexes(s) = [i \in 1..n |-> at[i].last]
  BY <1>1, SeriesLabelled DEF n
<1>4. InBooks(BookAt(c), c, n)
  BY <1>2 DEF InAuthorOrder, InBooks
<1>5. Onward(at, n)
  <2>1. CASE mode = "ordinal"
    BY <1>1, <1>3, <2>1, OrdinalsOnward
  <2>2. CASE mode = "part"
    <3>1. \A i, j \in 1..n : i < j /\ c[i].part > 0 /\ c[j].part > 0 => c[i].part <= c[j].part
      BY <1>2, <1>3, <2>2 DEF PartsInOrder
    <3> QED
      BY <1>1, <1>3, <2>2, <3>1, PartsOnward
  <2>3. CASE mode = "chapter" /\ RestartsPerBook(c)
    <3>1. perBook = TRUE
      BY <1>3, <2>3
    <3>2. LabelledBy(at, "chapter", TRUE, c, n)
      BY <1>3, <2>3, <3>1
    <3> QED
      BY <1>1, <1>4, <3>2, BooksOnward
  <2>4. CASE mode = "chapter" /\ ~RestartsPerBook(c)
    <3>1. perBook = FALSE
      BY <1>3, <2>4
    <3>2. LabelledBy(at, "chapter", FALSE, c, n)
      BY <1>3, <2>4, <3>1
    <3>3. BooksOpened(BookAt(c), c, n)
      BY <1>2 DEF NumbersOpenBooks, BooksOpened
    <3> QED
      BY <1>1, <1>4, <2>4, <3>2, <3>3, NumbersGrow, NumbersOnward
  <2>5. mode \in {"chapter", "part", "ordinal"}
    BY <1>3 DEF Mode
  <2> QED
    BY <2>1, <2>2, <2>3, <2>4, <2>5
<1>6. \A i, j \in 1..n : i < j => ~Before(at[j].last, at[i].last)
  BY <1>2, <1>3, <1>5, OnwardReads DEF LabelledBy
<1>7. Len(s) = n
  BY DEF n
<1> QED
  BY <1>3, <1>6, <1>7 DEF Readable

(* The position of book k's first chapter, of what is known for the one    *)
(* before it.                                                              *)
OffsetOf(b, v, k) ==
    IF b[k].start > 0 THEN b[k].start
    ELSE IF b[k].first > 1 THEN b[k].first
    ELSE IF k = 1 THEN IF b[1].number = 1 THEN 1 ELSE 0
    ELSE IF b[k].number = b[k - 1].number + 1 /\ b[k - 1].last >= b[k - 1].first /\ v # 0
      THEN v + b[k - 1].last - b[k - 1].first + 1
    ELSE 0

LEMMA BooksTyped ==
  ASSUME NEW b \in Seq(Declaration), NEW k \in 1..Len(b)
  PROVE  /\ b[k].number \in Nat /\ b[k].first \in Nat /\ b[k].first # 0
         /\ b[k].last \in Nat /\ b[k].start \in Nat
<1>1. b[k] \in Declaration
  OBVIOUS
<1>2. \A d \in Declaration : /\ d.number \in Nat /\ d.first \in Nat /\ d.first # 0
                             /\ d.last \in Nat /\ d.start \in Nat
  BY DEF Declaration
<1> QED
  BY <1>1, <1>2

LEMMA OffsetsFound ==
  ASSUME NEW b \in Seq(Declaration), NEW n, n = Len(b)
  PROVE  \E off \in [1..n -> Nat] :
           off = Offsets(b) /\ \A k \in 1..n : off[k] = OffsetOf(b, off[k - 1], k)
<1> DEFINE Body(f, k) ==
             LET book == b[k]
                 open == k > 1 /\ b[k - 1].last < b[k - 1].first
                 follows == IF k = 1 THEN book.number = 1 ELSE book.number = b[k - 1].number + 1
                 nxt == IF k = 1 THEN 1
                        ELSE IF open \/ f[k - 1] = 0 THEN 0
                        ELSE f[k - 1] + b[k - 1].last - b[k - 1].first + 1
             IN IF book.start > 0 THEN book.start
                ELSE IF book.first > 1 THEN book.first
                ELSE IF follows THEN nxt ELSE 0
           Step(f) == [k \in 1..n |-> Body(f, k)]
           next == [p \in (1..n) \X Nat |-> OffsetOf(b, p[2], p[1])]
           off == CHOOSE f : f = Step(f)
<1>1. n \in Nat
  OBVIOUS
<1>2. \A k \in 1..n : /\ b[k].number \in Nat /\ b[k].first \in Nat
                      /\ b[k].last \in Nat /\ b[k].start \in Nat
  BY BooksTyped
<1>3. \A k \in 1..n : k # 1 => k - 1 \in 1..n
  BY <1>1
<1>4. Offsets(b) = off
  BY DEF Offsets
<1>5. ASSUME NEW f, NEW k \in 1..n PROVE Body(f, k) = OffsetOf(b, f[k - 1], k)
  <2>1. k = 1 \/ k > 1
    BY <1>1
  <2>2. k # 1 => b[k - 1].last \in Nat /\ b[k - 1].first \in Nat
    BY <1>2, <1>3
  <2>3. k # 1 => (b[k - 1].last >= b[k - 1].first <=> ~(b[k - 1].last < b[k - 1].first))
    BY <2>2
  <2>4. CASE k = 1
    BY <2>4 DEF OffsetOf
  <2>5. CASE k > 1
    <3>1. k # 1
      BY <2>5
    <3> QED
      BY <2>3, <2>5, <3>1 DEF OffsetOf
  <2> QED
    BY <2>1, <2>4, <2>5
<1> HIDE DEF Body
<1>6. ASSUME NEW k \in 1..n, NEW v \in Nat PROVE OffsetOf(b, v, k) \in Nat
  <2>1. CASE k = 1
    BY <1>2, <2>1 DEF OffsetOf
  <2>2. CASE k # 1
    <3>1. b[k - 1].last \in Nat /\ b[k - 1].first \in Nat
      BY <1>2, <1>3, <2>2
    <3>2. b[k].start \in Nat /\ b[k].first \in Nat
      BY <1>2
    <3> QED
      BY <2>2, <3>1, <3>2 DEF OffsetOf
  <2> QED
    BY <2>1, <2>2
<1>7. \A k \in 1..n, v \in Nat : next[<<k, v>>] = OffsetOf(b, v, k)
  OBVIOUS
<1> HIDE DEF next
<1>8. PICK f \in [0..n -> Nat] : \A k \in 1..n : f[k] = next[<<k, f[k - 1]>>]
  <2>1. Stepping(n, Nat, next)
    BY <1>6, <1>7 DEF Stepping
  <2>2. PICK f : Reaches(f, n, Nat, 0, next)
    BY <1>1, <2>1, Recursion
  <2> QED
    BY <2>2 DEF Reaches
<1>9. \A k \in 1..n : f[k] = OffsetOf(b, f[k - 1], k)
  <2>1. \A k \in 1..n : k - 1 \in 0..n /\ f[k - 1] \in Nat
    BY <1>1
  <2> QED
    BY <1>7, <1>8, <2>1
<1>10. \A v, w : OffsetOf(b, v, 1) = OffsetOf(b, w, 1)
  BY DEF OffsetOf
<1>11. off = Step(off)
  <2> DEFINE g == [k \in 1..n |-> f[k]]
  <2>1. ASSUME NEW k \in 1..n PROVE g[k] = OffsetOf(b, g[k - 1], k)
    <3>1. CASE k = 1
      BY <1>9, <1>10, <3>1
    <3>2. CASE k # 1
      BY <1>3, <1>9, <3>2
    <3> QED
      BY <3>1, <3>2
  <2>2. g = [k \in 1..n |-> g[k]]
    OBVIOUS
  <2> HIDE DEF g
  <2>3. g = Step(g)
    BY <1>5, <2>1, <2>2
  <2> HIDE DEF Step
  <2> QED
    BY <2>3
<1> HIDE DEF off
<1>12. DOMAIN off = 1..n /\ \A k \in 1..n : off[k] = OffsetOf(b, off[k - 1], k)
  BY <1>11, <1>5
<1>13. \A k \in 0..n : k = 0 \/ off[k] \in Nat
  <2> DEFINE T == {k \in 0..n : k = 0 \/ off[k] \in Nat}
  <2>1. 0 \in T
    BY <1>1
  <2>2. ASSUME NEW k \in 1..n, k - 1 \in T PROVE k \in T
    <3>1. CASE k = 1
      <4>1. off[1] = OffsetOf(b, 0, 1)
        BY <1>10, <1>12, <3>1
      <4> QED
        BY <1>1, <1>6, <3>1, <4>1
    <3>2. CASE k # 1
      <4>1. off[k - 1] \in Nat
        BY <2>2, <3>2
      <4>2. OffsetOf(b, off[k - 1], k) \in Nat
        BY <1>6, <4>1
      <4>3. off[k] \in Nat /\ k \in 0..n
        BY <1>1, <1>12, <4>2
      <4> QED
        BY <4>3
    <3> QED
      BY <3>1, <3>2
  <2> HIDE DEF T
  <2>3. \A k \in 0..n : k \in T
    BY <1>1, <2>1, <2>2, Climb
  <2> QED
    BY <2>3 DEF T
<1>14. off \in [1..n -> Nat]
  <2>1. off = [k \in 1..n |-> off[k]]
    BY <1>11
  <2>2. \A k \in 1..n : off[k] \in Nat
    BY <1>1, <1>13
  <2> QED
    BY <2>1, <2>2
<1> QED
  BY <1>4, <1>12, <1>14

(* A chapter of an earlier book that no later book claims lies before      *)
(* every later book.                                                       *)
LEMMA BooksApart ==
  ASSUME NEW b \in Seq(Declaration), NEW n, n = Len(b), NEW off \in [1..n -> Nat],
         \A k \in 1..n : off[k] = OffsetOf(b, off[k - 1], k),
         NEW i \in 1..n, NEW chapter \in Nat, off[i] > 0,
         b[i].last > 0 => chapter <= b[i].last,
         NEW p \in Nat, p = off[i] + chapter - b[i].first, \A s \in LaterStarts(b, i) : p < s
  PROVE  \A j \in 1..n : i < j /\ off[j] > 0 => p < off[j]
<1>1. n \in Nat
  OBVIOUS
<1>2. \A k \in 1..n : /\ b[k].number \in Nat /\ b[k].first \in Nat /\ b[k].first # 0
                      /\ b[k].last \in Nat /\ b[k].start \in Nat
  BY BooksTyped
<1>3. ASSUME NEW j \in 1..n, i < j, b[j].start > 0 \/ b[j].first > 1 PROVE p < off[j]
  <2>1. j \in (i + 1)..Len(b)
    BY <1>1, <1>3
  <2>2. off[j] = IF b[j].start = 0 /\ b[j].first > 1 THEN b[j].first ELSE b[j].start
    <3>1. off[j] = OffsetOf(b, off[j - 1], j)
      OBVIOUS
    <3>2. b[j].start \in Nat /\ b[j].first \in Nat
      BY <1>2
    <3>3. CASE b[j].start > 0
      BY <3>1, <3>2, <3>3 DEF OffsetOf
    <3>4. CASE ~(b[j].start > 0)
      <4>1. b[j].start = 0 /\ b[j].first > 1
        BY <1>3, <3>2, <3>4
      <4> QED
        BY <3>1, <4>1 DEF OffsetOf
    <3> QED
      BY <3>3, <3>4
  <2>3. off[j] > 0
    BY <1>2, <1>3, <2>2
  <2> QED
    BY <2>1, <2>2, <2>3 DEF LaterStarts
<1> DEFINE T == {j \in 0..n : i < j /\ off[j] > 0 => p < off[j]}
<1>4. 0 \in T
  BY <1>1
<1>5. ASSUME NEW j \in 1..n, j - 1 \in T PROVE j \in T
  <2>1. SUFFICES ASSUME i < j, off[j] > 0, ~(b[j].start > 0 \/ b[j].first > 1) PROVE p < off[j]
    BY <1>1, <1>3
  <2>2. j # 1 /\ j - 1 \in 1..n /\ (i < j - 1 \/ i = j - 1)
    BY <1>1, <2>1
  <2>3. /\ b[j - 1].last >= b[j - 1].first /\ off[j - 1] # 0
        /\ off[j] = off[j - 1] + b[j - 1].last - b[j - 1].first + 1
    BY <2>1, <2>2 DEF OffsetOf
  <2>4. off[j - 1] \in Nat /\ off[j] \in Nat /\ b[j - 1].last \in Nat /\ b[j - 1].first \in Nat
    BY <1>2, <2>2
  <2>5. CASE i < j - 1
    <3>1. p < off[j - 1]
      BY <1>5, <2>3, <2>4, <2>5
    <3>2. \A o, l, f \in Nat : l >= f => o < o + l - f + 1
      OBVIOUS
    <3>3. off[j - 1] < off[j]
      BY <2>3, <2>4, <3>2
    <3> QED
      BY <2>4, <3>1, <3>3
  <2>6. CASE i = j - 1
    <3>1. b[j - 1].last > 0
      BY <1>2, <2>2, <2>3, <2>4
    <3>2. chapter <= b[j - 1].last /\ p = off[j - 1] + chapter - b[j - 1].first
      BY <2>6, <3>1
    <3>3. \A o, l, f \in Nat : o + chapter - f < o + l - f + 1 <=> chapter <= l
      OBVIOUS
    <3> QED
      BY <2>3, <2>4, <3>2, <3>3
  <2> QED
    BY <2>2, <2>5, <2>6
<1>6. \A j \in 0..n : j \in T
  <2> HIDE DEF T
  <2> QED
    BY <1>1, <1>4, <1>5, Climb
<1> QED
  BY <1>1, <1>6

(* Where a chapter with a position lies.                                   *)
LiesIn(b, off, d, p, i) ==
    /\ i \in 1..Len(b) /\ b[i].number = d.book /\ b[i].first <= d.chapter
    /\ b[i].last > 0 => d.chapter <= b[i].last
    /\ off[i] > 0 /\ p = off[i] + d.chapter - b[i].first
    /\ \A s \in LaterStarts(b, i) : p < s

LEMMA PositionLies ==
  ASSUME NEW b \in Seq(Declaration), NEW d \in Text, d.book > 0, Position(b, d) > 0
  PROVE  \E i : LiesIn(b, Offsets(b), d, Position(b, d), i)
<1>1. d.book \in Nat /\ d.book # 0 /\ d.chapter \in Nat
  BY DEF Text
<1>2. PICK i : i = CHOOSE k \in 1..Len(b) : b[k].number = d.book
  OBVIOUS
<1>3. CASE ~\E k \in 1..Len(b) : b[k].number = d.book
  <2>1. Position(b, d) = 0
    BY <1>1, <1>3 DEF Position
  <2> QED
    BY <2>1
<1>4. CASE \E k \in 1..Len(b) : b[k].number = d.book
  <2>1. i \in 1..Len(b) /\ b[i].number = d.book
    BY <1>2, <1>4
  <2>2. b[i].first \in Nat /\ b[i].last \in Nat
    BY <2>1, BooksTyped
  <2> DEFINE at == Offsets(b)[i] + d.chapter - b[i].first
             found == /\ d.chapter >= b[i].first /\ (b[i].last > 0 => d.chapter <= b[i].last)
                      /\ d.label = "none" /\ d.part = 0 /\ Offsets(b)[i] > 0
                      /\ \A s \in LaterStarts(b, i) : at < s
  <2>3. Position(b, d) = IF found THEN at ELSE 0
    <3>1. Position(b, d) =
            LET n == CHOOSE k \in 1..Len(b) : b[k].number = d.book
                inside == d.chapter >= b[n].first /\ (b[n].last > 0 => d.chapter <= b[n].last)
                to == Offsets(b)[n] + d.chapter - b[n].first
            IN IF /\ inside /\ d.label = "none" /\ d.part = 0 /\ Offsets(b)[n] > 0
                  /\ \A s \in LaterStarts(b, n) : to < s
               THEN to ELSE 0
      BY <1>1, <1>4 DEF Position
    <3> QED
      BY <1>2, <3>1
  <2>4. found /\ Position(b, d) = at
    <3> HIDE DEF found, at
    <3> QED
      BY <2>3
  <2> QED
    BY <2>1, <2>2, <2>4, <1>1 DEF LiesIn
<1> QED
  BY <1>3, <1>4

LEMMA PositionsRise ==
  ASSUME NEW b \in Seq(Declaration), ValidTable(b),
         NEW d \in Text, NEW e \in Text, d.book > 0, e.book > 0,
         NEW p, NEW q, p = Position(b, d), q = Position(b, e), p > 0, q > 0
  PROVE  Before(<<d.book, d.chapter>>, <<e.book, e.chapter>>) <=> p < q
<1> DEFINE n == Len(b)
<1>1. n \in Nat
  OBVIOUS
<1>2. PICK off \in [1..n -> Nat] :
        off = Offsets(b) /\ \A k \in 1..n : off[k] = OffsetOf(b, off[k - 1], k)
  BY OffsetsFound
<1>3. PICK i : LiesIn(b, off, d, p, i)
  BY <1>2, PositionLies
<1>4. PICK j : LiesIn(b, off, e, q, j)
  BY <1>2, PositionLies
<1>5. /\ d.book \in Nat /\ d.chapter \in Nat /\ e.book \in Nat /\ e.chapter \in Nat
      /\ d.book = b[i].number /\ e.book = b[j].number
  BY <1>3, <1>4 DEF Text, LiesIn
<1>6. /\ i \in 1..n /\ j \in 1..n /\ off[i] \in Nat /\ off[j] \in Nat
      /\ b[i].first \in Nat /\ b[j].first \in Nat
  BY <1>3, <1>4, BooksTyped DEF LiesIn
<1>7. /\ b[i].first <= d.chapter /\ off[i] > 0 /\ p = off[i] + d.chapter - b[i].first
      /\ b[j].first <= e.chapter /\ off[j] > 0 /\ q = off[j] + e.chapter - b[j].first
  BY <1>3, <1>4 DEF LiesIn
<1>8. p \in Nat /\ q \in Nat /\ off[i] <= p /\ off[j] <= q
  <2>1. ASSUME NEW o \in Nat, NEW c \in Nat, NEW f \in Nat, f <= c
        PROVE  o + c - f \in Nat /\ o <= o + c - f
    BY <2>1
  <2>2. p \in Nat /\ off[i] <= p
    <3>1. off[i] + d.chapter - b[i].first \in Nat /\ off[i] <= off[i] + d.chapter - b[i].first
      BY <1>5, <1>6, <1>7, <2>1
    <3> QED
      BY <1>7, <3>1
  <2>3. q \in Nat /\ off[j] <= q
    <3>1. off[j] + e.chapter - b[j].first \in Nat /\ off[j] <= off[j] + e.chapter - b[j].first
      BY <1>5, <1>6, <1>7, <2>1
    <3> QED
      BY <1>7, <3>1
  <2> QED
    BY <2>2, <2>3
<1>9. \A k, m \in 1..n : k < m => b[k].number < b[m].number
  BY DEF ValidTable
<1>10. CASE i < j
  <2>1. p < off[j]
    <3>1. /\ b[i].last > 0 => d.chapter <= b[i].last
          /\ \A s \in LaterStarts(b, i) : p < s
      BY <1>3 DEF LiesIn
    <3> QED
      BY <1>2, <1>5, <1>6, <1>7, <1>8, <1>10, <3>1, BooksApart
  <2>2. p < q
    BY <1>6, <1>8, <2>1
  <2>3. d.book < e.book
    BY <1>5, <1>6, <1>9, <1>10
  <2> QED
    BY <1>5, <2>2, <2>3 DEF Before
<1>11. CASE i = j
  <2>1. d.book = e.book
    BY <1>5, <1>11
  <2>2. p < q <=> d.chapter < e.chapter
    <3>1. \A o, f, x, y \in Nat : o + x - f < o + y - f <=> x < y
      OBVIOUS
    <3> QED
      BY <1>5, <1>6, <1>7, <1>11, <3>1
  <2> QED
    BY <1>5, <2>1, <2>2 DEF Before
<1>12. CASE i > j
  <2>1. q < off[i]
    <3>1. /\ b[j].last > 0 => e.chapter <= b[j].last
          /\ \A s \in LaterStarts(b, j) : q < s
      BY <1>4 DEF LiesIn
    <3>2. j < i
      BY <1>6, <1>12
    <3> QED
      BY <1>2, <1>5, <1>6, <1>7, <1>8, <3>1, <3>2, BooksApart
  <2>2. q < p
    BY <1>6, <1>8, <2>1
  <2>3. e.book < d.book
    BY <1>5, <1>6, <1>9, <1>12
  <2> QED
    BY <1>5, <1>8, <2>2, <2>3 DEF Before
<1> QED
  BY <1>6, <1>10, <1>11, <1>12

(* A series is of releases, its table one that configuration loading       *)
(* accepts.                                                                *)
SeriesTyped == table \in Seq(Declaration) /\ ValidTable(table) /\ series \in Seq(Release)

LEMMA SeriesStays == SeriesTyped /\ [Next]_vars => SeriesTyped'
<1>1. ASSUME SeriesTyped, Publish PROVE SeriesTyped'
  <2>1. PICK i \in 1..(Len(series) + 1), r \in Release : series' = InsertAt(series, i, r)
    BY <1>1 DEF Publish
  <2>2. series \in Seq(Release) /\ Len(series) \in Nat /\ i - 1 \in 0..Len(series)
    BY <1>1 DEF SeriesTyped
  <2>3. SubSeq(series, 1, i - 1) \in Seq(Release) /\ SubSeq(series, i, Len(series)) \in Seq(Release)
    BY <2>2
  <2>4. series' = SubSeq(series, 1, i - 1) \o <<r>> \o SubSeq(series, i, Len(series))
    BY <2>1 DEF InsertAt
  <2>5. <<r>> \in Seq(Release)
    OBVIOUS
  <2>6. series' \in Seq(Release)
    BY <2>3, <2>4, <2>5
  <2> QED
    BY <1>1, <2>6 DEF SeriesTyped, Publish
<1>2. ASSUME SeriesTyped, UNCHANGED vars PROVE SeriesTyped'
  BY <1>2 DEF SeriesTyped, vars
<1> QED
  BY <1>1, <1>2 DEF Next

LEMMA SeriesNumbersHold == SeriesTyped => NumbersHold
<1>1. SUFFICES ASSUME SeriesTyped PROVE NumbersHold
  OBVIOUS
<1>2. PositionsFollowBooks
  <2>1. ASSUME NEW i \in 1..Len(series) PROVE Detect(series[i]) \in Text
    <3>1. series[i] \in Release
      BY <1>1 DEF SeriesTyped
    <3>2. series[i].title \in Text /\ series[i].file \in Text
      BY <3>1, NumberingAssumption
    <3> QED
      BY <3>2, DetectTyped
  <2>2. ASSUME NEW i \in 1..Len(series), NEW j \in 1..Len(series)
        PROVE  LET d == Detect(series[i]) e == Detect(series[j])
                   p == Position(table, d) q == Position(table, e)
               IN d.book > 0 /\ e.book > 0 /\ p > 0 /\ q > 0 =>
                    (Before(<<d.book, d.chapter>>, <<e.book, e.chapter>>) <=> p < q)
    <3>1. PICK d \in Text, e \in Text : d = Detect(series[i]) /\ e = Detect(series[j])
      BY <2>1
    <3>2. table \in Seq(Declaration) /\ ValidTable(table)
      BY <1>1 DEF SeriesTyped
    <3>3. d.book > 0 /\ e.book > 0 /\ Position(table, d) > 0 /\ Position(table, e) > 0 =>
            (Before(<<d.book, d.chapter>>, <<e.book, e.chapter>>) <=> Position(table, d) < Position(table, e))
      BY <3>2, PositionsRise
    <3> QED
      BY <3>1, <3>3
  <2> QED
    BY <2>2 DEF PositionsFollowBooks
<1>3. ReadsInOrder
  <2>1. series \in Seq(Release)
    BY <1>1 DEF SeriesTyped
  <2> QED
    BY <2>1, SeriesReads DEF ReadsInOrder
<1> QED
  BY <1>2, <1>3 DEF NumbersHold

(* Numbering!PositionsFollowBooks and ReadsInOrder, for every kind of      *)
(* title, every table of books that is accepted and a series of any        *)
(* length: of two placed chapters the one of the earlier book, or the      *)
(* earlier of a book, has the lower position, and sorting a series told in *)
(* order by its labels keeps the order it was published in.                *)
THEOREM SeriesReadInOrder == Spec => []NumbersHold
<1>1. Init => SeriesTyped
  <2>1. Init => table \in BookTables /\ ValidTable(table) /\ series = <<>>
    BY DEF Init
  <2> QED
    BY <2>1, NumberingAssumption DEF SeriesTyped
<1> QED
  BY <1>1, SeriesStays, SeriesNumbersHold, PTL DEF Spec

==============================================================================
