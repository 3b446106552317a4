------------------------------ MODULE SavedPlan ------------------------------
(***************************************************************************)
(* A plan that is shown, saved to a file and applied later.                *)
(*                                                                         *)
(* alder plan --out and alder project plan --out show a plan, read the     *)
(* state each change expects, plan the result once more and write it;      *)
(* apply --plan reads the file, binds it to the project, plans it as it is *)
(* written and applies it with that plan's tokens.  Every one of these     *)
(* reads one entry at a time.  Meanwhile other people write to the         *)
(* directory, edit the project's files and edit the saved file, and a file *)
(* may be applied by two runs at once.                                     *)
(*                                                                         *)
(* internal/cli savedplan.go and savedplanbind.go over internal/plan; the  *)
(* server's side of an apply is modelled in full in Changeset.             *)
(***************************************************************************)
EXTENDS LiveDirectory, Positions

CONSTANTS
  Inputs,    \* what may be planned: a project's records, or exact changes
  Edits,     \* what somebody may write into the saved file in place of a change
  UniqueId,  \* the attribute a server keeps to name an entry for its whole life
  Ids,       \* bound: the identities a server can hand out, in order
  Runs,      \* applications of the file
  Uncounted  \* an expectation that does not count the entries below

\* What a saved change may expect of its entry.
Expectations == [attrs : UNION {[D -> SUBSET Values] : D \in SUBSET Attrs},
                 exhaustive : BOOLEAN, below : Nat \cup {Uncounted}]

ASSUME SavedPlanConstants ==
  /\ IsFiniteSet(Attrs) /\ UniqueId \in ServerOwned
  /\ RefAttr \notin ServerOwned \cup Sensitive \cup {NamingAttr}
  /\ \A x \in Inputs : /\ x.changes # <<>>
                       /\ {x.changes, x.revised} \subseteq Seq(ChangeRecords)
                       /\ \A i \in DOMAIN x.changes : Valid(x.changes[i])
                       /\ x.project => \A i, j \in DOMAIN x.changes :
                            /\ x.changes[i].type = "add"
                            /\ x.changes[i].dn = x.changes[j].dn => i = j
  /\ \A d \in Starts : WellFormed(d) /\ Tree(d)
  /\ \A e \in Edits : Valid(e.change)
  /\ Ids \in Seq(Values) /\ Uncounted \notin Nat /\ NoExpect \notin Expectations

VARIABLES
  given,   \* how many identities the server has handed out
  input,   \* what the plan is made from
  revised, \* whether the project's files have been edited since
  stage,   \* how far alder plan --out has come
  shown,   \* the items of the plan that is shown
  refs,    \* the references it found to what it deletes and renames
  saving,  \* the changes of the saved plan, each with its expectation
  again,   \* the items of the plan of the saved changes
  saved,   \* the saved plan
  edited,  \* whether somebody has edited it
  runs,    \* the applications of it
  base     \* not the program's: the entry each expectation was read from

saver == <<input, stage, shown, refs, saving, again, base>>
savedVars == <<dir, given, saver, revised, saved, edited, runs, others>>

Entry(d, x) == IF x \in DOMAIN d THEN d[x] ELSE NoEntry
Below(d, x) == Cardinality({y \in DOMAIN d : IsStrictPrefix(x, y)})

\* The project's files as they are now.
Files == IF revised THEN input.revised ELSE input.changes

SavedInit ==
  /\ dir \in Starts /\ input \in Inputs
  /\ given = 0 /\ others = 0 /\ revised = FALSE /\ edited = FALSE
  /\ stage = "showing" /\ shown = <<>> /\ refs = <<>> /\ saving = <<>> /\ again = <<>> /\ base = <<>>
  /\ saved = None
  /\ runs = [r \in Runs |->
       [at |-> "idle", files |-> <<>>, changes |-> <<>>, items |-> <<>>, met |-> <<>>, done |-> 0]]

-----------------------------------------------------------------------------
(* The plan of one change *)

\* Mutated form: values the equality rule takes for the same are left alone.
ReconcileByRule(c, live) ==
  SetToSeq({Mod("replace", a, c.attrs[a]) :
              a \in {b \in Named(c) \ ServerOwned : ~SameByRule(live[b], c.attrs[b])}})

\* Reconcile: each attribute the record names and the directory does not keep is replaced unless
\* it holds the same bytes.
Reconcile(c, live) ==
  SetToSeq({Mod("replace", a, c.attrs[a]) : a \in {b \in Named(c) \ ServerOwned : live[b] # c.attrs[b]}})

\* membershipChanges: what the change does to the members the entry names.
membershipChanges(action, c, live) ==
  LET before == IF live = NoEntry THEN {} ELSE live[RefAttr]
      after == CASE action = "add" -> c.attrs[RefAttr]
                 [] action = "modify" -> applyMods(before, RefAttr, c.mods)
                 [] action = "delete" -> {}
                 [] OTHER -> before
  IN [gained |-> Keys(after) \ Keys(before), removed |-> Keys(before) \ Keys(after)]

ItemOf(action, c, token, live, n) ==
  [action |-> action, record |-> c, token |-> token, below |-> n,
   membership |-> membershipChanges(action, c, live)]

\* subordinatesDiffer, for an expectation that counts the entries below.
subordinatesDiffer(d, c, ex) ==
  ex # NoExpect /\ ex.below # Uncounted /\ Below(d, c.dn) # ex.below

\* The names the items so far would create.
ProvidedBy(items) == UNION {Provides(items[k].record, items[k].action) : k \in DOMAIN items}

\* A record read as desired state is an add where there is no entry, and reconciled where there is.
planItem(d, c, ex, desired, provided) ==
  LET live == Entry(d, c.dn)
      found == classify(d, c, ex, provided)
      action == IF live # NoEntry /\ subordinatesDiffer(d, c, ex) THEN "conflict" ELSE found.action
      mods == Reconcile(c, live)
  IN IF desired /\ live # NoEntry
     THEN ItemOf(IF mods = <<>> THEN "unchanged" ELSE "modify", Modify(c.dn, mods), NoToken, live, 0)
     ELSE ItemOf(action, c, found.token, live, IF action = "rename" THEN Below(d, c.dn) ELSE 0)

blocked(items) == \E i \in DOMAIN items : items[i].action = "conflict"
holds(items) == \A i \in DOMAIN items : ~AppliesNothing(items[i].action)

-----------------------------------------------------------------------------
(* The references to what a plan deletes and renames *)

\* resolvedReferences: another change of the set deletes the holder, or takes the value from it.
resolved(items, x, v) == \E k \in DOMAIN items :
  /\ items[k].record.dn = x
  /\ \/ items[k].action = "delete"
     \/ /\ items[k].action = "modify"
        /\ \E i \in DOMAIN items[k].record.mods : LET m == items[k].record.mods[i] IN
             /\ m.attr = RefAttr
             /\ \/ m.op = "delete" /\ (m.vals = {} \/ Key[v] \in Keys(m.vals))
                \/ m.op = "replace" /\ Key[v] \notin Keys(m.vals)

\* How many entries name each subject, and how many of those still would.
referenceImpact(d, items) == [i \in DOMAIN items |->
  LET x == items[i].record.dn
      named == IF items[i].action \in {"delete", "rename"} /\ x \in DOMAIN Ref
               THEN {y \in DOMAIN d \ {x} : Key[Ref[x]] \in Keys(d[y][RefAttr])} ELSE {}
  IN [count |-> Cardinality(named),
      dangling |-> Cardinality({y \in named : ~resolved(items, y, Ref[x])})]]

-----------------------------------------------------------------------------
(* alder plan --out, alder project plan --out *)

ShowOne ==
  /\ stage = "showing"
  /\ LET c == input.changes[Len(shown) + 1]
     IN shown' = Append(shown, planItem(dir, c, NoExpect, input.project, ProvidedBy(shown)))
  /\ stage' = (IF Len(shown') = Len(input.changes) THEN "searching" ELSE stage)
  /\ UNCHANGED <<dir, given, input, refs, saving, again, base, revised, saved, edited, runs, others>>

\* What is saved of a plan: the items that would do something.
ToSave == InOrder({i \in DOMAIN shown : ~AppliesNothing(shown[i].action)})

\* A plan with a conflict is shown and not saved; a file without a change is left out.
SearchShown ==
  /\ stage = "searching"
  /\ refs' = referenceImpact(dir, shown)
  /\ stage' = (IF blocked(shown) \/ ToSave = <<>> THEN "ended" ELSE "reading")
  /\ UNCHANGED <<dir, given, input, shown, saving, again, base, revised, saved, edited, runs, others>>

Expect(e, all, n) == [attrs |-> e, exhaustive |-> all, below |-> n]
Only(names, live) == [a \in names |-> live[a]]

expectationFor(c, live) == Expect(Only(Named(c), live), FALSE, Uncounted)
expectationForDelete(live) == Expect(Only({a \in Comparable : live[a] # {}}, live), TRUE, Uncounted)
expectationForRename(live, n) == Expect(Only({UniqueId, NamingAttr}, live), FALSE, n)

\* A password and a withheld value are not written down; an entry that went and an entry without
\* identity cannot be expected.
Expectable(c, live) ==
  /\ c.type # "setpassword" /\ Named(c) \cap Sensitive = {}
  /\ c.type # "add" => live # NoEntry
  /\ c.type = "modrdn" => live[UniqueId] # {}

Expectation(item, live) ==
  CASE item.action = "add" -> NoExpect
    [] item.action = "modify" -> expectationFor(item.record, live)
    [] item.action = "delete" -> expectationForDelete(live)
    [] item.action = "rename" -> expectationForRename(live, item.below)

\* writeSaved reads what the next change expects.
ReadOne ==
  /\ stage = "reading"
  /\ LET item == shown[ToSave[Len(saving) + 1]]
         live == Entry(dir, item.record.dn)
     IN IF ~Expectable(item.record, live)
        THEN stage' = "ended" /\ UNCHANGED <<saving, base>>
        ELSE /\ saving' = Append(saving, [change |-> item.record, expect |-> Expectation(item, live)])
             /\ base' = Append(base, live)
             /\ stage' = (IF Len(saving') = Len(ToSave) THEN "planning" ELSE stage)
  /\ UNCHANGED <<dir, given, input, shown, refs, again, revised, saved, edited, runs, others>>

\* planSaved, of the saved changes as an apply will plan them.
PlanAgain ==
  /\ stage = "planning"
  /\ LET s == saving[Len(again) + 1]
     IN again' = Append(again, planItem(dir, s.change, s.expect, FALSE, ProvidedBy(again)))
  /\ stage' = (IF Len(again') = Len(saving) THEN "comparing" ELSE stage)
  /\ UNCHANGED <<dir, given, input, shown, refs, saving, base, revised, saved, edited, runs, others>>

\* Mutated form: that every change applies is enough.
sameAsShownAnyway(now) == Len(again) = Len(ToSave)

sameAsShown(now) == \A k \in DOMAIN again : LET was == shown[ToSave[k]] IN
  /\ again[k].action = was.action /\ again[k].below = was.below
  /\ again[k].membership = was.membership
  /\ now[k] = refs[ToSave[k]]

\* expectsIdentity: a rename is bound to an entry and to how many are below it.
expectsIdentity(ex) ==
  /\ ex # NoExpect /\ ex.below # Uncounted /\ ~ex.exhaustive
  /\ UniqueId \in DOMAIN ex.attrs /\ ex.attrs[UniqueId] # {}

\* decodeSavedPlan: a project's plan holds no deletion and no rename, and no expectation is empty.
decodeSavedPlan(f) == \A i \in DOMAIN f.changes : LET s == f.changes[i] IN
  CASE s.change.type = "add" -> TRUE
    [] s.change.type = "modify" -> s.expect # NoExpect /\ DOMAIN s.expect.attrs # {}
    [] s.change.type = "delete" -> ~f.project /\ s.expect # NoExpect /\ s.expect.exhaustive
    [] s.change.type = "modrdn" -> ~f.project /\ expectsIdentity(s.expect)
    [] OTHER -> FALSE

\* The file is written only if the plan of the saved changes is the one shown and it reads back.
Save ==
  /\ stage = "comparing"
  /\ LET f == [project |-> input.project, digest |-> input.changes, changes |-> saving]
     IN IF holds(again) /\ sameAsShown(referenceImpact(dir, again)) /\ decodeSavedPlan(f)
     THEN stage' = "saved" /\ saved' = f
     ELSE stage' = "ended" /\ UNCHANGED saved
  /\ UNCHANGED <<dir, given, input, shown, refs, saving, again, base, revised, edited, runs, others>>

-----------------------------------------------------------------------------
(* Other people *)

\* A server names a new entry for its whole life.
Carry(c) ==
  /\ Accepts(dir, c)
  /\ IF c.type = "add"
     THEN /\ given < Len(Ids) /\ given' = given + 1
          /\ dir' = Done(dir, [c EXCEPT !.attrs[UniqueId] = {Ids[given + 1]}])
     ELSE dir' = Done(dir, c) /\ UNCHANGED given

OtherWrites ==
  /\ others < MaxOthers /\ others' = others + 1
  /\ \E c \in Foreign : Carry(c)
  /\ UNCHANGED <<saver, revised, saved, edited, runs>>

\* The project's files are edited after the plan was made from them.
ReviseFiles ==
  /\ input.project /\ ~revised /\ revised' = TRUE
  /\ UNCHANGED <<dir, given, saver, saved, edited, runs, others>>

\* The saved file is edited: one of its changes becomes another, and the project it says it was made
\* from may become the one the files describe now.
EditFile ==
  /\ saved # None /\ input.project /\ ~edited /\ edited' = TRUE
  /\ \E i \in DOMAIN saved.changes, e \in Edits, d \in {saved.digest, Files} :
       saved' = [saved EXCEPT !.changes[i] = e, !.digest = d]
  /\ UNCHANGED <<dir, given, saver, revised, runs, others>>

-----------------------------------------------------------------------------
(* alder apply --plan, alder project apply --plan *)

expectsWhatItChanges(cs) == \A i \in DOMAIN cs :
  cs[i].change.type = "modify" => Named(cs[i].change) \subseteq DOMAIN cs[i].expect.attrs

\* Mutated form: that the files describe the entry is enough.
bindToProjectEntries(cs, files) == \A i \in DOMAIN cs : \E k \in DOMAIN files :
  files[k].dn = cs[i].change.dn

\* bindToProject: a saved change is an add of an entry as the files describe it, or replaces
\* attributes by what they give it.
bindToProject(cs, files) == \A i \in DOMAIN cs : \E k \in DOMAIN files :
  LET c == cs[i].change IN
  /\ files[k].dn = c.dn
  /\ \/ c.type = "add" /\ c.attrs = files[k].attrs
     \/ /\ c.type = "modify"
        /\ \A j \in DOMAIN c.mods : LET m == c.mods[j] IN
             /\ m.op = "replace" /\ m.attr \in Named(files[k]) \ ServerOwned
             /\ m.vals = files[k].attrs[m.attr]

\* What the file says is checked before anything is sent, and again once the schema is known.
Usable(f) ==
  /\ decodeSavedPlan(f) /\ expectsWhatItChanges(f.changes)
  /\ f.project => f.digest = Files /\ bindToProject(f.changes, Files)

Load(r) ==
  /\ runs[r].at = "idle" /\ saved # None
  /\ runs' = [runs EXCEPT ![r].at = IF Usable(saved) THEN "planning" ELSE "refused",
                          ![r].changes = saved.changes, ![r].files = Files]
  /\ UNCHANGED <<dir, given, saver, revised, saved, edited, others>>

\* planSaved, change by change: a change that no longer holds makes the file stale, whole.
PlanSaved(r) ==
  /\ runs[r].at = "planning"
  /\ LET run == runs[r]
         s == run.changes[Len(run.items) + 1]
         items == Append(run.items, planItem(dir, s.change, s.expect, FALSE, ProvidedBy(run.items)))
     IN runs' = [runs EXCEPT ![r].items = items,
                             ![r].at = IF Len(items) < Len(run.changes) THEN "planning"
                                       ELSE IF holds(items) THEN "checking" ELSE "stale"]
  /\ UNCHANGED <<dir, given, saver, revised, saved, edited, others>>

\* The server checks a change against its token and its expectation.
Verify(s, token) ==
  LET live == Read(dir, s.change.dn, VerifyReads(s.change, token, s.expect))
      verdict == VerifyRead(s.change, token, s.expect, live)
  IN IF verdict = "current" /\ subordinatesDiffer(dir, s.change, s.expect) THEN "stale" ELSE verdict

Met(x) == [entry |-> Entry(dir, x), below |-> Below(dir, x)]

\* applyReviewed: every change is checked before any is made.
CheckOne(r) ==
  /\ runs[r].at = "checking"
  /\ LET run == runs[r]
         k == Len(run.met) + 1
         s == run.changes[k]
     IN runs' = [runs EXCEPT ![r].met = Append(@, Met(s.change.dn)),
                             ![r].at = IF Verify(s, run.items[k].token) # "current" THEN "stale"
                                       ELSE IF k = Len(run.changes) THEN "applying" ELSE @]
  /\ UNCHANGED <<dir, given, saver, revised, saved, edited, others>>

\* The changes are made in order, up to one the directory refuses.
Send(r) ==
  /\ runs[r].at = "applying"
  /\ LET k == runs[r].done + 1
         c == runs[r].changes[k].change
     IN \/ /\ Carry(c)
           /\ runs' = [runs EXCEPT ![r].done = k,
                                   ![r].at = IF k = Len(runs[r].changes) THEN "done" ELSE @]
        \/ /\ ~Accepts(dir, c)
           /\ runs' = [runs EXCEPT ![r].at = "stopped"]
           /\ UNCHANGED <<dir, given>>
  /\ UNCHANGED <<saver, revised, saved, edited, others>>

SavedNext ==
  \/ ShowOne \/ SearchShown \/ ReadOne \/ PlanAgain \/ Save
  \/ OtherWrites \/ ReviseFiles \/ EditFile
  \/ \E r \in Runs : Load(r) \/ PlanSaved(r) \/ CheckOne(r) \/ Send(r)

SavedSpec == SavedInit /\ [][SavedNext]_savedVars

-----------------------------------------------------------------------------
(* Properties *)

\* A change lands, of the file as it was saved, with its entry and what is below it as the server's
\* own check found them.
Landing(r) == runs'[r].done = runs[r].done + 1
Position(r) == runs[r].done + 1
Now(r) == runs[r].changes[Position(r)].change
Unraced(r) == runs[r].met[Position(r)] = Met(Now(r).dn)
AsSaved(r) == Landing(r) /\ Unraced(r) /\ runs[r].changes = saving

Members(d, x) == IF x \in DOMAIN d THEN Keys(d[x][RefAttr]) ELSE {}
Effect(r) ==
  LET was == shown[ToSave[Position(r)]]
      c == Now(r)
  IN /\ was.action = "add" <=> c.dn \notin DOMAIN dir
     /\ was.action = "rename" /\ c.to # c.dn => was.below = Cardinality(DOMAIN dir \ DOMAIN dir') - 1
     /\ was.action # "rename" =>
          was.membership = [gained |-> Members(dir', c.dn) \ Members(dir, c.dn),
                            removed |-> Members(dir, c.dn) \ Members(dir', c.dn)]

\* What was reviewed is what happens: a saved change gives and takes the members its shown plan
\* said, creates an entry where one was to be created, and moves as many entries as were shown,
\* however the directory moved before the file was written and after (saved-plans.md, "What this
\* keeps": nothing the reviewer did not see runs).
EffectAsShown == [][\A r \in Runs : AsSaved(r) => Effect(r)]_savedVars

Spares(r) ==
  LET c == Now(r)
      read == base[Position(r)]
  IN c.dn \in DOMAIN dir =>
       /\ \A a \in Comparable : c.type # "modrdn" /\ (c.dn \in DOMAIN dir' => dir'[c.dn][a] # dir[c.dn][a])
                                => sameByRule(a, dir[c.dn][a], read[a])
       /\ c.type = "modrdn" => sameByRule(UniqueId, dir'[c.to][UniqueId], read[UniqueId])

\* Nobody's edit is overwritten once what the change expects has been read: a value that goes or
\* is replaced is one that was there then, and an entry that moves is the one that was there.
OverwritesNobody == [][\A r \in Runs : AsSaved(r) => Spares(r)]_savedVars

AsDescribed(files) ==
  /\ DOMAIN dir \subseteq DOMAIN dir'
  /\ \A x \in DOMAIN dir', a \in Attrs \ ServerOwned :
       x \notin DOMAIN dir \/ dir'[x][a] # dir[x][a]
         => \E k \in DOMAIN files :
              LET f == files[k]
              IN /\ f.dn = x
                 /\ \/ dir'[x][a] = f.attrs[a]
                    \/ /\ x \notin DOMAIN dir /\ a = NamingAttr
                       /\ dir'[x][a] = f.attrs[a] \cup Without({Last(x)}, f.attrs[a])

\* Whatever the saved file has been made to say, a project's plan changes only entries its files
\* describe, as they describe them, and removes none (savedplanbind.go:22: "Editing the file alone
\* then changes nothing that runs").  The directory itself gives a new entry its naming value.
OnlyWhatFilesAsk == [][\A r \in Runs : Landing(r) /\ input.project => AsDescribed(runs[r].files)]_savedVars

\* An entry holds what the files give an attribute; the naming value a new one holds besides.
Gives(d, c, a) ==
  \/ d[c.dn][a] = c.attrs[a]
  \/ a = NamingAttr /\ d[c.dn][a] = c.attrs[a] \cup Without({Last(c.dn)}, c.attrs[a])
Described(d, c) == c.dn \in DOMAIN d /\ \A a \in Named(c) \ ServerOwned : Gives(d, c, a)

LeftAlone == others = 0 /\ ~edited /\ input.project

\* With nobody else writing and nobody editing the saved file, a project's plan that went through
\* leaves what the files describe, though two runs of it may have taken turns.
LeavesWhatFilesDescribe ==
  LeftAlone /\ (\E r \in Runs : runs[r].at = "done" /\ runs[r].changes = saving)
    => \A i \in DOMAIN input.changes : Described(dir, input.changes[i])
=============================================================================
