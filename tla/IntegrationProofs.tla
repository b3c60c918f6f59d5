------------------------- MODULE IntegrationProofs -------------------------
(***************************************************************************)
(* Theorems of Integration, for every repository, allowlist, delta and     *)
(* number of edits:                                                        *)
(*   1. records, sections and captures: what two equal captures have in    *)
(*      common (SameFile), and what a snapshot is recreated as             *)
(*      (Recreation);                                                      *)
(*   2. Inv, what each stage holds: the snapshot is the capture of some    *)
(*      tree, the delta is taken against its recreation, git apply writes  *)
(*      files that differ from those, and a capture, which reads the tree  *)
(*      piece by piece, has of every path the user did not overtake it at  *)
(*      what is there;                                                     *)
(*   3. with Inv, the properties Integration states: TypeCorrect,          *)
(*      NothingApplied, AppliedIsVerified, DeltaReplays;                   *)
(*   4. QuietInv, the same for a source nobody touches, path by path, and  *)
(*      QuietIntegration.                                                  *)
(***************************************************************************)
EXTENDS Integration, TLAPS

-----------------------------------------------------------------------------
(* Entries and records.                                                    *)

\* An entry is its mode and its content, and no mode but "none" is of no file.
LEMMA EntryParts ==
    ASSUME NEW e \in Torn
    PROVE  /\ e.mode \in Modes \cup {"none"}
           /\ e = [mode |-> e.mode, content |-> e.content]
           /\ ~Exists(e) <=> e = Absent
           /\ e \in Entries \/ (e.mode \in Modes /\ e.content = <<>>)
           /\ Absent \in Entries /\ ~Exists(Absent)
  BY DEF Torn, Entries, Absent, Exists, Modes

\* No file of the repository is as a half-written one is.
LEMMA TornApart ==
    ASSUME NEW e \in Torn, Exists(e)
    PROVE  [e EXCEPT !.content = <<>>] \notin Entries
<1>1. e.mode \in Modes /\ [e EXCEPT !.content = <<>>] = [mode |-> e.mode, content |-> <<>>]
  BY EntryParts DEF Exists
<1>2. SUFFICES ASSUME [mode |-> e.mode, content |-> <<>>] \in Entries PROVE FALSE
  BY <1>1
<1>3. [mode |-> e.mode, content |-> <<>>] # Absent
  BY <1>1 DEF Absent, Modes
<1>4. <<>> \in [Hunks -> Texts]
  <2> DEFINE x == [mode |-> e.mode, content |-> <<>>]
  <2>1. x \in [mode : Modes, content : [Hunks -> Texts]]
    BY <1>2, <1>3 DEF Entries
  <2>2. x.content = <<>>
    OBVIOUS
  <2> HIDE DEF x
  <2> QED BY <2>1, <2>2
<1>5. DOMAIN <<>> = {}
  OBVIOUS
<1> QED BY <1>4, <1>5, HunksAssumption

\* A record says of its path what the file was and what it becomes; a change of
\* mode alone says only that.
LEMMA RecordFields ==
    ASSUME NEW p, NEW old \in Torn, NEW new \in Torn
    PROVE  /\ Record(p, old, new).path = p
           /\ ~ModeOnly(old, new) => Record(p, old, new) = [path |-> p, tag |-> "diff", old |-> old, new |-> new]
           /\ ModeOnly(old, new) =>
                 Record(p, old, new) = [path |-> p, tag |-> "mode_only",
                     old |-> [mode |-> old.mode, content |-> <<>>],
                     new |-> [mode |-> new.mode, content |-> <<>>]]
<1>1. /\ [old EXCEPT !.content = <<>>] = [mode |-> old.mode, content |-> <<>>]
      /\ [new EXCEPT !.content = <<>>] = [mode |-> new.mode, content |-> <<>>]
  BY EntryParts
<1> QED BY <1>1 DEF Record

\* Two records of one path are equal only if they make the same file of the same.
LEMMA RecordDetermines ==
    ASSUME NEW p, NEW old \in Torn, NEW new \in Torn, NEW old2 \in Torn, NEW new2 \in Torn,
           Record(p, old, new) = Record(p, old2, new2),
           old = old2 \/ Record(p, old, new).tag = "diff"
    PROVE  old = old2 /\ new = new2
<1> DEFINE r == Record(p, old, new)
           s == Record(p, old2, new2)
<1>1. CASE ModeOnly(old, new)
  <2>1. r.tag = "mode_only" /\ r.new.mode = new.mode
    BY <1>1, RecordFields
  <2>2. ModeOnly(old2, new2)
    BY <2>1, RecordFields
  <2>3. s.new.mode = new2.mode
    BY <2>2, RecordFields
  <2>4. old = old2 /\ new.mode = new2.mode
    BY <2>1, <2>3
  <2>5. new.content = new2.content
    BY <1>1, <2>2, <2>4 DEF ModeOnly
  <2> QED BY <2>4, <2>5, EntryParts
<1>2. CASE ~ModeOnly(old, new)
  <2>1. r.tag = "diff" /\ r.old = old /\ r.new = new
    BY <1>2, RecordFields
  <2>2. ~ModeOnly(old2, new2)
    BY <2>1, RecordFields
  <2>3. s.old = old2 /\ s.new = new2
    BY <2>2, RecordFields
  <2> QED BY <2>1, <2>3
<1> QED BY <1>1, <1>2

\* A record fits the file it was taken from, and makes of it the other one.
LEMMA RecordApplies ==
    ASSUME NEW p, NEW old \in Entries, NEW new \in Entries
    PROVE  Fits(Record(p, old, new), old) /\ Patched(Record(p, old, new), old) = new
<1> DEFINE r == Record(p, old, new)
<1>0. old \in Torn /\ new \in Torn
  BY DEF Torn
<1>1. CASE ModeOnly(old, new)
  <2>1. r.tag = "mode_only" /\ r.new.mode = new.mode
    BY <1>0, <1>1, RecordFields
  <2>2. [old EXCEPT !.mode = new.mode] = new
    BY <1>0, <1>1, EntryParts DEF ModeOnly
  <2> QED BY <1>1, <2>1, <2>2 DEF Fits, Patched, ModeOnly
<1>2. CASE ~ModeOnly(old, new)
  <2>1. r.tag = "diff" /\ r.old = old /\ r.new = new
    BY <1>0, <1>2, RecordFields
  <2> HIDE DEF r
  <2>2. Fits(r, old)
    BY <2>1, <1>0, EntryParts DEF Fits
  <2>3. CASE ~Exists(old) \/ ~Exists(new)
    BY <2>1, <2>2, <2>3 DEF Patched, r
  <2>4. CASE Exists(old) /\ Exists(new)
    <3>1. old.content \in [Hunks -> Texts] /\ new.content \in [Hunks -> Texts]
      BY <2>4 DEF Entries, Exists, Absent
    <3> DEFINE made == [i \in DOMAIN old.content |->
                           IF i \in Changed(r) THEN new.content[i] ELSE old.content[i]]
    <3>2. Changed(r) = {i \in Hunks : old.content[i] # new.content[i]}
      BY <2>1, <3>1 DEF Changed
    <3>3. made = new.content
      BY <3>1, <3>2
    <3>4. Patched(r, old) = [mode |-> IF old.mode # new.mode THEN new.mode ELSE old.mode,
                             content |-> made]
      BY <2>1, <2>4 DEF Patched
    <3>5. new = [mode |-> new.mode, content |-> new.content]
      BY <1>0, EntryParts
    <3> HIDE DEF made
    <3> QED BY <2>2, <3>3, <3>4, <3>5 DEF r
  <2> QED BY <2>3, <2>4
<1> QED BY <1>1, <1>2

\* Where a record of a change fits, what it makes is a file, and another one
\* than the one it was taken from.
LEMMA RecordChanges ==
    ASSUME NEW p, NEW old \in Entries, NEW new \in Entries, old # new,
           NEW e \in Entries, Fits(Record(p, old, new), e)
    PROVE  /\ Patched(Record(p, old, new), e) \in Entries
           /\ Exists(Patched(Record(p, old, new), e)) => Patched(Record(p, old, new), e) # old
<1> DEFINE r == Record(p, old, new)
<1>0. old \in Torn /\ new \in Torn /\ e \in Torn
  BY DEF Torn
<1>1. CASE ModeOnly(old, new)
  <2>1. r.tag = "mode_only" /\ r.new.mode = new.mode
    BY <1>0, <1>1, RecordFields
  <2>2. Exists(e) /\ new.mode \in Modes
    BY <1>0, <1>1, <2>1, EntryParts DEF Fits, ModeOnly, Exists
  <2>3. e.content \in [Hunks -> Texts]
    BY <2>2 DEF Entries, Exists, Absent
  <2>4. [e EXCEPT !.mode = new.mode] = [mode |-> new.mode, content |-> e.content]
    BY <1>0, EntryParts
  <2>5. [mode |-> new.mode, content |-> e.content] \in Entries
    BY <2>2, <2>3 DEF Entries
  <2>6. new.mode # old.mode
    BY <1>1 DEF ModeOnly
  <2>7. Patched(r, e) = [mode |-> new.mode, content |-> e.content]
    BY <2>1, <2>4 DEF Patched
  <2> QED BY <2>5, <2>6, <2>7
<1>2. CASE ~ModeOnly(old, new)
  <2>1. r.tag = "diff" /\ r.old = old /\ r.new = new
    BY <1>0, <1>2, RecordFields
  <2> HIDE DEF r
  <2>3. CASE ~Exists(old) \/ ~Exists(new)
    BY <2>1, <2>3 DEF Patched, r
  <2>4. CASE Exists(old) /\ Exists(new)
    <3>0. Exists(e) /\ \A i \in Changed(r) : e.content[i] = old.content[i]
      BY <2>1, <2>4 DEF Fits, r
    <3>1. /\ old.content \in [Hunks -> Texts] /\ new.content \in [Hunks -> Texts]
          /\ e.content \in [Hunks -> Texts]
      BY <2>4, <3>0 DEF Entries, Exists, Absent
    <3> DEFINE made == [i \in DOMAIN e.content |->
                           IF i \in Changed(r) THEN new.content[i] ELSE e.content[i]]
               mode == IF old.mode # new.mode THEN new.mode ELSE e.mode
    <3>2. Changed(r) = {i \in Hunks : old.content[i] # new.content[i]}
      BY <2>1, <3>1 DEF Changed
    <3>3. made \in [Hunks -> Texts]
      BY <3>1, <3>2
    <3>4. Patched(r, e) = [mode |-> mode, content |-> made]
      BY <2>1, <2>4 DEF Patched
    <3>5. mode \in Modes
      BY <1>0, <2>4, <3>0, EntryParts DEF Exists
    <3>6. old.content # new.content
      BY <1>0, <1>2, <2>4, EntryParts DEF ModeOnly
    <3>7. PICK i \in Hunks : old.content[i] # new.content[i]
      BY <3>1, <3>6
    <3>8. made[i] = new.content[i]
      BY <3>1, <3>2, <3>7
    <3> HIDE DEF made, mode
    <3>9. [mode |-> mode, content |-> made] \in Entries
      BY <3>3, <3>5 DEF Entries
    <3>10. [mode |-> mode, content |-> made] # old
      BY <3>7, <3>8
    <3> QED BY <3>4, <3>9, <3>10 DEF r
  <2> QED BY <2>3, <2>4
<1> QED BY <1>1, <1>2

-----------------------------------------------------------------------------
(* Sections and captures.                                                  *)

\* A section has one record of each path of its, the one of its change.
LEMMA SectionRecords ==
    ASSUME NEW Q \in SUBSET Paths, NEW old \in [Paths -> Torn], NEW new \in [Paths -> Torn]
    PROVE  \A r \in Section(Q, old, new) : r.path \in Q /\ r = Record(r.path, old[r.path], new[r.path])
<1>1. \A p \in Q : old[p] \in Torn /\ new[p] \in Torn
  OBVIOUS
<1>2. \A p \in Q : Record(p, old[p], new[p]).path = p
  BY <1>1, RecordFields
<1>3. \A r \in Section(Q, old, new) : \E p \in Q : r = Record(p, old[p], new[p])
  BY DEF Section
<1> QED BY <1>2, <1>3

LEMMA SectionOf ==
    ASSUME NEW Q \in SUBSET Paths, NEW old \in [Paths -> Torn], NEW new \in [Paths -> Torn]
    PROVE  /\ PathsOf(Section(Q, old, new)) = Q
           /\ \A p \in Q : RecordOf(Section(Q, old, new), p) = Record(p, old[p], new[p])
<1> DEFINE S == Section(Q, old, new)
<1>1. \A p \in Q : old[p] \in Torn /\ new[p] \in Torn
  OBVIOUS
<1>2. \A p \in Q : Record(p, old[p], new[p]).path = p
  BY <1>1, RecordFields
<1>4. \A p \in Q : Record(p, old[p], new[p]) \in S
  BY DEF Section
<1>5. \A r \in S : r.path \in Q /\ r = Record(r.path, old[r.path], new[r.path])
  BY SectionRecords
<1> HIDE DEF S
<1>6. PathsOf(S) = Q
  BY <1>2, <1>4, <1>5 DEF PathsOf
<1>7. ASSUME NEW p \in Q PROVE RecordOf(S, p) = Record(p, old[p], new[p])
  <2>1. RecordOf(S, p) \in S /\ RecordOf(S, p).path = p
    BY <1>2, <1>4 DEF RecordOf
  <2> QED BY <1>5, <2>1
<1> QED BY <1>6, <1>7 DEF S

\* The records of a section fit files that are as the records were taken from,
\* and make of them what the records were taken to.
LEMMA SectionApplies ==
    ASSUME NEW Q \in SUBSET Paths, NEW old \in [Paths -> Entries], NEW new \in [Paths -> Entries],
           NEW files, \A p \in Q : files[p] = old[p]
    PROVE  /\ FitAll(Section(Q, old, new), files)
           /\ PatchAll(Section(Q, old, new), files) =
                 [p \in Paths |-> IF p \in Q THEN new[p] ELSE files[p]]
<1> DEFINE S == Section(Q, old, new)
<1>0. old \in [Paths -> Torn] /\ new \in [Paths -> Torn]
  BY DEF Torn
<1>1. PathsOf(S) = Q /\ \A p \in Q : RecordOf(S, p) = Record(p, old[p], new[p])
  BY <1>0, SectionOf
<1>2. \A r \in S : r.path \in Q /\ r = Record(r.path, old[r.path], new[r.path])
  BY <1>0, SectionRecords
<1>3. \A p \in Q : /\ Fits(Record(p, old[p], new[p]), files[p])
                   /\ Patched(Record(p, old[p], new[p]), files[p]) = new[p]
  <2> TAKE p \in Q
  <2>1. old[p] \in Entries /\ new[p] \in Entries /\ files[p] = old[p]
    OBVIOUS
  <2> QED BY <2>1, RecordApplies
<1> HIDE DEF S
<1>4. FitAll(S, files)
  BY <1>2, <1>3 DEF FitAll
<1>5. PatchAll(S, files) = [p \in Paths |-> IF p \in Q THEN new[p] ELSE files[p]]
  BY <1>1, <1>3 DEF PatchAll
<1> QED BY <1>4, <1>5 DEF S

\* The three columns of a tree.
LEMMA Columns ==
    ASSUME NEW E, NEW t \in [Paths -> [head : E, index : E, work : E]]
    PROVE  /\ Heads(t) \in [Paths -> E] /\ Indexes(t) \in [Paths -> E] /\ Works(t) \in [Paths -> E]
           /\ \A p \in Paths : /\ t[p].head \in E /\ t[p].index \in E /\ t[p].work \in E
                               /\ Heads(t)[p] = t[p].head /\ Indexes(t)[p] = t[p].index
                               /\ Works(t)[p] = t[p].work
<1>1. \A p \in Paths : t[p].head \in E /\ t[p].index \in E /\ t[p].work \in E
  OBVIOUS
<1> QED BY <1>1 DEF Heads, Indexes, Works

LEMMA FilesAreTorn == Files \subseteq TornFiles /\ Trees \subseteq [Paths -> TornFiles] /\ Nothing \in [Paths -> Entries]
  BY DEF Files, TornFiles, Torn, Trees, Nothing, Entries

\* An untracked file has a record, by the status or as an explicit one.
Shows(p, f) == StatusUntracked(p, f) \/ Explicit(p, f, f)

LEMMA ShowsIs ==
    ASSUME NEW p \in Allowed, NEW f
    PROVE  Shows(p, f) <=> Untracked(f) /\ (p \in Ignored => ~Staged(f))
  BY DEF Shows, StatusUntracked, Explicit, Dirty, Unstaged, Untracked

\* Where a path is read as it is at one moment, its records are of that moment.
LEMMA OneMoment ==
    ASSUME NEW p, NEW f \in TornFiles
    PROVE  /\ StagedRecord(p, f, f) = Record(p, f.head, f.index)
           /\ UnstagedRecord(p, f, f) = Record(p, f.index, f.work)
<1>1. f.head \in Torn /\ f.index \in Torn /\ f.work \in Torn
  BY DEF TornFiles
<1>2. ~ModeOnly(f.head, f.index) =>
          Record(p, f.head, f.index) = [path |-> p, tag |-> "diff", old |-> f.head, new |-> f.index]
  BY <1>1, RecordFields
<1>3. ~ModeOnly(f.index, f.work) =>
          Record(p, f.index, f.work) = [path |-> p, tag |-> "diff", old |-> f.index, new |-> f.work]
  BY <1>1, RecordFields
<1> QED BY <1>2, <1>3 DEF StagedRecord, UnstagedRecord, Diff, ModeOnly

\* The capture of a tree, section by section.
LEMMA CaptureFields ==
    ASSUME NEW t \in [Paths -> TornFiles]
    PROVE  /\ Capture(t).baseline = Heads(t)
           /\ Capture(t).staged = Section({x \in Allowed : Staged(t[x])}, Heads(t), Indexes(t))
           /\ Capture(t).unstaged = Section({x \in Allowed : Unstaged(t[x])}, Indexes(t), Works(t))
           /\ Capture(t).untracked = Section({x \in Allowed : Shows(x, t[x])}, Nothing, Works(t))
           /\ Capture(t).private =
                 {PrivateRecord(x, t[x], t[x]) : x \in {q \in Paths \ Allowed : Dirty(q, t[q])}}
<1>0. Allowed \subseteq Paths
  BY PathsAssumption
<1>1. \A x \in Allowed : /\ StagedRecord(x, t[x], t[x]) = Record(x, Heads(t)[x], Indexes(t)[x])
                         /\ UnstagedRecord(x, t[x], t[x]) = Record(x, Indexes(t)[x], Works(t)[x])
                         /\ Record(x, Absent, t[x].work) = Record(x, Nothing[x], Works(t)[x])
  <2> TAKE x \in Allowed
  <2>1. x \in Paths /\ t[x] \in TornFiles
    BY <1>0
  <2> QED BY <2>1, OneMoment DEF Heads, Indexes, Works, Nothing
<1> DEFINE extra == {p \in Paths : Explicit(p, t[p], t[p])}
           s == [baseline |-> Heads(t), found |-> t, made |-> t, extra |-> extra]
<1>2. Capture(t) = Captured(s)
  BY DEF Capture
<1>3. s.baseline = Heads(t) /\ s.found = t /\ s.made = t /\ s.extra = extra
  OBVIOUS
<1>4. {x \in Allowed : StatusUntracked(x, t[x]) \/ x \in extra} = {x \in Allowed : Shows(x, t[x])}
  BY <1>0 DEF Shows
<1> HIDE DEF s, extra
<1>5. Captured(s).baseline = Heads(t)
  BY <1>3 DEF Captured
<1>6. Captured(s).staged = Section({x \in Allowed : Staged(t[x])}, Heads(t), Indexes(t))
  <2>1. Captured(s).staged = {StagedRecord(x, t[x], t[x]) : x \in {q \in Allowed : Staged(t[q])}}
    BY <1>3 DEF Captured
  <2> QED BY <1>1, <2>1 DEF Section
<1>7. Captured(s).unstaged = Section({x \in Allowed : Unstaged(t[x])}, Indexes(t), Works(t))
  <2>1. Captured(s).unstaged = {UnstagedRecord(x, t[x], t[x]) : x \in {q \in Allowed : Unstaged(t[q])}}
    BY <1>3 DEF Captured
  <2> QED BY <1>1, <2>1 DEF Section
<1>8. Captured(s).untracked = Section({x \in Allowed : Shows(x, t[x])}, Nothing, Works(t))
  <2>1. Captured(s).untracked =
            {Record(x, Absent, t[x].work) : x \in {q \in Allowed : StatusUntracked(q, t[q]) \/ q \in extra}}
    BY <1>3 DEF Captured
  <2> QED BY <1>1, <1>4, <2>1 DEF Section
<1>9. Captured(s).private =
          {PrivateRecord(x, t[x], t[x]) : x \in {q \in Paths \ Allowed : Dirty(q, t[q])}}
  BY <1>3 DEF Captured
<1> QED BY <1>2, <1>5, <1>6, <1>7, <1>8, <1>9

\* The records of an allowed path in c are those of the file f.
Of(section, p) == {r \in section : r.path = p}
Pictures(c, p, f) ==
    /\ Of(c.staged, p) = IF Staged(f) THEN {Record(p, f.head, f.index)} ELSE {}
    /\ Of(c.unstaged, p) = IF Unstaged(f) THEN {Record(p, f.index, f.work)} ELSE {}
    /\ Of(c.untracked, p) = IF Shows(p, f) THEN {Record(p, Absent, f.work)} ELSE {}

LEMMA PathKept ==
    ASSUME NEW p, NEW f, NEW g, NEW old, NEW new
    PROVE  /\ Record(p, old, new).path = p
           /\ StagedRecord(p, f, g).path = p /\ UnstagedRecord(p, f, g).path = p
  BY DEF Record, StagedRecord, UnstagedRecord, Diff

\* A capture that read a path as it is at one moment pictures it.
LEMMA Pictured ==
    ASSUME NEW s, NEW p \in Allowed, NEW f \in TornFiles, s.found[p] = f,
           p \in s.extra <=> Explicit(p, f, f), Dirty(p, f) \/ p \in s.extra => s.made[p] = f
    PROVE  Pictures(Captured(s), p, f)
<1>1. Of(Captured(s).staged, p) = IF Staged(f) THEN {Record(p, f.head, f.index)} ELSE {}
  <2> DEFINE Q == {q \in Allowed : Staged(s.found[q])}
             F(q) == StagedRecord(q, s.found[q], s.made[q])
  <2>1. Captured(s).staged = {F(q) : q \in Q}
    BY DEF Captured
  <2>2. p \in Q <=> Staged(f)
    OBVIOUS
  <2>3. Staged(f) => StagedRecord(p, s.found[p], s.made[p]) = Record(p, f.head, f.index)
    BY OneMoment DEF Dirty
  <2>4. \A q \in Q : F(q).path = q
    BY PathKept
  <2> HIDE DEF Q, F
  <2>5. {r \in {F(q) : q \in Q} : r.path = p} = IF p \in Q THEN {F(p)} ELSE {}
    BY <2>4
  <2> QED BY <2>1, <2>2, <2>3, <2>5 DEF Of, F
<1>2. Of(Captured(s).unstaged, p) = IF Unstaged(f) THEN {Record(p, f.index, f.work)} ELSE {}
  <2> DEFINE Q == {q \in Allowed : Unstaged(s.found[q])}
             F(q) == UnstagedRecord(q, s.found[q], s.made[q])
  <2>1. Captured(s).unstaged = {F(q) : q \in Q}
    BY DEF Captured
  <2>2. p \in Q <=> Unstaged(f)
    OBVIOUS
  <2>3. Unstaged(f) => UnstagedRecord(p, s.found[p], s.made[p]) = Record(p, f.index, f.work)
    BY OneMoment DEF Dirty
  <2>4. \A q \in Q : F(q).path = q
    BY PathKept
  <2> HIDE DEF Q, F
  <2>5. {r \in {F(q) : q \in Q} : r.path = p} = IF p \in Q THEN {F(p)} ELSE {}
    BY <2>4
  <2> QED BY <2>1, <2>2, <2>3, <2>5 DEF Of, F
<1>3. Of(Captured(s).untracked, p) = IF Shows(p, f) THEN {Record(p, Absent, f.work)} ELSE {}
  <2> DEFINE Q == {q \in Allowed : StatusUntracked(q, s.found[q]) \/ q \in s.extra}
             F(q) == Record(q, Absent, s.made[q].work)
  <2>1. Captured(s).untracked = {F(q) : q \in Q}
    BY DEF Captured
  <2>2. p \in Q <=> Shows(p, f)
    BY DEF Shows
  <2>3. p \in Q => s.made[p] = f
    BY DEF Dirty
  <2>4. \A q \in Q : F(q).path = q
    BY PathKept
  <2> HIDE DEF Q, F
  <2>5. {r \in {F(q) : q \in Q} : r.path = p} = IF p \in Q THEN {F(p)} ELSE {}
    BY <2>4
  <2> QED BY <2>1, <2>2, <2>3, <2>5 DEF Of, F
<1> QED BY <1>1, <1>2, <1>3 DEF Pictures

LEMMA CapturePictures ==
    ASSUME NEW t \in [Paths -> TornFiles], NEW p \in Allowed
    PROVE  Pictures(Capture(t), p, t[p])
<1> DEFINE extra == {x \in Paths : Explicit(x, t[x], t[x])}
           s == [baseline |-> Heads(t), found |-> t, made |-> t, extra |-> extra]
<1>0. p \in Paths /\ t[p] \in TornFiles
  BY PathsAssumption
<1>1. s.found[p] = t[p] /\ s.made[p] = t[p] /\ (p \in s.extra <=> Explicit(p, t[p], t[p]))
  BY <1>0
<1>2. Capture(t) = Captured(s)
  BY DEF Capture
<1> HIDE DEF s
<1> QED BY <1>0, <1>1, <1>2, Pictured

\* Two files with the same records agree on what has changed there, unless the
\* file is one Git does not show: not in the index, in HEAD, and ignored.
LEMMA Records ==
    ASSUME NEW c, NEW p \in Allowed, NEW f \in TornFiles, NEW g \in TornFiles,
           Pictures(c, p, f), Pictures(c, p, g)
    PROVE  /\ Staged(f) <=> Staged(g)
           /\ Staged(f) => Record(p, f.head, f.index) = Record(p, g.head, g.index)
           /\ Unstaged(f) <=> Unstaged(g)
           /\ Unstaged(f) => Record(p, f.index, f.work) = Record(p, g.index, g.work)
           /\ Shows(p, f) <=> Shows(p, g)
           /\ Shows(p, f) => f.work = g.work
<1>1. \A x, y : {x} = {y} => x = y
  OBVIOUS
<1>2. \A x : {x} # {}
  OBVIOUS
<1>3. /\ Staged(f) <=> Staged(g)
      /\ Staged(f) => Record(p, f.head, f.index) = Record(p, g.head, g.index)
  BY <1>1, <1>2 DEF Pictures
<1>4. /\ Unstaged(f) <=> Unstaged(g)
      /\ Unstaged(f) => Record(p, f.index, f.work) = Record(p, g.index, g.work)
  BY <1>1, <1>2 DEF Pictures
<1>5. /\ Shows(p, f) <=> Shows(p, g)
      /\ Shows(p, f) => Record(p, Absent, f.work) = Record(p, Absent, g.work)
  BY <1>1, <1>2 DEF Pictures
<1>6. Shows(p, f) => f.work = g.work
  <2>1. f.work \in Torn /\ g.work \in Torn /\ Absent \in Torn
    BY DEF TornFiles, Torn, Entries
  <2> QED BY <1>5, <2>1, RecordDetermines
<1> QED BY <1>3, <1>4, <1>5, <1>6

\* Where two files of an allowed path with the same records have the same entry in
\* HEAD, or a record names the content, they are the same, but for a file Git does
\* not show.
LEMMA SameFile ==
    ASSUME NEW c, NEW p \in Allowed, NEW f \in TornFiles, NEW g \in TornFiles,
           Pictures(c, p, f), Pictures(c, p, g),
           \/ f.head = g.head
           \/ \E r \in c.staged \cup c.unstaged \cup c.untracked : r.path = p /\ r.tag = "diff"
    PROVE  /\ f.index = g.index
           /\ \/ f.work = g.work
              \/ p \in Ignored /\ Exists(g.head) /\ ~Exists(g.index)
<1>1. /\ f.head \in Torn /\ f.index \in Torn /\ f.work \in Torn
      /\ g.head \in Torn /\ g.index \in Torn /\ g.work \in Torn
      /\ Absent \in Torn /\ ~Exists(Absent)
  BY EntryParts DEF TornFiles, Torn, Entries
<1>2. /\ Staged(f) <=> Staged(g)
      /\ Staged(f) => Record(p, f.head, f.index) = Record(p, g.head, g.index)
      /\ Unstaged(f) <=> Unstaged(g)
      /\ Unstaged(f) => Record(p, f.index, f.work) = Record(p, g.index, g.work)
      /\ Shows(p, f) <=> Shows(p, g)
      /\ Shows(p, f) => f.work = g.work
  BY Records
<1>3. /\ ~Exists(f.index) => f.index = Absent
      /\ ~Exists(g.index) => g.index = Absent
      /\ ~Exists(f.work) => f.work = Absent
      /\ ~Exists(g.work) => g.work = Absent
      /\ ~Exists(g.head) => g.head = Absent
  BY <1>1, EntryParts
<1>4. CASE f.head = g.head
  <2>1. f.index = g.index
    <3>1. CASE Staged(f)
      BY <1>1, <1>2, <1>4, <3>1, RecordDetermines
    <3> QED BY <1>2, <1>4, <3>1 DEF Staged
  <2>2. CASE Exists(g.index)
    <3>1. CASE Unstaged(f)
      BY <1>1, <1>2, <2>1, <3>1, RecordDetermines
    <3> QED BY <1>2, <2>1, <2>2, <3>1 DEF Unstaged
  <2>3. CASE ~Exists(g.index)
    <3>1. Shows(p, g) <=> Untracked(g) /\ (p \in Ignored => ~Staged(g))
      BY ShowsIs
    <3>2. Shows(p, f) <=> Untracked(f) /\ (p \in Ignored => ~Staged(f))
      BY ShowsIs
    <3> QED BY <1>2, <1>3, <1>4, <2>1, <2>3, <3>1, <3>2 DEF Untracked, Staged
  <2> QED BY <2>1, <2>2, <2>3
<1>5. CASE f.head # g.head
  <2> PICK r \in c.staged \cup c.unstaged \cup c.untracked : r.path = p /\ r.tag = "diff"
    BY <1>5
  <2>1. CASE r \in c.staged
    <3>1. r \in Of(c.staged, p)
      BY <2>1 DEF Of
    <3>2. Staged(f) /\ r = Record(p, f.head, f.index)
      BY <3>1 DEF Pictures
    <3> QED BY <1>1, <1>2, <1>5, <3>2, RecordDetermines
  <2>2. CASE r \in c.unstaged
    <3>1. r \in Of(c.unstaged, p)
      BY <2>2 DEF Of
    <3>2. Unstaged(f) /\ r = Record(p, f.index, f.work)
      BY <3>1 DEF Pictures
    <3> QED BY <1>1, <1>2, <3>2, RecordDetermines
  <2>3. CASE r \in c.untracked
    <3>1. r \in Of(c.untracked, p)
      BY <2>3 DEF Of
    <3>2. Shows(p, f) /\ Shows(p, g) /\ f.work = g.work
      BY <1>2, <3>1 DEF Pictures
    <3>3. ~Exists(g.index) /\ ~Exists(f.index)
      BY <3>2, ShowsIs DEF Untracked
    <3> QED BY <1>3, <3>2, <3>3
  <2> QED BY <2>1, <2>2, <2>3
<1> QED BY <1>4, <1>5

-----------------------------------------------------------------------------
(* What a snapshot is recreated as.                                        *)

\* what no capture shows of a file
Lost(p, f) == Untracked(f) /\ ~Shows(p, f)

\* A snapshot is, in what a worktree is made of, the capture of a tree.
Agrees(s, t) ==
    /\ s.baseline = Capture(t).baseline
    /\ s.staged = Capture(t).staged /\ s.unstaged = Capture(t).unstaged
    /\ s.untracked = Capture(t).untracked

\* The records of a snapshot apply, to its index and then to its files; what
\* they make is the allowed part of the tree, but for what no capture shows.
LEMMA Recreation ==
    ASSUME NEW t \in Trees, NEW s, Agrees(s, t)
    PROVE  /\ FitAll(s.staged, s.baseline) /\ FitAll(s.unstaged, Indexed(s))
           /\ FitAll(s.untracked, Edited(s))
           /\ s.baseline = Heads(t)
           /\ Indexed(s) = [p \in Paths |-> IF p \in Allowed THEN t[p].index ELSE t[p].head]
           /\ Recreated(s) =
                 [p \in Paths |-> IF p \notin Allowed THEN t[p].head
                                  ELSE IF Lost(p, t[p]) THEN Absent ELSE t[p].work]
<1> DEFINE st == {x \in Allowed : Staged(t[x])}
           un == {x \in Allowed : Unstaged(t[x])}
           sh == {x \in Allowed : Shows(x, t[x])}
           idx == [p \in Paths |-> IF p \in Allowed THEN t[p].index ELSE t[p].head]
           edited == [p \in Paths |-> IF p \notin Allowed THEN t[p].head
                                      ELSE IF Exists(t[p].index) THEN t[p].work ELSE Absent]
           made == [p \in Paths |-> IF p \notin Allowed THEN t[p].head
                                    ELSE IF Lost(p, t[p]) THEN Absent ELSE t[p].work]
<1>0. st \in SUBSET Paths /\ un \in SUBSET Paths /\ sh \in SUBSET Paths /\ Allowed \subseteq Paths
  BY PathsAssumption
<1>1. /\ Heads(t) \in [Paths -> Entries] /\ Indexes(t) \in [Paths -> Entries]
      /\ Works(t) \in [Paths -> Entries] /\ Nothing \in [Paths -> Entries]
  BY Columns, FilesAreTorn DEF Trees, Files
<1>2. \A p \in Paths : /\ Heads(t)[p] = t[p].head /\ Indexes(t)[p] = t[p].index
                       /\ Works(t)[p] = t[p].work /\ Nothing[p] = Absent
                       /\ t[p].head \in Torn /\ t[p].index \in Torn /\ t[p].work \in Torn
  <2>1. \A p \in Paths : /\ t[p].head \in Entries /\ t[p].index \in Entries /\ t[p].work \in Entries
                         /\ Heads(t)[p] = t[p].head /\ Indexes(t)[p] = t[p].index /\ Works(t)[p] = t[p].work
    BY Columns DEF Trees, Files
  <2> QED BY <2>1 DEF Nothing, Torn
<1>3. /\ s.baseline = Heads(t) /\ s.staged = Section(st, Heads(t), Indexes(t))
      /\ s.unstaged = Section(un, Indexes(t), Works(t)) /\ s.untracked = Section(sh, Nothing, Works(t))
  BY CaptureFields, FilesAreTorn DEF Agrees
<1>4. FitAll(s.staged, s.baseline) /\ Indexed(s) = idx
  <2>1. /\ FitAll(s.staged, s.baseline)
        /\ Indexed(s) = [p \in Paths |-> IF p \in st THEN Indexes(t)[p] ELSE Heads(t)[p]]
    <3> HIDE DEF st
    <3>1. /\ FitAll(Section(st, Heads(t), Indexes(t)), Heads(t))
          /\ PatchAll(Section(st, Heads(t), Indexes(t)), Heads(t)) =
                [p \in Paths |-> IF p \in st THEN Indexes(t)[p] ELSE Heads(t)[p]]
      BY <1>0, <1>1, SectionApplies
    <3> QED BY <1>3, <3>1 DEF Indexed
  <2>2. \A p \in Paths : (IF p \in st THEN Indexes(t)[p] ELSE Heads(t)[p]) =
                         (IF p \in Allowed THEN t[p].index ELSE t[p].head)
    BY <1>2 DEF Staged
  <2> HIDE DEF st
  <2> QED BY <2>1, <2>2
<1>5. FitAll(s.unstaged, Indexed(s)) /\ Edited(s) = edited
  <2>0. \A p \in un : Indexed(s)[p] = Indexes(t)[p]
    BY <1>0, <1>2, <1>4
  <2>1. /\ FitAll(s.unstaged, Indexed(s))
        /\ Edited(s) = [p \in Paths |-> IF p \in un THEN Works(t)[p] ELSE Indexed(s)[p]]
    <3> HIDE DEF un
    <3> QED BY <1>0, <1>1, <1>3, <2>0, SectionApplies DEF Edited
  <2>2. \A p \in Paths : (IF p \in un THEN Works(t)[p] ELSE idx[p]) = edited[p]
    <3> TAKE p \in Paths
    <3>1. ~Exists(t[p].index) => t[p].index = Absent
      BY <1>2, EntryParts
    <3> QED BY <1>2, <3>1 DEF Unstaged
  <2> HIDE DEF un
  <2> QED BY <1>4, <2>1, <2>2
<1>6. FitAll(s.untracked, Edited(s)) /\ Recreated(s) = made
  <2>0. \A p \in sh : Edited(s)[p] = Nothing[p]
    <3>1. \A p \in sh : p \in Allowed /\ p \in Paths /\ ~Exists(t[p].index)
      BY <1>0, ShowsIs DEF Untracked
    <3> HIDE DEF sh
    <3> QED BY <1>2, <1>5, <3>1
  <2>1. /\ FitAll(s.untracked, Edited(s))
        /\ Recreated(s) = [p \in Paths |-> IF p \in sh THEN Works(t)[p] ELSE Edited(s)[p]]
    <3> HIDE DEF sh
    <3>1. /\ FitAll(Section(sh, Nothing, Works(t)), Edited(s))
          /\ PatchAll(Section(sh, Nothing, Works(t)), Edited(s)) =
                [p \in Paths |-> IF p \in sh THEN Works(t)[p] ELSE Edited(s)[p]]
      BY <1>0, <1>1, <2>0, SectionApplies
    <3> QED BY <1>3, <3>1 DEF Recreated
  <2>2. \A p \in Paths : (IF p \in sh THEN Works(t)[p] ELSE edited[p]) = made[p]
    <3> TAKE p \in Paths
    <3>1. ~Exists(t[p].work) => t[p].work = Absent
      BY <1>2, EntryParts
    <3> QED BY <1>2, <3>1 DEF Lost, Untracked
  <2> HIDE DEF sh
  <2> QED BY <1>5, <2>1, <2>2
<1> QED BY <1>3, <1>4, <1>5, <1>6

-----------------------------------------------------------------------------
(* The invariants: what the stages hold, and what git apply does.          *)

Taken == {"worktree", "materialize"}
Working == (Pipeline \ ({"snapshot"} \cup Taken)) \cup Integrating \cup {"done"}
Drawn == Working \ {"work", "delta"}
Vouched == Drawn \ {"seal"}
Bound == Integrating \ {"check"}
Applying == {"remove", "create", "failed", "verify", "done"}

EvidenceInv ==
    /\ pc \in Taken => \E s \in Scans(Entries) : snapshot = Captured(s)
    /\ pc \in Working => /\ \E t \in Trees : Agrees(snapshot, t)
                         /\ base = MaterializedTree(Worktree(snapshot)) /\ wt \in Trees
    /\ pc \in Drawn => /\ delta = DeltaRecords(base, wt) /\ projected = Capture(wt)
                       /\ InScope(projected, snapshot)
    /\ pc \in Vouched => projected.baseline = snapshot.baseline
    /\ pc \in Bound => approval.decision = "approve" /\ approval.binding = Sealed

\* git apply leaves no file as it was, and until the user touches it the file
\* stays as it left it
WriteInv ==
    /\ pc \notin Applying => mine = {} /\ todo = {} /\ writing = <<>>
    /\ \A p \in DOMAIN writing : Exists(writing[p]) => writing[p] # base[p]
    /\ pc = "remove" => \A p \in todo : Exists(base[p])
    /\ pc = "create" => \A p \in todo : Exists(writing[p])
    /\ \A p \in mine : tree[p].work # base[p]

\* what a capture has read of a path is there, unless the user has been there since
Read(p) ==
    /\ scan.at # "head" => scan.baseline[p] = tree[p].head
    /\ scan.at \notin {"head", "index"} => scan.found[p].index = tree[p].index
    /\ scan.at \in {"explicit", "records"} \/ (scan.at = "files" /\ p \notin scan.left) =>
          scan.found[p].work = tree[p].work
    /\ scan.at \in {"explicit", "records"} => scan.found[p].head = tree[p].head
    /\ scan.at = "records" =>
          /\ p \in scan.extra <=> Explicit(p, tree[p], tree[p])
          /\ p \in scan.left \/ (Dirty(p, tree[p]) \/ p \in scan.extra => scan.made[p] = tree[p])
ScanInv == \A p \in Paths \ late : Read(p)

Inv == TypeOK /\ EvidenceInv /\ WriteInv /\ ScanInv

\* The worktree of a snapshot, and the tree the delta is taken against.
LEMMA WorktreeTyped ==
    ASSUME NEW t \in Trees, NEW s, Agrees(s, t)
    PROVE  /\ Worktree(s) \in Trees
           /\ MaterializedTree(Worktree(s)) =
                 [p \in Paths |-> IF p \in Allowed THEN Recreated(s)[p] ELSE t[p].head]
           /\ \A p \in Allowed : MaterializedTree(Worktree(s))[p] =
                                 IF Lost(p, t[p]) THEN Absent ELSE t[p].work
           /\ MaterializedTree(Worktree(s)) \in [Paths -> Entries]
<1> DEFINE w == Worktree(s)
<1>1. \A p \in Paths : t[p].head \in Entries /\ t[p].index \in Entries /\ t[p].work \in Entries
  BY Columns DEF Trees, Files
<1>2. s.baseline = Heads(t) /\ \A p \in Paths : Heads(t)[p] = t[p].head
  BY Recreation DEF Heads
<1>3. /\ Indexed(s) = [p \in Paths |-> IF p \in Allowed THEN t[p].index ELSE t[p].head]
      /\ Recreated(s) = [p \in Paths |-> IF p \notin Allowed THEN t[p].head
                                         ELSE IF Lost(p, t[p]) THEN Absent ELSE t[p].work]
  BY Recreation
<1>4. Absent \in Entries /\ Allowed \subseteq Paths
  BY PathsAssumption DEF Entries
<1>5. w = [p \in Paths |-> [head |-> s.baseline[p], index |-> Indexed(s)[p], work |-> Recreated(s)[p]]]
  BY DEF Worktree
<1> HIDE DEF w
<1>6. \A p \in Paths : Indexed(s)[p] \in Entries /\ Recreated(s)[p] \in Entries /\ s.baseline[p] \in Entries
  BY <1>1, <1>2, <1>3, <1>4
<1>7. w \in Trees
  BY <1>5, <1>6 DEF Trees, Files
<1>8. \A p \in Paths : w[p].work = Recreated(s)[p] /\ w[p].head = t[p].head
  BY <1>2, <1>5
<1>9. MaterializedTree(w) = [p \in Paths |-> IF p \in Allowed THEN Recreated(s)[p] ELSE t[p].head]
  BY <1>8 DEF MaterializedTree
<1>10. MaterializedTree(w) \in [Paths -> Entries]
  BY <1>1, <1>6, <1>9
<1>11. \A p \in Allowed : MaterializedTree(w)[p] = IF Lost(p, t[p]) THEN Absent ELSE t[p].work
  BY <1>3, <1>4, <1>9
<1> QED BY <1>7, <1>9, <1>10, <1>11 DEF w

\* The worker starts from whole files, and leaves whole files.
LEMMA BaseTyped ==
    ASSUME EvidenceInv, pc \in Working
    PROVE  base \in [Paths -> Entries] /\ wt \in Trees
<1>1. PICK t \in Trees : Agrees(snapshot, t)
  BY DEF EvidenceInv
<1> QED BY <1>1, WorktreeTyped DEF EvidenceInv

\* A record of a capture has whole files in it, or the mode of one.
Whole(r) == IF r.tag = "mode_only" THEN r.new.mode \in Modes ELSE r.old \in Entries /\ r.new \in Entries

LEMMA RecordWhole ==
    ASSUME NEW p, NEW old \in Entries, NEW new \in Entries
    PROVE  Whole(Record(p, old, new))
<1>1. old \in Torn /\ new \in Torn
  BY DEF Torn
<1>2. CASE ModeOnly(old, new)
  <2>1. Record(p, old, new).tag = "mode_only" /\ Record(p, old, new).new.mode = new.mode
    BY <1>1, <1>2, RecordFields
  <2>2. new.mode \in Modes
    BY <1>1, <1>2, EntryParts DEF ModeOnly, Exists
  <2> QED BY <2>1, <2>2 DEF Whole
<1>3. CASE ~ModeOnly(old, new)
  <2>1. /\ Record(p, old, new).tag = "diff" /\ Record(p, old, new).old = old
        /\ Record(p, old, new).new = new
    BY <1>1, <1>3, RecordFields
  <2> QED BY <2>1 DEF Whole
<1> QED BY <1>2, <1>3

LEMMA DiffWhole ==
    ASSUME NEW p, NEW was, NEW is, NEW old \in Entries, NEW new \in Entries
    PROVE  Whole(Diff(p, was, is, old, new))
<1>1. /\ Diff(p, was, is, old, new).tag \in {"diff", "mixed"}
      /\ Diff(p, was, is, old, new).old = old /\ Diff(p, was, is, old, new).new = new
  BY DEF Diff
<1> QED BY <1>1 DEF Whole

LEMMA CapturedWhole ==
    ASSUME NEW s \in Scans(Entries)
    PROVE  /\ Captured(s).baseline \in [Paths -> Entries]
           /\ \A r \in Captured(s).staged : Whole(r)
           /\ \A r \in Captured(s).unstaged : Whole(r)
           /\ \A r \in Captured(s).untracked : Whole(r)
<1>1. /\ s.baseline \in [Paths -> Entries]
      /\ s.found \in [Paths -> [head : Entries, index : Entries, work : Entries]]
      /\ s.made \in [Paths -> [head : Entries, index : Entries, work : Entries]]
  BY DEF Scans
<1>2. ASSUME NEW p \in Allowed
      PROVE  /\ s.found[p].head \in Entries /\ s.found[p].index \in Entries /\ s.found[p].work \in Entries
             /\ s.made[p].head \in Entries /\ s.made[p].index \in Entries /\ s.made[p].work \in Entries
  BY <1>1, PathsAssumption
<1>3. Absent \in Entries
  BY DEF Entries
<1>4. ASSUME NEW p \in Allowed PROVE Whole(StagedRecord(p, s.found[p], s.made[p]))
  BY <1>2, RecordWhole, DiffWhole DEF StagedRecord
<1>5. ASSUME NEW p \in Allowed PROVE Whole(UnstagedRecord(p, s.found[p], s.made[p]))
  BY <1>2, RecordWhole, DiffWhole DEF UnstagedRecord
<1>6. ASSUME NEW p \in Allowed PROVE Whole(Record(p, Absent, s.made[p].work))
  BY <1>2, <1>3, RecordWhole
<1>7. Captured(s).baseline = s.baseline
  BY DEF Captured
<1>8. \A r \in Captured(s).staged : Whole(r)
  BY <1>4 DEF Captured
<1>9. \A r \in Captured(s).unstaged : Whole(r)
  BY <1>5 DEF Captured
<1>10. \A r \in Captured(s).untracked : Whole(r)
  BY <1>6 DEF Captured
<1> QED BY <1>1, <1>7, <1>8, <1>9, <1>10

\* Records that fit whole files make whole files of them.
LEMMA PatchWhole ==
    ASSUME NEW S, \A r \in S : Whole(r), NEW files \in [Paths -> Entries], FitAll(S, files)
    PROVE  PatchAll(S, files) \in [Paths -> Entries]
<1>1. ASSUME NEW p \in Paths, p \in PathsOf(S) PROVE Patched(RecordOf(S, p), files[p]) \in Entries
  <2> DEFINE r == RecordOf(S, p)
             e == files[p]
  <2>1. r \in S /\ r.path = p
    BY <1>1 DEF RecordOf, PathsOf
  <2>2. e \in Entries /\ e \in Torn
    BY DEF Torn
  <2>3. Fits(r, e) /\ Whole(r)
    BY <2>1 DEF FitAll
  <2> HIDE DEF r, e
  <2>4. CASE r.tag = "mode_only"
    <3>1. Exists(e) /\ r.new.mode \in Modes
      BY <2>3, <2>4 DEF Fits, Whole
    <3>2. e.content \in [Hunks -> Texts]
      BY <2>2, <3>1 DEF Entries, Exists, Absent
    <3>3. [e EXCEPT !.mode = r.new.mode] = [mode |-> r.new.mode, content |-> e.content]
      BY <2>2, EntryParts
    <3>4. [mode |-> r.new.mode, content |-> e.content] \in Entries
      BY <3>1, <3>2 DEF Entries
    <3> QED BY <2>4, <3>3, <3>4 DEF Patched, r, e
  <2>5. CASE r.tag # "mode_only"
    <3>0. r.old \in Entries /\ r.new \in Entries
      BY <2>3, <2>5 DEF Whole
    <3>1. CASE ~Exists(r.old) \/ ~Exists(r.new)
      BY <2>5, <3>0, <3>1 DEF Patched, r, e
    <3>2. CASE Exists(r.old) /\ Exists(r.new)
      <4>1. Exists(e)
        BY <2>3, <2>5, <3>2 DEF Fits
      <4>2. /\ r.old.content \in [Hunks -> Texts] /\ r.new.content \in [Hunks -> Texts]
            /\ e.content \in [Hunks -> Texts]
        BY <2>2, <3>0, <3>2, <4>1 DEF Entries, Exists, Absent
      <4>3. r.new.mode \in Modes /\ e.mode \in Modes
        BY <2>2, <3>0, <3>2, <4>1, EntryParts DEF Torn, Exists
      <4> DEFINE content == [i \in DOMAIN e.content |->
                                IF i \in Changed(r) THEN r.new.content[i] ELSE e.content[i]]
                 mode == IF r.old.mode # r.new.mode THEN r.new.mode ELSE e.mode
      <4>4. Patched(r, e) = [mode |-> mode, content |-> content]
        BY <2>5, <3>2 DEF Patched
      <4>5. content \in [Hunks -> Texts] /\ mode \in Modes
        BY <4>2, <4>3
      <4> HIDE DEF content, mode
      <4>6. [mode |-> mode, content |-> content] \in Entries
        BY <4>5 DEF Entries
      <4> QED BY <4>4, <4>6 DEF r, e
    <3> QED BY <3>1, <3>2
  <2> QED BY <2>4, <2>5
<1> QED BY <1>1 DEF PatchAll

\* A capture whose recreation is the evidence again is that of its worktree.
LEMMA Materialized ==
    ASSUME NEW s \in Scans(Entries), NEW t, Materializes(Captured(s), t)
    PROVE  Worktree(Captured(s)) \in Trees /\ Agrees(Captured(s), Worktree(Captured(s)))
<1> DEFINE c == Captured(s)
           w == Worktree(c)
<1>1. /\ FitAll(c.staged, c.baseline) /\ FitAll(c.unstaged, Indexed(c)) /\ FitAll(c.untracked, Edited(c))
      /\ Capture(w).staged = c.staged /\ Capture(w).unstaged = c.unstaged
      /\ Capture(w).untracked = c.untracked
  BY DEF Materializes
<1>2. /\ c.baseline \in [Paths -> Entries] /\ \A r \in c.staged : Whole(r)
      /\ \A r \in c.unstaged : Whole(r)
      /\ \A r \in c.untracked : Whole(r)
  BY CapturedWhole
<1> HIDE DEF c
<1>3. Indexed(c) \in [Paths -> Entries]
  BY <1>1, <1>2, PatchWhole DEF Indexed
<1>4. Edited(c) \in [Paths -> Entries]
  BY <1>1, <1>2, <1>3, PatchWhole DEF Edited
<1>5. Recreated(c) \in [Paths -> Entries]
  BY <1>1, <1>2, <1>4, PatchWhole DEF Recreated
<1>6. w = [p \in Paths |-> [head |-> c.baseline[p], index |-> Indexed(c)[p], work |-> Recreated(c)[p]]]
  BY DEF Worktree
<1> HIDE DEF w
<1>7. w \in Trees
  BY <1>2, <1>3, <1>5, <1>6 DEF Trees, Files
<1>8. Capture(w).baseline = Heads(w)
  BY <1>7, CaptureFields, FilesAreTorn
<1>9. Heads(w) = c.baseline
  <2>1. \A p \in Paths : w[p].head = c.baseline[p]
    BY <1>6
  <2> QED BY <1>2, <2>1 DEF Heads
<1> QED BY <1>1, <1>7, <1>8, <1>9 DEF Agrees, c, w

\* What the records of the delta are.
LEMMA DeltaOf ==
    ASSUME EvidenceInv, pc \in Drawn
    PROVE  LET changed == {p \in Allowed : base[p] # wt[p].work}
           IN /\ delta = Section(changed, base, Works(wt)) /\ changed \in SUBSET Paths
              /\ PathsOf(delta) = changed
              /\ \A p \in changed : RecordOf(delta, p) = Record(p, base[p], wt[p].work)
              /\ \A r \in delta : r.path \in changed /\ r = Record(r.path, base[r.path], wt[r.path].work)
<1> DEFINE Q == {p \in Allowed : base[p] # wt[p].work}
<1>1. delta = Section(Q, base, Works(wt)) /\ Q \in SUBSET Paths
  BY PathsAssumption DEF EvidenceInv, DeltaRecords
<1>2. base \in [Paths -> Entries] /\ wt \in Trees
  BY BaseTyped DEF Drawn
<1>3. Works(wt) \in [Paths -> Entries] /\ \A p \in Paths : Works(wt)[p] = wt[p].work
  <2>1. wt \in [Paths -> [head : Entries, index : Entries, work : Entries]]
    BY <1>2 DEF Trees, Files
  <2>2. Works(wt) \in [Paths -> Entries]
    BY <2>1, Columns
  <2> QED BY <2>2 DEF Works
<1>4. base \in [Paths -> Torn] /\ Works(wt) \in [Paths -> Torn]
  BY <1>2, <1>3 DEF Torn
<1> HIDE DEF Q
<1>5. PathsOf(delta) = Q /\ \A p \in Q : RecordOf(delta, p) = Record(p, base[p], Works(wt)[p])
  BY <1>1, <1>4, SectionOf
<1>6. \A r \in delta : r.path \in Q /\ r = Record(r.path, base[r.path], Works(wt)[r.path])
  BY <1>1, <1>4, SectionRecords
<1>7. \A p \in Q : Works(wt)[p] = wt[p].work
  BY <1>1, <1>3
<1> QED BY <1>1, <1>5, <1>6, <1>7 DEF Q

LEMMA EvidenceInit == Init => EvidenceInv
  BY DEF Init, EvidenceInv, Taken, Working, Drawn, Vouched, Bound, Pipeline, Integrating

\* An action that leaves the evidence alone keeps what is known of it.
LEMMA EvidenceKept ==
    ASSUME EvidenceInv, UNCHANGED <<evidence, approval>>,
           pc' \in Taken => pc \in Taken, pc' \in Working => pc \in Working,
           pc' \in Drawn => pc \in Drawn, pc' \in Vouched => pc \in Vouched,
           pc' \in Bound => pc \in Bound
    PROVE  EvidenceInv'
  BY DEF EvidenceInv, evidence, Sealed, Binding

Stages(from, to) ==
    /\ to \in Taken => from \in Taken
    /\ to \in Working => from \in Working
    /\ to \in Drawn => from \in Drawn
    /\ to \in Vouched => from \in Vouched
    /\ to \in Bound => from \in Bound

LEMMA EvidenceNext ==
    ASSUME TypeOK, EvidenceInv, [Next]_vars
    PROVE  EvidenceInv'
<1> USE DEF Go, Stop, Return
<1>1. CASE TakeSnapshot
  <2>1. scan \in Scans(Entries)
    BY <1>1 DEF TypeOK, TakeSnapshot, Scanned
  <2>2. snapshot' = Captured(scan) /\ pc' = "worktree"
    BY <1>1 DEF TakeSnapshot
  <2> QED BY <2>1, <2>2 DEF EvidenceInv, Taken, Working, Drawn, Vouched, Bound, Pipeline, Integrating
<1>2. CASE Materialize
  <2>1. pc = "materialize" /\ UNCHANGED snapshot
    BY <1>2 DEF Materialize, Scanned
  <2>2. PICK s \in Scans(Entries) : snapshot = Captured(s)
    BY <2>1 DEF EvidenceInv, Taken
  <2>3. \/ /\ pc' = "work" /\ wt' = Worktree(snapshot) /\ base' = MaterializedTree(wt')
           /\ Materializes(snapshot, tree)
        \/ pc' = "stopped"
    BY <1>2 DEF Materialize
  <2>4. CASE pc' = "work"
    <3>1. Worktree(snapshot) \in Trees /\ Agrees(snapshot, Worktree(snapshot))
      BY <2>2, <2>3, <2>4, Materialized
    <3>2. /\ \E t \in Trees : Agrees(snapshot', t)
          /\ base' = MaterializedTree(Worktree(snapshot')) /\ wt' \in Trees
      BY <2>1, <2>3, <2>4, <3>1
    <3> QED BY <2>4, <3>2 DEF EvidenceInv, Taken, Working, Drawn, Vouched, Bound, Pipeline, Integrating
  <2>5. CASE pc' = "stopped"
    BY <2>5 DEF EvidenceInv, Taken, Working, Drawn, Vouched, Bound, Pipeline, Integrating
  <2> QED BY <2>3, <2>4, <2>5
<1>3. CASE Work
  <2>1. pc = "work" /\ pc' = pc /\ UNCHANGED <<snapshot, base>>
    BY <1>3 DEF Work
  <2>2. wt \in Trees /\ base = MaterializedTree(Worktree(snapshot)) /\ \E t \in Trees : Agrees(snapshot, t)
    BY <2>1 DEF EvidenceInv, Taken, Working, Pipeline
  <2>3. \A p \in Paths : wt[p] \in Files /\ wt[p].work \in Entries /\ wt[p].index \in Entries
    BY <2>2 DEF Trees, Files
  <2>4. wt' \in Trees
    <3>1. CASE \E p \in Paths, e \in Edits \cup {Absent} : wt' = [wt EXCEPT ![p].work = e]
      <4> PICK p \in Paths, e \in Edits \cup {Absent} : wt' = [wt EXCEPT ![p].work = e]
        BY <3>1
      <4>1. e \in Entries
        BY StartAssumption DEF Entries
      <4> QED BY <2>2, <4>1 DEF Trees, Files
    <3>2. CASE \E p \in Paths : wt' = [wt EXCEPT ![p].index = wt[p].work]
      BY <2>2, <2>3, <3>2 DEF Trees, Files
    <3>3. CASE wt' = [p \in Paths |-> [wt[p] EXCEPT !.head = wt[p].index]]
      BY <2>2, <2>3, <3>3 DEF Trees, Files
    <3> QED BY <1>3, <3>1, <3>2, <3>3 DEF Work
  <2> QED BY <2>1, <2>2, <2>4
       DEF EvidenceInv, Taken, Working, Drawn, Vouched, Bound, Pipeline, Integrating
<1>4. CASE CaptureDelta
  <2>1. pc = "delta" /\ UNCHANGED <<snapshot, base, wt>>
    BY <1>4 DEF CaptureDelta, Scanned
  <2>2. \/ /\ pc' = "seal" /\ delta' = DeltaRecords(base, wt) /\ projected' = Capture(wt)
           /\ InScope(Capture(wt), snapshot)
        \/ pc' = "stopped"
    BY <1>4 DEF CaptureDelta
  <2> QED BY <2>1, <2>2
       DEF EvidenceInv, Taken, Working, Drawn, Vouched, Bound, Pipeline, Integrating
<1>5. CASE Seal
  <2>1. pc = "seal" /\ UNCHANGED <<evidence, approval>>
    BY <1>5 DEF Seal, Scanned
  <2>2. (pc' = "review" /\ projected.baseline = snapshot.baseline) \/ pc' = "stopped"
    BY <1>5 DEF Seal, ValidProjection
  <2> QED BY <2>1, <2>2
       DEF EvidenceInv, evidence, Taken, Working, Drawn, Vouched, Bound, Pipeline, Integrating
<1>6. CASE Review
  <2>1. pc = "review" /\ pc' = "check" /\ UNCHANGED evidence
    BY <1>6 DEF Review
  <2> QED BY <2>1
       DEF EvidenceInv, evidence, Taken, Working, Drawn, Vouched, Bound, Pipeline, Integrating
<1>7. CASE Check
  <2>1. pc = "check" /\ UNCHANGED <<evidence, approval>>
    BY <1>7 DEF Check, Scanned
  <2>2. \/ pc' = "apply_check" /\ approval.decision = "approve" /\ approval.binding = Sealed
        \/ pc' = "done"
    BY <1>7 DEF Check
  <2>3. Sealed' = Sealed
    BY <2>1 DEF evidence, Sealed, Binding
  <2> QED BY <2>1, <2>2, <2>3
       DEF EvidenceInv, evidence, Taken, Working, Drawn, Vouched, Bound, Pipeline, Integrating
<1>8. ASSUME UNCHANGED <<evidence, approval>>, Stages(pc, pc') PROVE EvidenceInv'
  BY <1>8, EvidenceKept DEF Stages
<1> USE DEF Stages, Taken, Working, Drawn, Vouched, Bound, Pipeline, Integrating
<1>9. CASE CreateWorktree
  BY <1>8, <1>9 DEF CreateWorktree
<1>10. CASE EndWork
  BY <1>8, <1>10 DEF EndWork
<1>11. CASE ApplyCheck
  BY <1>8, <1>11 DEF ApplyCheck
<1>12. CASE Simulate
  BY <1>8, <1>12 DEF Simulate, Scanned
<1>13. CASE Recheck
  BY <1>8, <1>13 DEF Recheck, Scanned
<1>14. CASE GitReads
  BY <1>8, <1>14 DEF GitReads
<1>15. CASE GitTurns \/ GitEnds
  BY <1>8, <1>15 DEF GitTurns, GitEnds
<1>16. CASE GitFails
  BY <1>8, <1>16 DEF GitFails
<1>17. CASE Failed \/ Verify
  BY <1>8, <1>17 DEF Failed, Verify, Scanned
<1>18. CASE ReadRecord \/ CaptureFails
  BY <1>8, <1>18 DEF ReadRecord, CaptureFails, Raised, Scanning
<1>19. CASE ReadHead \/ ReadIndex \/ ReadFile \/ ReadStatus \/ ReadExplicit
  BY <1>8, <1>19 DEF ReadHead, ReadIndex, ReadFile, ReadStatus, ReadExplicit
<1>22. CASE \E p \in Paths : GitRemoves(p) \/ GitCreates(p)
  BY <1>8, <1>22 DEF GitRemoves, GitCreates
<1>20. CASE \/ \E p \in Paths, e \in Edits \cup {Absent} : UserEdits(p, e)
            \/ \E p \in Paths : UserStages(p)
            \/ UserCommits
  BY <1>8, <1>20 DEF UserEdits, UserStages, UserCommits, UserDo
<1>21. CASE UNCHANGED vars
  BY <1>8, <1>21 DEF vars
<1> QED BY <1>1, <1>2, <1>3, <1>4, <1>5, <1>6, <1>7, <1>9, <1>10, <1>11, <1>12, <1>13, <1>14, <1>15,
           <1>16, <1>17, <1>18, <1>19, <1>20, <1>21, <1>22 DEF Next

-----------------------------------------------------------------------------
(* Type correctness, and what git apply leaves.                            *)

\* Nothing is a capture.
LEMMA NoScanTyped == NoScan \in Scans(Entries) /\ NoScan \in Scans(Torn) /\ NoScan.at = "head"
<1>1. Absent \in Entries /\ Absent \in Torn
  BY DEF Entries, Torn
<1>2. ASSUME NEW E, Absent \in E PROVE NoScan \in Scans(E)
  <2> DEFINE f == [p \in Paths |-> [head |-> Absent, index |-> Absent, work |-> Absent]]
  <2>1. f \in [Paths -> [head : E, index : E, work : E]] /\ Nothing \in [Paths -> E]
    BY <1>2 DEF Nothing
  <2>2. NoScan = [at |-> "head", left |-> {}, baseline |-> Nothing, extra |-> {}, found |-> f, made |-> f]
    BY DEF NoScan
  <2> HIDE DEF f
  <2> QED BY <2>1, <2>2 DEF Scans
<1> QED BY <1>1, <1>2 DEF NoScan

LEMMA TypeInit == Init => TypeOK
<1> SUFFICES ASSUME Init PROVE TypeOK
  OBVIOUS
<1>1. tree \in Trees
  BY StartAssumption DEF Init
<1>2. <<>> \in [DOMAIN <<>> -> Entries] /\ DOMAIN <<>> = {}
  OBVIOUS
<1> QED BY <1>1, <1>2, NoScanTyped, BoundsAssumption DEF Init, TypeOK, Trees, Pipeline, Integrating, Scanning

\* The write of git apply: every file it makes is a whole one, and none is the
\* file the delta was taken from.
LEMMA GitWrites ==
    ASSUME TypeOK, EvidenceInv, GitReads, pc' = "remove"
    PROVE  /\ writing' \in [DOMAIN writing' -> Entries] /\ DOMAIN writing' = PathsOf(delta)
           /\ \A p \in DOMAIN writing' : Exists(writing'[p]) => writing'[p] # base[p]
           /\ todo' \subseteq DOMAIN writing' /\ \A p \in todo' : Exists(base[p])
<1>1. pc = "apply" /\ pc \in Drawn /\ pc \in Working
  BY DEF GitReads, Drawn, Working, Integrating
<1>2. /\ FitAll(delta, Works(tree))
      /\ writing' = [p \in PathsOf(delta) |-> Patched(RecordOf(delta, p), Works(tree)[p])]
      /\ todo' = {r.path : r \in {d \in delta : Exists(d.old)}}
  BY DEF GitReads, Go
<1> DEFINE Q == {p \in Allowed : base[p] # wt[p].work}
<1>3. /\ PathsOf(delta) = Q /\ Q \in SUBSET Paths
      /\ \A p \in Q : RecordOf(delta, p) = Record(p, base[p], wt[p].work)
      /\ \A r \in delta : r.path \in Q /\ r = Record(r.path, base[r.path], wt[r.path].work)
  BY <1>1, DeltaOf
<1>4. base \in [Paths -> Entries] /\ \A p \in Paths : wt[p].work \in Entries
  BY <1>1, BaseTyped DEF Trees, Files
<1>5. \A p \in Paths : Works(tree)[p] \in Entries
  BY <1>1 DEF TypeOK, Works, Files
<1>6. \A p \in Q : base[p] # wt[p].work
  OBVIOUS
<1> HIDE DEF Q
<1>7. ASSUME NEW p \in Q
      PROVE  /\ writing'[p] \in Entries
             /\ Exists(writing'[p]) => writing'[p] # base[p]
  <2>1. PICK r \in delta : r.path = p
    BY <1>3 DEF PathsOf
  <2>2. r = Record(p, base[p], wt[p].work) /\ Fits(r, Works(tree)[p])
    BY <1>2, <1>3, <2>1 DEF FitAll
  <2>3. p \in Paths /\ base[p] \in Entries /\ wt[p].work \in Entries /\ Works(tree)[p] \in Entries
    BY <1>3, <1>4, <1>5
  <2>4. writing'[p] = Patched(Record(p, base[p], wt[p].work), Works(tree)[p])
    BY <1>2, <1>3
  <2> QED BY <1>6, <2>2, <2>3, <2>4, RecordChanges
<1>8. DOMAIN writing' = Q /\ writing' \in [Q -> Entries]
  BY <1>2, <1>3, <1>7
<1>9. ASSUME NEW p \in todo' PROVE p \in Q /\ Exists(base[p])
  <2>1. PICK r \in delta : r.path = p /\ Exists(r.old)
    BY <1>2
  <2>2. p \in Q /\ r = Record(p, base[p], wt[p].work)
    BY <1>3, <2>1
  <2>3. base[p] \in Torn /\ wt[p].work \in Torn
    BY <1>3, <1>4, <2>2 DEF Torn
  <2>4. ModeOnly(base[p], wt[p].work) \/ r.old = base[p]
    BY <2>2, <2>3, RecordFields
  <2> QED BY <2>1, <2>2, <2>4 DEF ModeOnly
<1> QED BY <1>3, <1>7, <1>8, <1>9

TreeOK == tree \in [Paths -> IF pc \in {"failed", "done"} THEN TornFiles ELSE Files]

\* The user's tree is of whole files until git apply is cut short in one.
LEMMA TreeNext ==
    ASSUME TypeOK, EvidenceInv, [Next]_vars
    PROVE  TreeOK'
<1>0. Files \subseteq TornFiles
  BY FilesAreTorn
<1>1. TreeOK
  BY DEF TypeOK, TreeOK
<1>2. ASSUME UNCHANGED tree, pc' \in {"failed", "done"} \/ pc \notin {"failed", "done"} PROVE TreeOK'
  BY <1>0, <1>1, <1>2 DEF TreeOK
<1> USE DEF Go, Stop, Return
<1>3. CASE \E p \in Paths : GitRemoves(p) \/ GitCreates(p)
  <2> PICK p \in Paths : GitRemoves(p) \/ GitCreates(p)
    BY <1>3
  <2>1. pc \notin {"failed", "done"} /\ pc' = pc /\ tree \in [Paths -> Files]
    BY <1>1 DEF TreeOK, GitRemoves, GitCreates
  <2>2. PICK e \in Entries : tree' = [tree EXCEPT ![p].work = e]
    BY DEF GitRemoves, GitCreates, TypeOK, Entries
  <2> QED BY <2>1, <2>2 DEF TreeOK, Files
<1>4. CASE GitFails
  <2>1. CASE UNCHANGED tree
    BY <1>2, <1>4, <2>1 DEF GitFails
  <2>2. CASE \E p \in todo : tree' = [tree EXCEPT ![p].work = [writing[p] EXCEPT !.content = <<>>]] /\ pc = "create"
    <3> PICK p \in todo : tree' = [tree EXCEPT ![p].work = [writing[p] EXCEPT !.content = <<>>]] /\ pc = "create"
      BY <2>2
    <3>1. p \in Paths /\ writing[p] \in Entries
      BY PathsAssumption DEF TypeOK
    <3>2. tree \in [Paths -> TornFiles] /\ pc' = "failed"
      BY <1>0, <1>4, <2>2, <1>1 DEF TreeOK, GitFails
    <3>3. [writing[p] EXCEPT !.content = <<>>] \in Torn
      <4>1. writing[p] = [mode |-> writing[p].mode, content |-> writing[p].content]
        BY <3>1, EntryParts DEF Torn
      <4>2. [writing[p] EXCEPT !.content = <<>>] = [mode |-> writing[p].mode, content |-> <<>>]
        BY <4>1
      <4>3. writing[p].mode \in Modes \/ writing[p] = Absent
        BY <3>1 DEF Entries
      <4>4. CASE writing[p].mode \in Modes
        BY <4>2, <4>4 DEF Torn
      <4>5. CASE writing[p] = Absent
        BY <4>2, <4>5 DEF Torn, Entries, Absent
      <4> QED BY <4>3, <4>4, <4>5
    <3> QED BY <3>2, <3>3 DEF TreeOK, TornFiles
  <2> QED BY <1>4, <2>1, <2>2 DEF GitFails
<1>5. CASE \E p \in Paths, e \in Edits \cup {Absent} : UserEdits(p, e)
  <2> PICK p \in Paths, e \in Edits \cup {Absent} : UserEdits(p, e)
    BY <1>5
  <2>1. e \in Entries /\ e \in Torn
    BY StartAssumption DEF Entries, Torn
  <2>2. tree' = [tree EXCEPT ![p].work = e] /\ pc' = pc
    BY DEF UserEdits, UserDo
  <2> QED BY <1>1, <2>1, <2>2 DEF TreeOK, Files, TornFiles
<1>6. CASE \E p \in Paths : UserStages(p)
  <2> PICK p \in Paths : tree' = [tree EXCEPT ![p].index = tree[p].work] /\ pc' = pc
    BY <1>6 DEF UserStages, UserDo
  <2> QED BY <1>1 DEF TreeOK, Files, TornFiles
<1>7. CASE UserCommits
  <2>1. tree' = [p \in Paths |-> [tree[p] EXCEPT !.head = tree[p].index]] /\ pc' = pc
    BY <1>7 DEF UserCommits, UserDo
  <2> QED BY <1>1, <2>1 DEF TreeOK, Files, TornFiles
<1>8. CASE UNCHANGED vars
  BY <1>2, <1>8, <1>1 DEF vars, TreeOK
<1>9. CASE TakeSnapshot \/ CreateWorktree \/ Materialize
  BY <1>2, <1>9 DEF TakeSnapshot, CreateWorktree, Materialize, Scanned
<1>10. CASE Work \/ EndWork \/ CaptureDelta \/ Seal \/ Review
  BY <1>2, <1>10 DEF Work, EndWork, CaptureDelta, Seal, Review, Scanned
<1>11. CASE Check \/ ApplyCheck \/ Simulate \/ Recheck
  BY <1>2, <1>11 DEF Check, ApplyCheck, Simulate, Recheck, Scanned
<1>12. CASE GitReads \/ GitTurns \/ GitEnds
  BY <1>2, <1>12 DEF GitReads, GitTurns, GitEnds
<1>13. CASE Failed \/ Verify
  BY <1>2, <1>13 DEF Failed, Verify
<1>14. CASE ReadRecord \/ CaptureFails
  BY <1>1, <1>2, <1>14 DEF ReadRecord, CaptureFails, Raised, Scanning, Pipeline, TreeOK
<1>15. CASE ReadHead \/ ReadIndex \/ ReadFile \/ ReadStatus \/ ReadExplicit
  BY <1>1, <1>15 DEF ReadHead, ReadIndex, ReadFile, ReadStatus, ReadExplicit, TreeOK
<1> QED BY <1>3, <1>4, <1>5, <1>6, <1>7, <1>8, <1>9, <1>10, <1>11, <1>12, <1>13, <1>14, <1>15 DEF Next

ScanOK ==
    /\ pc \in Pipeline \cup Integrating \cup {"stopped", "done"}
    /\ scan \in Scans(IF pc = "failed" THEN Torn ELSE Entries)
    /\ pc \notin Scanning => scan = NoScan
    /\ pc \notin {"done", "stopped"} => result = NoResult
ApplyOK ==
    /\ writing \in [DOMAIN writing -> Entries] /\ DOMAIN writing \subseteq Allowed
    /\ todo \subseteq DOMAIN writing /\ mine \subseteq DOMAIN writing
BoundsOK ==
    /\ late \subseteq Paths
    /\ work \in 0..MaxWork /\ edits \in 0..MaxEdits /\ errors \in 0..MaxErrors

LEMMA Parts == TypeOK <=> TreeOK /\ ScanOK /\ ApplyOK /\ BoundsOK
  BY DEF TypeOK, TreeOK, ScanOK, ApplyOK, BoundsOK

\* What the capture reads next of a tree of whole files is a capture again.
LEMMA ReadsTyped ==
    ASSUME NEW E, scan \in Scans(E), tree \in [Paths -> [head : E, index : E, work : E]],
           \/ ReadHead \/ ReadIndex \/ ReadFile \/ ReadStatus \/ ReadExplicit
           \/ ReadRecord /\ scan' = [scan EXCEPT !.left = @ \ {First}, !.made[First] = tree[First]]
    PROVE  scan' \in Scans(E)
<1> DEFINE F == [head : E, index : E, work : E]
<1>0. /\ scan = [at |-> scan.at, left |-> scan.left, baseline |-> scan.baseline,
                 extra |-> scan.extra, found |-> scan.found, made |-> scan.made]
      /\ scan.at \in {"head", "index", "files", "explicit", "records"} /\ scan.left \subseteq Paths
      /\ scan.baseline \in [Paths -> E] /\ scan.extra \subseteq Allowed
      /\ scan.found \in [Paths -> F] /\ scan.made \in [Paths -> F]
  BY DEF Scans
<1>1. \A p \in Paths : /\ tree[p] \in F /\ tree[p].head \in E /\ tree[p].index \in E /\ tree[p].work \in E
                       /\ scan.found[p] \in F /\ scan.made[p] \in F
  BY <1>0
<1>2. ASSUME NEW at \in {"head", "index", "files", "explicit", "records"}, NEW left \in SUBSET Paths,
             NEW baseline \in [Paths -> E], NEW extra \in SUBSET Allowed,
             NEW found \in [Paths -> F], NEW made \in [Paths -> F],
             scan' = [at |-> at, left |-> left, baseline |-> baseline, extra |-> extra,
                      found |-> found, made |-> made]
      PROVE  scan' \in Scans(E)
  <2> HIDE DEF F
  <2>1. scan' \in [at : {"head", "index", "files", "explicit", "records"}, left : SUBSET Paths,
                   baseline : [Paths -> E], found : [Paths -> F], extra : SUBSET Allowed, made : [Paths -> F]]
    BY <1>2
  <2> QED BY <2>1 DEF Scans, F
<1>3. scan.left # {} => First \in scan.left /\ First \in Paths
  BY <1>0 DEF First
<1>4. CASE ReadHead
  <2>1. scan' = [at |-> "index", left |-> scan.left, baseline |-> Heads(tree),
                 extra |-> scan.extra, found |-> scan.found, made |-> scan.made]
    BY <1>0, <1>4 DEF ReadHead
  <2>2. Heads(tree) \in [Paths -> E]
    BY <1>1 DEF Heads
  <2> HIDE DEF F
  <2> QED BY <1>0, <1>2, <2>1, <2>2
<1>5. CASE ReadIndex
  <2> DEFINE found == [p \in Paths |-> [scan.found[p] EXCEPT !.index = tree[p].index]]
  <2>1. scan' = [at |-> "files", left |-> Paths, baseline |-> scan.baseline,
                 extra |-> scan.extra, found |-> found, made |-> scan.made]
    BY <1>0, <1>5 DEF ReadIndex
  <2>2. found \in [Paths -> F]
    BY <1>1
  <2> HIDE DEF F, found
  <2> QED BY <1>0, <1>2, <2>1, <2>2
<1>6. CASE ReadFile
  <2> DEFINE found == [scan.found EXCEPT ![First].work = tree[First].work]
  <2>1. scan' = [at |-> scan.at, left |-> scan.left \ {First}, baseline |-> scan.baseline,
                 extra |-> scan.extra, found |-> found, made |-> scan.made]
    BY <1>0, <1>6 DEF ReadFile
  <2>2. found \in [Paths -> F]
    BY <1>0, <1>1, <1>3, <1>6 DEF ReadFile
  <2> HIDE DEF F, found
  <2> QED BY <1>0, <1>2, <2>1, <2>2
<1>7. CASE ReadStatus
  <2> DEFINE found == [p \in Paths |-> [scan.found[p] EXCEPT !.head = tree[p].head]]
  <2>1. scan' = [at |-> "explicit", left |-> scan.left, baseline |-> scan.baseline,
                 extra |-> scan.extra, found |-> found, made |-> scan.made]
    BY <1>0, <1>7 DEF ReadStatus
  <2>2. found \in [Paths -> F]
    BY <1>1
  <2> HIDE DEF F, found
  <2> QED BY <1>0, <1>2, <2>1, <2>2
<1>8. CASE ReadExplicit
  <2> DEFINE extra == {p \in Paths : Explicit(p, scan.found[p], tree[p])}
             left == extra \cup {p \in Paths : Dirty(p, scan.found[p])}
  <2>1. scan' = [at |-> "records", left |-> left, baseline |-> scan.baseline,
                 extra |-> extra, found |-> scan.found, made |-> scan.made]
    BY <1>0, <1>8 DEF ReadExplicit
  <2>2. extra \subseteq Allowed /\ left \subseteq Paths
    BY DEF Explicit
  <2> HIDE DEF F, extra, left
  <2> QED BY <1>0, <1>2, <2>1, <2>2
<1>9. CASE ReadRecord /\ scan' = [scan EXCEPT !.left = @ \ {First}, !.made[First] = tree[First]]
  <2> DEFINE made == [scan.made EXCEPT ![First] = tree[First]]
  <2>1. scan' = [at |-> scan.at, left |-> scan.left \ {First}, baseline |-> scan.baseline,
                 extra |-> scan.extra, found |-> scan.found, made |-> made]
    BY <1>0, <1>9
  <2>2. made \in [Paths -> F]
    BY <1>0, <1>1, <1>3, <1>9 DEF ReadRecord
  <2> HIDE DEF F, made
  <2> QED BY <1>0, <1>2, <2>1, <2>2
<1> QED BY <1>4, <1>5, <1>6, <1>7, <1>8, <1>9

\* A capture starts anew, goes on, or keeps to what it has.
LEMMA ScanNext ==
    ASSUME TypeOK, [Next]_vars
    PROVE  ScanOK'
<1>0. ScanOK
  BY Parts
<1> USE DEF Go, Stop, Return
<1>1. ASSUME scan' = NoScan, pc' \in Pipeline \cup Integrating \cup {"stopped", "done"},
             pc' \in {"done", "stopped"} \/ (pc \notin {"done", "stopped"} /\ UNCHANGED result)
      PROVE  ScanOK'
  BY <1>0, <1>1, NoScanTyped DEF ScanOK
<1>2. ASSUME UNCHANGED <<pc, scan, result>> PROVE ScanOK'
  BY <1>0, <1>2 DEF ScanOK
<1>3. ASSUME UNCHANGED <<pc, result>>, pc \in Scanning,
             \/ ReadHead \/ ReadIndex \/ ReadFile \/ ReadStatus \/ ReadExplicit
             \/ ReadRecord /\ scan' = [scan EXCEPT !.left = @ \ {First}, !.made[First] = tree[First]]
      PROVE  ScanOK'
  <2> DEFINE E == IF pc = "failed" THEN Torn ELSE Entries
  <2>1. tree \in [Paths -> [head : E, index : E, work : E]]
    BY <1>3 DEF TypeOK, Files, TornFiles, Scanning
  <2>2. scan \in Scans(E)
    BY <1>0 DEF ScanOK
  <2> HIDE DEF E
  <2>3. scan' \in Scans(E)
    BY <1>3, <2>1, <2>2, ReadsTyped
  <2> QED BY <1>0, <1>3, <2>3 DEF ScanOK, E
<1>16. CASE ReadHead \/ ReadIndex \/ ReadFile \/ ReadStatus \/ ReadExplicit
  BY <1>3, <1>16 DEF ReadHead, ReadIndex, ReadFile, ReadStatus, ReadExplicit
<1>17. CASE ReadRecord
  <2>1. pc \in Scanning /\ (Raised \/ (UNCHANGED <<pc, result>>
            /\ scan' = [scan EXCEPT !.left = @ \ {First}, !.made[First] = tree[First]]))
    BY <1>17 DEF ReadRecord
  <2>2. CASE Raised
    BY <1>1, <2>1, <2>2 DEF Raised, Scanning
  <2> QED BY <1>3, <1>17, <2>1, <2>2
<1>4. CASE \/ \E p \in Paths, e \in Edits \cup {Absent} : UserEdits(p, e)
           \/ \E p \in Paths : UserStages(p)
           \/ UserCommits
  BY <1>2, <1>4 DEF UserEdits, UserStages, UserCommits, UserDo
<1>5. CASE \E p \in Paths : GitRemoves(p) \/ GitCreates(p)
  BY <1>2, <1>5 DEF GitRemoves, GitCreates
<1>6. CASE UNCHANGED vars
  BY <1>2, <1>6 DEF vars
<1>7. CASE Work
  BY <1>2, <1>7 DEF Work
<1> USE DEF Pipeline, Integrating
<1>8. CASE TakeSnapshot \/ CreateWorktree \/ Materialize
  BY <1>1, <1>8 DEF TakeSnapshot, CreateWorktree, Materialize, Scanned
<1>9. CASE EndWork \/ CaptureDelta \/ Seal \/ Review
  BY <1>1, <1>9 DEF EndWork, CaptureDelta, Seal, Review, Scanned
<1>10. CASE Check \/ ApplyCheck
  BY <1>1, <1>10 DEF Check, ApplyCheck, Scanned
<1>11. CASE Simulate \/ Recheck
  BY <1>1, <1>11 DEF Simulate, Recheck, Scanned
<1>12. CASE GitReads \/ GitTurns \/ GitEnds
  BY <1>1, <1>12 DEF GitReads, GitTurns, GitEnds
<1>13. CASE GitFails
  BY <1>1, <1>13 DEF GitFails
<1>14. CASE Failed \/ Verify
  BY <1>1, <1>14 DEF Failed, Verify
<1>15. CASE CaptureFails
  BY <1>1, <1>15 DEF CaptureFails, Raised, Scanning
<1> QED BY <1>16, <1>17, <1>4, <1>5, <1>6, <1>7, <1>8, <1>9, <1>10, <1>11, <1>12, <1>13, <1>14, <1>15 DEF Next

LEMMA BoundsNext ==
    ASSUME TypeOK, [Next]_vars
    PROVE  BoundsOK'
<1> USE DEF BoundsOK, counts
<1>0. BoundsOK /\ MaxWork \in Nat /\ MaxEdits \in Nat /\ MaxErrors \in Nat
  BY Parts, BoundsAssumption
<1>1. CASE ReadHead \/ ReadIndex \/ ReadFile \/ ReadStatus \/ ReadExplicit \/ ReadRecord
  BY <1>0, <1>1 DEF ReadHead, ReadIndex, ReadFile, ReadStatus, ReadExplicit, ReadRecord
<1>2. CASE TakeSnapshot \/ CreateWorktree \/ Materialize
  BY <1>0, <1>2 DEF TakeSnapshot, CreateWorktree, Materialize
<1>3. CASE Work
  BY <1>0, <1>3 DEF Work
<1>4. CASE EndWork \/ CaptureDelta \/ Seal \/ Review
  BY <1>0, <1>4 DEF EndWork, CaptureDelta, Seal, Review
<1>5. CASE Check \/ ApplyCheck \/ Simulate \/ Recheck
  BY <1>0, <1>5 DEF Check, ApplyCheck, Simulate, Recheck
<1>6. CASE GitReads \/ GitTurns \/ GitEnds
  BY <1>0, <1>6 DEF GitReads, GitTurns, GitEnds
<1>7. CASE GitFails \/ CaptureFails
  BY <1>0, <1>7 DEF GitFails, CaptureFails
<1>8. CASE Failed \/ Verify
  BY <1>0, <1>8 DEF Failed, Verify
<1>9. CASE \E p \in Paths : GitRemoves(p) \/ GitCreates(p)
  BY <1>0, <1>9 DEF GitRemoves, GitCreates
<1>10. CASE \/ \E p \in Paths, e \in Edits \cup {Absent} : UserEdits(p, e)
            \/ \E p \in Paths : UserStages(p)
            \/ UserCommits
  <2>1. /\ edits < MaxEdits /\ edits' = edits + 1 /\ UNCHANGED <<work, errors>>
        /\ late' = late \cup {p \in Paths : Overtakes(p)}
    BY <1>10 DEF UserEdits, UserStages, UserCommits, UserDo
  <2> QED BY <1>0, <2>1
<1>11. CASE UNCHANGED vars
  BY <1>0, <1>11 DEF vars
<1> QED BY <1>1, <1>2, <1>3, <1>4, <1>5, <1>6, <1>7, <1>8, <1>9, <1>10, <1>11 DEF Next

ApplyInv == ApplyOK /\ WriteInv

\* Between the stages in which git apply writes, nothing but the user touches
\* what it left, and the user's file is no longer its own.
LEMMA ApplyKept ==
    ASSUME ApplyInv, UNCHANGED <<apply, mine>>,
           base' = base \/ (pc \notin Applying),
           \A p \in mine : tree'[p].work = tree[p].work,
           pc \in Applying => pc' \in Applying,
           pc' \in {"remove", "create"} => pc' = pc
    PROVE  ApplyInv'
<1>1. ApplyOK'
  BY DEF ApplyInv, ApplyOK, apply
<1>2. pc \notin Applying => mine = {} /\ todo = {} /\ writing = <<>>
  BY DEF ApplyInv, WriteInv
<1>3. DOMAIN <<>> = {}
  OBVIOUS
<1>4. \A p \in DOMAIN writing' : Exists(writing'[p]) => writing'[p] # base'[p]
  BY <1>2, <1>3 DEF ApplyInv, WriteInv, apply
<1>5. \A p \in mine' : tree'[p].work # base'[p]
  BY <1>2 DEF ApplyInv, WriteInv
<1>6. pc' \notin Applying => mine' = {} /\ todo' = {} /\ writing' = <<>>
  BY <1>2 DEF apply
<1>7. /\ pc' = "remove" => \A p \in todo' : Exists(base'[p])
      /\ pc' = "create" => \A p \in todo' : Exists(writing'[p])
  BY DEF ApplyInv, WriteInv, apply, Applying
<1> QED BY <1>1, <1>4, <1>5, <1>6, <1>7 DEF ApplyInv, WriteInv

LEMMA ApplyNext ==
    ASSUME TypeOK, EvidenceInv, WriteInv, [Next]_vars
    PROVE  ApplyInv'
<1>0. ApplyInv
  BY Parts DEF ApplyInv
<1> USE DEF Go, Stop, Return
<1>1. CASE GitReads
  <2>1. CASE pc' = "remove"
    <3>1. pc = "apply" /\ UNCHANGED <<tree, mine, base>>
      BY <1>1 DEF GitReads, evidence
    <3>2. mine = {}
      BY <3>1 DEF WriteInv, Applying
    <3>3. PathsOf(delta) \subseteq Allowed
      BY <3>1, DeltaOf DEF Drawn, Working, Integrating
    <3>4. /\ writing' \in [DOMAIN writing' -> Entries] /\ DOMAIN writing' = PathsOf(delta)
          /\ \A p \in DOMAIN writing' : Exists(writing'[p]) => writing'[p] # base[p]
          /\ todo' \subseteq DOMAIN writing' /\ \A p \in todo' : Exists(base[p])
      BY <1>1, <2>1, GitWrites
    <3> QED BY <2>1, <3>1, <3>2, <3>3, <3>4 DEF ApplyInv, ApplyOK, WriteInv, Applying
  <2>2. CASE pc' # "remove"
    BY <1>0, <1>1, <2>2, ApplyKept DEF GitReads, Applying, evidence
  <2> QED BY <2>1, <2>2
<1>2. CASE \E p \in Paths : GitRemoves(p)
  <2> PICK p \in Paths : GitRemoves(p)
    BY <1>2
  <2>1. /\ pc = "remove" /\ pc' = pc /\ p \in todo /\ UNCHANGED <<base, writing>>
        /\ tree' = [tree EXCEPT ![p].work = Absent] /\ todo' = todo \ {p} /\ mine' = mine \cup {p}
    BY DEF GitRemoves, evidence
  <2>2. tree \in [Paths -> Files]
    BY <2>1 DEF TypeOK
  <2>3. Exists(base[p]) /\ tree'[p].work = Absent
    BY <2>1, <2>2 DEF WriteInv, Files
  <2>4. \A q \in mine : q # p => tree'[q].work = tree[q].work
    BY <2>1, <2>2 DEF Files
  <2>5. tree'[p].work # base[p]
    BY <2>3 DEF Exists, Absent
  <2>6. \A q \in mine' : tree'[q].work # base'[q]
    BY <2>1, <2>4, <2>5 DEF WriteInv
  <2> QED BY <1>0, <2>1, <2>6 DEF ApplyInv, ApplyOK, WriteInv, Applying
<1>3. CASE \E p \in Paths : GitCreates(p)
  <2> PICK p \in Paths : GitCreates(p)
    BY <1>3
  <2>1. /\ pc = "create" /\ pc' = pc /\ p \in todo /\ UNCHANGED <<base, writing>>
        /\ tree' = [tree EXCEPT ![p].work = writing[p]] /\ todo' = todo \ {p} /\ mine' = mine \cup {p}
    BY DEF GitCreates, evidence
  <2>2. tree \in [Paths -> Files]
    BY <2>1 DEF TypeOK
  <2>3. tree'[p].work = writing[p] /\ writing[p] # base[p]
    BY <1>0, <2>1, <2>2 DEF ApplyInv, ApplyOK, WriteInv, Files
  <2>4. \A q \in mine : q # p => tree'[q].work = tree[q].work
    BY <2>1, <2>2 DEF Files
  <2>6. \A q \in mine' : tree'[q].work # base'[q]
    BY <2>1, <2>3, <2>4 DEF WriteInv
  <2> QED BY <1>0, <2>1, <2>6 DEF ApplyInv, ApplyOK, WriteInv, Applying
<1>4. CASE GitFails
  <2>0. /\ pc \in {"apply", "remove", "create"} /\ pc' = "failed"
        /\ UNCHANGED <<base, writing, todo>>
    BY <1>4 DEF GitFails, evidence, apply
  <2>1. CASE UNCHANGED <<tree, mine>>
    BY <1>0, <2>0, <2>1, ApplyKept DEF Applying, apply
  <2>2. CASE \E p \in todo : /\ pc = "create" /\ mine' = mine \cup {p}
                             /\ tree' = [tree EXCEPT ![p].work = [writing[p] EXCEPT !.content = <<>>]]
    <3> PICK p \in todo : /\ pc = "create" /\ mine' = mine \cup {p}
                          /\ tree' = [tree EXCEPT ![p].work = [writing[p] EXCEPT !.content = <<>>]]
      BY <2>2
    <3>1. p \in DOMAIN writing /\ writing[p] \in Entries /\ Exists(writing[p]) /\ p \in Paths /\ p \in Allowed
      BY PathsAssumption DEF TypeOK, WriteInv
    <3>2. tree \in [Paths -> Files]
      BY DEF TypeOK
    <3>3. tree'[p].work = [writing[p] EXCEPT !.content = <<>>]
      BY <3>1, <3>2 DEF Files
    <3>4. tree'[p].work \notin Entries
      BY <3>1, <3>3, TornApart DEF Torn
    <3>5. base[p] \in Entries
      BY <3>1, BaseTyped DEF Working, Integrating
    <3>6. \A q \in mine : q # p => tree'[q].work = tree[q].work
      BY <3>1, <3>2 DEF Files
    <3>7. \A q \in mine' : tree'[q].work # base'[q]
      BY <2>0, <3>4, <3>5, <3>6 DEF WriteInv
    <3> QED BY <1>0, <2>0, <3>1, <3>7 DEF ApplyInv, ApplyOK, WriteInv, Applying
  <2> QED BY <1>4, <2>1, <2>2 DEF GitFails
<1>5. CASE GitTurns
  <2>1. /\ pc = "remove" /\ pc' = "create" /\ UNCHANGED <<tree, base, writing, mine>>
        /\ todo' = {p \in DOMAIN writing : Exists(writing[p])}
    BY <1>5 DEF GitTurns, evidence
  <2> QED BY <1>0, <2>1 DEF ApplyInv, ApplyOK, WriteInv, Applying
<1>6. CASE ReadHead \/ ReadIndex \/ ReadFile \/ ReadStatus \/ ReadExplicit
  BY <1>0, <1>6, ApplyKept DEF ReadHead, ReadIndex, ReadFile, ReadStatus, ReadExplicit, evidence, apply
<1>7. CASE \/ \E p \in Paths, e \in Edits \cup {Absent} : UserEdits(p, e)
           \/ \E p \in Paths : UserStages(p)
           \/ UserCommits
  <2>1. UNCHANGED <<pc, apply, base>>
    BY <1>7 DEF UserEdits, UserStages, UserCommits, UserDo, evidence
  <2>2. mine' \subseteq mine /\ \A p \in mine' : tree'[p].work = tree[p].work
    <3>0. mine \subseteq Paths /\ tree \in [Paths -> IF pc \in {"failed", "done"} THEN TornFiles ELSE Files]
      BY PathsAssumption DEF TypeOK
    <3>1. CASE \E p \in Paths, e \in Edits \cup {Absent} : UserEdits(p, e)
      <4> PICK p \in Paths, e \in Edits \cup {Absent} : UserEdits(p, e)
        BY <3>1
      <4>1. tree' = [tree EXCEPT ![p].work = e] /\ mine' = mine \ {p}
        BY DEF UserEdits, UserDo
      <4> QED BY <3>0, <4>1
    <3>2. CASE \E p \in Paths : UserStages(p)
      <4> PICK p \in Paths : UserStages(p)
        BY <3>2
      <4>1. tree' = [tree EXCEPT ![p].index = tree[p].work] /\ mine' = mine \ {}
        BY DEF UserStages, UserDo
      <4> QED BY <3>0, <4>1 DEF Files, TornFiles
    <3>3. CASE UserCommits
      <4>1. tree' = [p \in Paths |-> [tree[p] EXCEPT !.head = tree[p].index]] /\ mine' = mine \ {}
        BY <3>3 DEF UserCommits, UserDo
      <4> QED BY <3>0, <4>1 DEF Files, TornFiles
    <3> QED BY <1>7, <3>1, <3>2, <3>3
  <2> QED BY <1>0, <2>1, <2>2 DEF ApplyInv, ApplyOK, WriteInv, apply
<1>8. CASE UNCHANGED vars
  BY <1>0, <1>8, ApplyKept DEF vars, evidence
<1>9. CASE TakeSnapshot \/ CreateWorktree \/ Materialize
  BY <1>0, <1>9, ApplyKept DEF TakeSnapshot, CreateWorktree, Materialize, Scanned, Applying
<1>10. CASE Work \/ EndWork \/ CaptureDelta \/ Seal \/ Review
  BY <1>0, <1>10, ApplyKept DEF Work, EndWork, CaptureDelta, Seal, Review, Scanned, Applying, evidence
<1>11. CASE Check \/ ApplyCheck \/ Simulate \/ Recheck
  BY <1>0, <1>11, ApplyKept DEF Check, ApplyCheck, Simulate, Recheck, Scanned, Applying, evidence
<1>12. CASE GitEnds
  BY <1>0, <1>12, ApplyKept DEF GitEnds, Applying, evidence
<1>13. CASE Failed \/ Verify
  BY <1>0, <1>13, ApplyKept DEF Failed, Verify, Scanned, Applying, evidence
<1>14. CASE ReadRecord \/ CaptureFails
  BY <1>0, <1>14, ApplyKept DEF ReadRecord, CaptureFails, Raised, Scanning, Pipeline, Applying, evidence
<1> QED BY <1>1, <1>2, <1>3, <1>4, <1>5, <1>6, <1>7, <1>8, <1>9, <1>10, <1>11, <1>12, <1>13, <1>14
       DEF Next

\* What a capture has read is what is there, or the user has been there.
LEMMA ReadsKept ==
    ASSUME TypeOK, ScanInv, NEW p \in Paths \ late,
           \/ ReadIndex \/ ReadFile \/ ReadStatus \/ ReadExplicit
           \/ ReadRecord /\ scan' = [scan EXCEPT !.left = @ \ {First}, !.made[First] = tree[First]]
    PROVE  Read(p)'
<1> DEFINE F == [head : Torn, index : Torn, work : Torn]
<1>0. /\ scan = [at |-> scan.at, left |-> scan.left, baseline |-> scan.baseline,
                 extra |-> scan.extra, found |-> scan.found, made |-> scan.made]
      /\ scan.at \in {"head", "index", "files", "explicit", "records"} /\ scan.left \subseteq Paths
      /\ scan.found \in [Paths -> F] /\ scan.made \in [Paths -> F]
      /\ \A q \in Paths : tree[q] \in F
  <2>1. scan \in Scans(Entries) \/ scan \in Scans(Torn)
    BY DEF TypeOK
  <2>2. scan \in Scans(Torn)
    BY <2>1 DEF Scans, Torn
  <2>3. \A q \in Paths : tree[q] \in TornFiles
    BY FilesAreTorn DEF TypeOK
  <2> QED BY <2>2, <2>3 DEF Scans, TornFiles
<1>1. Read(p)
  BY DEF ScanInv
<1>2. scan.left # {} => First \in scan.left /\ First \in Paths
  BY <1>0 DEF First
<1>3. tree' = tree /\ tree[p] \in F /\ scan.found[p] \in F
  BY <1>0 DEF ReadIndex, ReadFile, ReadStatus, ReadExplicit, ReadRecord
<1>4. CASE ReadIndex
  <2>1. /\ scan.at = "index" /\ scan'.at = "files" /\ scan'.left = Paths /\ scan'.baseline = scan.baseline
        /\ scan'.found = [q \in Paths |-> [scan.found[q] EXCEPT !.index = tree[q].index]]
    BY <1>0, <1>4 DEF ReadIndex
  <2>2. scan'.found[p].index = tree[p].index
    BY <1>3, <2>1
  <2> QED BY <1>1, <1>3, <2>1, <2>2 DEF Read
<1>5. CASE ReadFile
  <2>1. /\ scan.at = "files" /\ scan'.at = "files" /\ scan'.left = scan.left \ {First}
        /\ scan'.baseline = scan.baseline /\ First \in Paths
        /\ scan'.found = [scan.found EXCEPT ![First].work = tree[First].work]
    BY <1>0, <1>2, <1>5 DEF ReadFile
  <2>2. scan'.found[p].index = scan.found[p].index
    BY <1>0, <2>1
  <2>3. scan'.found[p].work = IF p = First THEN tree[p].work ELSE scan.found[p].work
    BY <1>0, <2>1
  <2> QED BY <1>1, <1>3, <2>1, <2>2, <2>3 DEF Read
<1>6. CASE ReadStatus
  <2>1. /\ scan.at = "files" /\ scan.left = {} /\ scan'.at = "explicit" /\ scan'.baseline = scan.baseline
        /\ scan'.found = [q \in Paths |-> [scan.found[q] EXCEPT !.head = tree[q].head]]
    BY <1>0, <1>6 DEF ReadStatus
  <2>2. /\ scan'.found[p].head = tree[p].head /\ scan'.found[p].index = scan.found[p].index
        /\ scan'.found[p].work = scan.found[p].work
    BY <1>3, <2>1
  <2> QED BY <1>1, <1>3, <2>1, <2>2 DEF Read
<1>7. CASE ReadExplicit
  <2>1. /\ scan.at = "explicit" /\ scan'.at = "records" /\ scan'.baseline = scan.baseline
        /\ scan'.found = scan.found
        /\ scan'.extra = {q \in Paths : Explicit(q, scan.found[q], tree[q])}
        /\ scan'.left = scan'.extra \cup {q \in Paths : Dirty(q, scan.found[q])}
    BY <1>0, <1>7 DEF ReadExplicit
  <2>2. scan.found[p] = tree[p]
    BY <1>1, <1>3, <2>1 DEF Read
  <2> QED BY <1>1, <1>3, <2>1, <2>2 DEF Read
<1>8. CASE ReadRecord /\ scan' = [scan EXCEPT !.left = @ \ {First}, !.made[First] = tree[First]]
  <2>1. /\ scan.at = "records" /\ scan'.at = "records" /\ scan'.baseline = scan.baseline
        /\ scan'.found = scan.found /\ scan'.extra = scan.extra /\ First \in Paths
        /\ scan'.left = scan.left \ {First} /\ scan'.made = [scan.made EXCEPT ![First] = tree[First]]
    BY <1>0, <1>2, <1>8 DEF ReadRecord
  <2>2. scan'.made[p] = IF p = First THEN tree[p] ELSE scan.made[p]
    BY <1>0, <2>1
  <2> QED BY <1>1, <1>3, <2>1, <2>2 DEF Read
<1> QED BY <1>4, <1>5, <1>6, <1>7, <1>8

LEMMA ScanKept ==
    ASSUME TypeOK, ScanInv, TreeOK', [Next]_vars
    PROVE  ScanInv'
<1> USE DEF Go, Stop, Return
<1>1. ASSUME scan' = NoScan PROVE ScanInv'
  BY <1>1, NoScanTyped DEF ScanInv, Read
<1>2. ASSUME UNCHANGED <<tree, scan, late>> PROVE ScanInv'
  BY <1>2 DEF ScanInv, Read
<1>3. CASE ReadIndex \/ ReadFile \/ ReadStatus \/ ReadExplicit
  <2>1. late' = late
    BY <1>3 DEF ReadIndex, ReadFile, ReadStatus, ReadExplicit
  <2> QED BY <1>3, <2>1, ReadsKept DEF ScanInv
<1>13. CASE ReadHead
  <2>1. scan'.at = "index" /\ scan'.baseline = Heads(tree) /\ tree' = tree
    <3>1. scan = [at |-> scan.at, left |-> scan.left, baseline |-> scan.baseline,
                  extra |-> scan.extra, found |-> scan.found, made |-> scan.made]
      BY DEF TypeOK, Scans
    <3> QED BY <1>13, <3>1 DEF ReadHead
  <2> QED BY <2>1 DEF ScanInv, Read, Heads
<1>14. CASE ReadRecord
  <2>1. late' = late /\ (scan' = NoScan
            \/ scan' = [scan EXCEPT !.left = @ \ {First}, !.made[First] = tree[First]])
    BY <1>14 DEF ReadRecord, Raised
  <2> QED BY <1>1, <1>14, <2>1, ReadsKept DEF ScanInv
<1>4. CASE \/ \E p \in Paths, e \in Edits \cup {Absent} : UserEdits(p, e)
           \/ \E p \in Paths : UserStages(p)
           \/ UserCommits
  <2>1. scan' = scan /\ late' = late \cup {p \in Paths : Overtakes(p)}
    BY <1>4 DEF UserEdits, UserStages, UserCommits, UserDo
  <2>2. SUFFICES ASSUME NEW p \in Paths \ late' PROVE Read(p)'
    BY DEF ScanInv
  <2>3. p \in Paths \ late /\ ~Overtakes(p) /\ Read(p)
    BY <2>1, <2>2 DEF ScanInv
  <2>4. /\ scan.at # "head" => tree'[p].head = tree[p].head
        /\ scan.at \notin {"head", "index"} => tree'[p].index = tree[p].index
        /\ scan.at \in {"explicit", "records"} \/ (scan.at = "files" /\ p \notin scan.left) =>
              tree'[p].work = tree[p].work
    BY <2>3 DEF Overtakes
  <2>5. scan.at = "records" => tree'[p] = tree[p]
    <3>1. tree[p] \in TornFiles /\ tree'[p] \in TornFiles
      BY <2>3, FilesAreTorn DEF TypeOK, TreeOK
    <3> QED BY <2>4, <3>1 DEF TornFiles
  <2> QED BY <2>1, <2>3, <2>4, <2>5 DEF Read
<1>5. CASE \E p \in Paths : GitRemoves(p) \/ GitCreates(p)
  <2>1. scan' = scan /\ pc \in {"remove", "create"}
    BY <1>5 DEF GitRemoves, GitCreates
  <2> QED BY <1>1, <2>1 DEF TypeOK, Scanning
<1>6. CASE UNCHANGED vars
  BY <1>2, <1>6 DEF vars
<1>7. CASE Work
  BY <1>2, <1>7 DEF Work
<1>8. CASE TakeSnapshot \/ CreateWorktree \/ Materialize
  BY <1>1, <1>8 DEF TakeSnapshot, CreateWorktree, Materialize
<1>9. CASE EndWork \/ CaptureDelta \/ Seal \/ Review
  BY <1>1, <1>9 DEF EndWork, CaptureDelta, Seal, Review
<1>10. CASE Check \/ ApplyCheck \/ Simulate \/ Recheck
  BY <1>1, <1>10 DEF Check, ApplyCheck, Simulate, Recheck
<1>11. CASE GitReads \/ GitTurns \/ GitEnds \/ GitFails
  BY <1>1, <1>11 DEF GitReads, GitTurns, GitEnds, GitFails
<1>12. CASE Failed \/ Verify \/ CaptureFails
  BY <1>1, <1>12 DEF Failed, Verify, CaptureFails, Raised
<1> QED BY <1>3, <1>4, <1>5, <1>6, <1>7, <1>8, <1>9, <1>10, <1>11, <1>12, <1>13, <1>14 DEF Next

LEMMA InvInit == Init => Inv
<1> SUFFICES ASSUME Init PROVE Inv
  OBVIOUS
<1>1. TypeOK /\ EvidenceInv
  BY TypeInit, EvidenceInit
<1>2. scan.at = "head" /\ writing = <<>> /\ mine = {} /\ todo = {} /\ pc = "snapshot" /\ DOMAIN <<>> = {}
  BY NoScanTyped DEF Init
<1> QED BY <1>1, <1>2 DEF Inv, WriteInv, ScanInv, Read

LEMMA InvNext == Inv /\ [Next]_vars => Inv'
<1> SUFFICES ASSUME Inv, [Next]_vars PROVE Inv'
  OBVIOUS
<1>1. TypeOK /\ EvidenceInv /\ WriteInv /\ ScanInv
  BY DEF Inv
<1>2. TreeOK'
  BY <1>1, TreeNext
<1>3. ScanOK' /\ BoundsOK'
  BY <1>1, ScanNext, BoundsNext
<1>4. ApplyOK' /\ WriteInv'
  BY <1>1, ApplyNext DEF ApplyInv
<1>5. TypeOK'
  BY <1>2, <1>3, <1>4 DEF TypeOK, TreeOK, ScanOK, ApplyOK, BoundsOK
<1>6. EvidenceInv' /\ ScanInv'
  BY <1>1, <1>2, EvidenceNext, ScanKept
<1> QED BY <1>4, <1>5, <1>6 DEF Inv

LEMMA Invariant == Spec => []Inv
  BY InvInit, InvNext, PTL DEF Spec

\* The pipeline keeps its types: trees are of whole files but after a failed git
\* apply, captures and writes are under way only in their stages, and git apply
\* is handed allowed paths only.
THEOREM TypeCorrect == Spec => []TypeOK
  BY Invariant, PTL DEF Inv

-----------------------------------------------------------------------------
(* What integrate reports.                                                 *)

\* A capture that is done shows every allowed path as it is, unless the user has
\* overtaken it there.
LEMMA ScanPictures ==
    ASSUME TypeOK, ScanInv, scan.at = "records", scan.left = {}, NEW p \in Allowed \ late
    PROVE  Pictures(Captured(scan), p, tree[p]) /\ Captured(scan).baseline[p] = tree[p].head
<1>1. p \in Paths /\ Read(p) /\ tree[p] \in TornFiles
  BY PathsAssumption, FilesAreTorn DEF ScanInv, TypeOK
<1>2. scan.found[p] \in TornFiles
  <2>1. scan \in Scans(Entries) \/ scan \in Scans(Torn)
    BY DEF TypeOK
  <2>2. scan.found \in [Paths -> [head : Torn, index : Torn, work : Torn]]
    BY <2>1 DEF Scans, Torn
  <2> QED BY <1>1, <2>2 DEF TornFiles
<1>3. scan.found[p] = tree[p]
  BY <1>1, <1>2 DEF Read, TornFiles
<1>4. (p \in scan.extra <=> Explicit(p, tree[p], tree[p]))
      /\ (Dirty(p, tree[p]) \/ p \in scan.extra => scan.made[p] = tree[p])
  BY <1>1 DEF Read
<1>5. Pictures(Captured(scan), p, tree[p])
  BY <1>1, <1>3, <1>4, Pictured
<1>6. Captured(scan).baseline = scan.baseline
  BY DEF Captured
<1> QED BY <1>1, <1>5, <1>6 DEF Read

\* A file of which a snapshot shows what the source had is as the delta was taken
\* from it, or no capture shows it.
LEMMA SourceFile ==
    ASSUME Inv, pc \in Working, NEW p \in Allowed, NEW f \in TornFiles,
           Pictures(snapshot, p, f), snapshot.baseline[p] = f.head, ~Hidden(p)
    PROVE  f.work = base[p]
<1>0. p \in Paths /\ Allowed \subseteq Paths
  BY PathsAssumption
<1>1. PICK u \in Trees : Agrees(snapshot, u)
  BY DEF Inv, EvidenceInv
<1>2. base[p] = IF Lost(p, u[p]) THEN Absent ELSE u[p].work
  BY <1>1, WorktreeTyped DEF Inv, EvidenceInv
<1>3. u \in [Paths -> TornFiles] /\ u[p] \in TornFiles
  BY <1>0, FilesAreTorn
<1>4. /\ snapshot.baseline[p] = u[p].head /\ Indexed(snapshot)[p] = u[p].index
  <2>1. /\ snapshot.baseline = Heads(u)
        /\ Indexed(snapshot) = [x \in Paths |-> IF x \in Allowed THEN u[x].index ELSE u[x].head]
    BY <1>1, Recreation
  <2> QED BY <1>0, <2>1 DEF Heads
<1>5. Pictures(snapshot, p, u[p])
  <2>1. Pictures(Capture(u), p, u[p])
    BY <1>3, CapturePictures
  <2> QED BY <1>1, <2>1 DEF Agrees, Pictures
<1>6. /\ f.index = u[p].index
      /\ f.work = u[p].work \/ (p \in Ignored /\ Exists(u[p].head) /\ ~Exists(u[p].index))
  BY <1>3, <1>4, <1>5, SameFile
<1>8. ~(p \in Ignored /\ Exists(u[p].head) /\ ~Exists(u[p].index))
  BY <1>4 DEF Hidden
<1>9. ~Lost(p, u[p])
  <2>1. u[p].head \in Torn /\ u[p].index \in Torn
    BY <1>3 DEF TornFiles
  <2>2. /\ ~Exists(u[p].head) => u[p].head = Absent
        /\ ~Exists(u[p].index) => u[p].index = Absent
    BY <2>1, EntryParts
  <2>3. Shows(p, u[p]) <=> Untracked(u[p]) /\ (p \in Ignored => ~Staged(u[p]))
    BY ShowsIs
  <2> QED BY <1>8, <2>2, <2>3 DEF Lost, Untracked, Staged
<1> QED BY <1>2, <1>6, <1>8, <1>9

\* A step to a result of nothing applied comes before git apply, or from the
\* capture after a failed one.
LEMMA TruthNext == Inv /\ TellsTheTruth /\ [Next]_vars => TellsTheTruth'
<1> SUFFICES ASSUME Inv, TellsTheTruth, [Next]_vars PROVE TellsTheTruth'
  OBVIOUS
<1> USE DEF Go, Stop, Return
<1>1. ASSUME pc' # "done" PROVE TellsTheTruth'
  BY <1>1 DEF TellsTheTruth
<1>2. ASSUME mine' = {} PROVE TellsTheTruth'
  BY <1>2 DEF TellsTheTruth
<1>3. pc \notin Applying => mine = {}
  BY DEF Inv, WriteInv
<1>4. CASE Failed
  <2>1. /\ pc = "failed" /\ scan.at = "records" /\ scan.left = {} /\ UNCHANGED <<mine, late, snapshot>>
        /\ result'.applied = ~SameSource
    BY <1>4 DEF Failed, Scanned, evidence
  <2>2. SUFFICES ASSUME SameSource, NEW p \in mine \ late, ~Hidden(p) PROVE FALSE
    BY <2>1 DEF TellsTheTruth, Hidden
  <2>3. p \in Allowed /\ p \in Paths /\ tree[p] \in TornFiles
    BY <2>1, PathsAssumption DEF Inv, TypeOK
  <2>4. Pictures(snapshot, p, tree[p]) /\ snapshot.baseline[p] = tree[p].head
    BY <2>1, <2>2, <2>3, ScanPictures DEF Inv, SameSource
  <2>5. tree[p].work = base[p]
    BY <2>1, <2>2, <2>3, <2>4, SourceFile DEF Working, Integrating
  <2> QED BY <2>2, <2>5 DEF Inv, WriteInv
<1>5. CASE ReadRecord \/ CaptureFails
  <2>1. CASE pc \in Pipeline \/ pc' = pc
    BY <1>1, <1>5, <2>1 DEF ReadRecord, CaptureFails, Raised, Scanning, Pipeline
  <2>2. CASE pc \notin Pipeline /\ pc' # pc
    <3>1. /\ pc \in {"check", "simulate", "recheck", "failed", "verify"} /\ UNCHANGED mine
          /\ result'.applied = (pc \in {"failed", "verify"})
      BY <1>5, <2>2 DEF ReadRecord, CaptureFails, Raised, Pipeline, Scanning
    <3> QED BY <1>3, <3>1 DEF TellsTheTruth, Applying
  <2> QED BY <2>1, <2>2
<1>6. CASE Verify
  <2>1. result'.applied = TRUE
    BY <1>6 DEF Verify
  <2> QED BY <2>1 DEF TellsTheTruth
<1>7. CASE Check \/ ApplyCheck \/ Simulate \/ Recheck
  <2>1. pc \notin Applying /\ UNCHANGED mine
    BY <1>7 DEF Check, ApplyCheck, Simulate, Recheck, Scanned, Applying
  <2> QED BY <1>2, <1>3, <2>1
<1>8. CASE UNCHANGED vars
  BY <1>8 DEF TellsTheTruth, vars, Hidden, evidence
<1>9. CASE TakeSnapshot \/ CreateWorktree \/ Materialize
  BY <1>1, <1>9 DEF TakeSnapshot, CreateWorktree, Materialize
<1>10. CASE Work \/ EndWork \/ CaptureDelta \/ Seal \/ Review
  BY <1>1, <1>10 DEF Work, EndWork, CaptureDelta, Seal, Review
<1>11. CASE GitReads \/ GitTurns \/ GitEnds \/ GitFails
  BY <1>1, <1>11 DEF GitReads, GitTurns, GitEnds, GitFails
<1>12. CASE \E p \in Paths : GitRemoves(p) \/ GitCreates(p)
  BY <1>1, <1>12 DEF GitRemoves, GitCreates
<1>14. CASE ReadHead \/ ReadIndex \/ ReadFile \/ ReadStatus \/ ReadExplicit
  BY <1>1, <1>14 DEF ReadHead, ReadIndex, ReadFile, ReadStatus, ReadExplicit, Scanning
<1>13. CASE \/ \E p \in Paths, e \in Edits \cup {Absent} : UserEdits(p, e)
            \/ \E p \in Paths : UserStages(p)
            \/ UserCommits
  BY <1>1, <1>13 DEF UserEdits, UserStages, UserCommits, UserDo, Pipeline, Integrating
<1> QED BY <1>4, <1>5, <1>6, <1>7, <1>8, <1>9, <1>10, <1>11, <1>12, <1>13, <1>14 DEF Next

\* A result that says it applied nothing leaves no file as git apply left it, but
\* where the user overtook the capture that looked for it: what git apply leaves is
\* never the file the delta was taken from, so where that capture is the snapshot
\* and shows the file, the user has put it back.
THEOREM NothingApplied == Spec => []TellsTheTruth
<1>1. Init => TellsTheTruth
  BY DEF Init, TellsTheTruth
<1> QED BY <1>1, Invariant, TruthNext, PTL DEF Spec

-----------------------------------------------------------------------------
(* What was verified, and what can be replayed.                            *)

\* A capture is its five parts.
LEMMA SameCapture ==
    ASSUME NEW t, NEW u, Captured(t).baseline = Captured(u).baseline,
           Captured(t).staged = Captured(u).staged, Captured(t).unstaged = Captured(u).unstaged,
           Captured(t).untracked = Captured(u).untracked, Captured(t).private = Captured(u).private
    PROVE  Captured(t) = Captured(u)
<1>1. ASSUME NEW s
      PROVE  Captured(s) = [baseline |-> Captured(s).baseline, staged |-> Captured(s).staged,
                            unstaged |-> Captured(s).unstaged, untracked |-> Captured(s).untracked,
                            private |-> Captured(s).private]
  BY DEF Captured
<1> QED BY <1>1

\* Two trees that agree on what is allowed give the same records of it.
LEMMA SameSections ==
    ASSUME NEW t \in [Paths -> TornFiles], NEW u \in [Paths -> TornFiles],
           \A p \in Allowed : t[p] = u[p]
    PROVE  /\ Capture(t).staged = Capture(u).staged /\ Capture(t).unstaged = Capture(u).unstaged
           /\ Capture(t).untracked = Capture(u).untracked
<1>1. \A p \in Allowed : /\ Heads(t)[p] = Heads(u)[p] /\ Indexes(t)[p] = Indexes(u)[p]
                         /\ Works(t)[p] = Works(u)[p]
  BY PathsAssumption DEF Heads, Indexes, Works
<1>2. ASSUME NEW Q \in SUBSET Allowed
      PROVE  /\ Section(Q, Heads(t), Indexes(t)) = Section(Q, Heads(u), Indexes(u))
             /\ Section(Q, Indexes(t), Works(t)) = Section(Q, Indexes(u), Works(u))
             /\ Section(Q, Nothing, Works(t)) = Section(Q, Nothing, Works(u))
  <2>1. \A p \in Q : /\ Record(p, Heads(t)[p], Indexes(t)[p]) = Record(p, Heads(u)[p], Indexes(u)[p])
                     /\ Record(p, Indexes(t)[p], Works(t)[p]) = Record(p, Indexes(u)[p], Works(u)[p])
                     /\ Record(p, Nothing[p], Works(t)[p]) = Record(p, Nothing[p], Works(u)[p])
    BY <1>1
  <2> QED BY <2>1 DEF Section
<1> DEFINE st(w) == {p \in Allowed : Staged(w[p])}
           un(w) == {p \in Allowed : Unstaged(w[p])}
           sh(w) == {p \in Allowed : Shows(p, w[p])}
<1>3. st(t) = st(u) /\ un(t) = un(u) /\ sh(t) = sh(u)
  OBVIOUS
<1>4. st(u) \in SUBSET Allowed /\ un(u) \in SUBSET Allowed /\ sh(u) \in SUBSET Allowed
  OBVIOUS
<1>5. /\ Capture(t).staged = Section(st(t), Heads(t), Indexes(t))
      /\ Capture(u).staged = Section(st(u), Heads(u), Indexes(u))
      /\ Capture(t).unstaged = Section(un(t), Indexes(t), Works(t))
      /\ Capture(u).unstaged = Section(un(u), Indexes(u), Works(u))
      /\ Capture(t).untracked = Section(sh(t), Nothing, Works(t))
      /\ Capture(u).untracked = Section(sh(u), Nothing, Works(u))
  BY CaptureFields
<1> HIDE DEF st, un, sh
<1> QED BY <1>2, <1>3, <1>4, <1>5

\* The worker leaves the index of what is allowed as the snapshot has it.
LEMMA IndexLeft ==
    ASSUME EvidenceInv, pc \in Drawn, projected.baseline = snapshot.baseline, NEW p \in Paths
    PROVE  /\ snapshot.baseline[p] = wt[p].head
           /\ p \in Allowed => Indexed(snapshot)[p] = wt[p].index
           /\ p \notin Allowed => Indexed(snapshot)[p] = wt[p].head
<1>1. projected = Capture(wt) /\ InScope(projected, snapshot) /\ wt \in Trees
  BY BaseTyped DEF EvidenceInv, Drawn
<1>2. Indexed(projected) = Indexed(snapshot)
  BY <1>1 DEF Indexed, InScope
<1>3. /\ Indexed(projected) = [x \in Paths |-> IF x \in Allowed THEN wt[x].index ELSE wt[x].head]
      /\ projected.baseline = Heads(wt)
  BY <1>1, Recreation DEF Agrees
<1> QED BY <1>2, <1>3 DEF Heads

\* A file shown by the records of the projection is the worker's.
LEMMA ResultFile ==
    ASSUME Inv, pc \in Vouched, NEW c, NEW p \in Allowed, NEW f \in TornFiles, Pictures(c, p, f),
           c.staged = projected.staged, c.unstaged = projected.unstaged,
           c.untracked = projected.untracked,
           f.head = wt[p].head \/ Told(p)
    PROVE  /\ f.index = wt[p].index
           /\ f.work = wt[p].work \/ Hidden(p)
<1>1. pc \in Drawn /\ pc \in Working /\ p \in Paths
  BY PathsAssumption DEF Vouched, Drawn
<1>2. projected = Capture(wt) /\ wt \in [Paths -> TornFiles] /\ wt[p] \in TornFiles
  BY <1>1, FilesAreTorn DEF Inv, EvidenceInv
<1>3. Pictures(c, p, wt[p])
  <2>1. Pictures(projected, p, wt[p])
    BY <1>2, CapturePictures
  <2> QED BY <2>1 DEF Pictures
<1>4. \/ f.head = wt[p].head
      \/ \E r \in c.staged \cup c.unstaged \cup c.untracked : r.path = p /\ r.tag = "diff"
  BY DEF Told
<1>5. /\ f.index = wt[p].index
      /\ \/ f.work = wt[p].work
         \/ p \in Ignored /\ Exists(wt[p].head) /\ ~Exists(wt[p].index)
  BY <1>2, <1>3, <1>4, SameFile
<1>6. snapshot.baseline[p] = wt[p].head /\ Indexed(snapshot)[p] = wt[p].index
  BY <1>1, IndexLeft DEF Inv, EvidenceInv, Vouched
<1> QED BY <1>5, <1>6 DEF Hidden

\* A step to an ok result has just compared the patch of a capture.
LEMMA VerifiedNext == Inv /\ VerifiedResult /\ [Next]_vars => VerifiedResult'
<1> SUFFICES ASSUME Inv, VerifiedResult, [Next]_vars PROVE VerifiedResult'
  OBVIOUS
<1> USE DEF Go, Stop, Return
<1>1. ASSUME pc' # "done" \/ result'.status # "ok" PROVE VerifiedResult'
  BY <1>1 DEF VerifiedResult
<1>2. ASSUME pc \in Bound, scan.at = "records", scan.left = {}, UNCHANGED <<tree, late, evidence>>,
             TaskPatch(Captured(scan), Captured(scan)) = approval.binding.patch
      PROVE  VerifiedResult'
  <2>1. SUFFICES ASSUME NEW p \in Allowed \ late, tree[p].head = wt[p].head \/ Told(p)
                 PROVE  \/ tree[p].index = wt[p].index /\ tree[p].work = wt[p].work
                        \/ Hidden(p)
    BY <1>2 DEF VerifiedResult, evidence, Told, Hidden
  <2>2. tree[p] \in TornFiles
    BY <1>2, FilesAreTorn, PathsAssumption DEF Inv, TypeOK
  <2>3. Pictures(Captured(scan), p, tree[p])
    BY <1>2, ScanPictures DEF Inv
  <2>4. approval.binding.patch = TaskPatch(projected, snapshot)
    BY <1>2 DEF Inv, EvidenceInv, Sealed, Binding
  <2>5. /\ Captured(scan).staged = projected.staged /\ Captured(scan).unstaged = projected.unstaged
        /\ Captured(scan).untracked = projected.untracked
    BY <1>2, <2>4 DEF TaskPatch
  <2>6. pc \in Vouched
    BY <1>2 DEF Bound, Vouched, Drawn, Working, Integrating
  <2> HIDE DEF Inv
  <2>7. /\ tree[p].index = wt[p].index
        /\ tree[p].work = wt[p].work \/ Hidden(p)
    BY <2>1, <2>2, <2>3, <2>5, <2>6, ResultFile
  <2> QED BY <2>7
<1>3. CASE Verify
  <2>1. /\ pc = "verify" /\ scan.at = "records" /\ scan.left = {} /\ UNCHANGED <<tree, late, evidence>>
        /\ \/ TaskPatch(Captured(scan), Captured(scan)) = approval.binding.patch
           \/ result'.status = "transport_error"
    BY <1>3 DEF Verify, Scanned
  <2> QED BY <1>1, <1>2, <2>1 DEF Bound, Integrating
<1>4. CASE Recheck
  <2>1. pc = "recheck" /\ scan.at = "records" /\ scan.left = {} /\ UNCHANGED <<tree, late, evidence>>
    BY <1>4 DEF Recheck, Scanned
  <2>2. \/ TaskPatch(Captured(scan), Captured(scan)) = approval.binding.patch
        \/ pc' # "done" \/ result'.status # "ok"
    BY <1>4 DEF Recheck
  <2> QED BY <1>1, <1>2, <2>1, <2>2 DEF Bound, Integrating
<1>5. CASE ReadRecord \/ CaptureFails \/ Failed
  BY <1>1, <1>5 DEF ReadRecord, CaptureFails, Raised, Failed, Scanning
<1>6. CASE Check \/ ApplyCheck \/ Simulate
  BY <1>1, <1>6 DEF Check, ApplyCheck, Simulate
<1>7. CASE UNCHANGED vars
  BY <1>7 DEF VerifiedResult, vars, Hidden, Told, evidence
<1>8. CASE TakeSnapshot \/ CreateWorktree \/ Materialize
  BY <1>1, <1>8 DEF TakeSnapshot, CreateWorktree, Materialize
<1>9. CASE Work \/ EndWork \/ CaptureDelta \/ Seal \/ Review
  BY <1>1, <1>9 DEF Work, EndWork, CaptureDelta, Seal, Review
<1>10. CASE GitReads \/ GitTurns \/ GitEnds \/ GitFails
  BY <1>1, <1>10 DEF GitReads, GitTurns, GitEnds, GitFails
<1>11. CASE \E p \in Paths : GitRemoves(p) \/ GitCreates(p)
  BY <1>1, <1>11 DEF GitRemoves, GitCreates
<1>13. CASE ReadHead \/ ReadIndex \/ ReadFile \/ ReadStatus \/ ReadExplicit
  BY <1>1, <1>13 DEF ReadHead, ReadIndex, ReadFile, ReadStatus, ReadExplicit, Scanning
<1>12. CASE \/ \E p \in Paths, e \in Edits \cup {Absent} : UserEdits(p, e)
            \/ \E p \in Paths : UserStages(p)
            \/ UserCommits
  BY <1>1, <1>12 DEF UserEdits, UserStages, UserCommits, UserDo, Pipeline, Integrating
<1> QED BY <1>3, <1>4, <1>5, <1>6, <1>7, <1>8, <1>9, <1>10, <1>11, <1>12, <1>13 DEF Next

\* A delta that integrate calls applied and verified is in the user's files as
\* the worker left it, over every edit made before the verification read the
\* file: the patch that is compared determines them, given HEAD.
THEOREM AppliedIsVerified == Spec => []VerifiedResult
<1>1. Init => VerifiedResult
  BY DEF Init, VerifiedResult
<1> QED BY <1>1, Invariant, VerifiedNext, PTL DEF Spec

\* The delta on top of the snapshot is what the worker left, as far as it is allowed.
LEMMA DeltaRecreates ==
    ASSUME EvidenceInv, pc \in Drawn, projected.baseline = snapshot.baseline
    PROVE  Replays(snapshot, delta, projected)
<1> DEFINE Q == {p \in Allowed : base[p] # wt[p].work}
           made == Recreated(snapshot)
           files == PatchAll(delta, made)
           w == WithDelta(snapshot, delta)
<1>0. pc \in Working /\ Allowed \subseteq Paths
  BY PathsAssumption DEF Drawn, Working
<1>1. PICK t \in Trees : Agrees(snapshot, t)
  BY <1>0 DEF EvidenceInv
<1>2. base \in [Paths -> Entries] /\ wt \in Trees /\ projected = Capture(wt)
  BY <1>0, BaseTyped DEF EvidenceInv
<1>3. /\ base = [p \in Paths |-> IF p \in Allowed THEN made[p] ELSE t[p].head]
      /\ Worktree(snapshot) \in Trees
  BY <1>0, <1>1, WorktreeTyped DEF EvidenceInv
<1>4. made = [p \in Paths |-> IF p \notin Allowed THEN t[p].head
                              ELSE IF Lost(p, t[p]) THEN Absent ELSE t[p].work]
  BY <1>1, Recreation
<1>5. \A p \in Paths : wt[p].head \in Entries /\ wt[p].index \in Entries /\ wt[p].work \in Entries
  BY <1>2 DEF Trees, Files
<1>6. Works(wt) \in [Paths -> Entries] /\ \A p \in Paths : Works(wt)[p] = wt[p].work
  BY <1>5 DEF Works
<1>7. delta = Section(Q, base, Works(wt)) /\ Q \in SUBSET Paths
  BY <1>0, DeltaOf
<1>8. \A p \in Q : made[p] = base[p]
  <2> HIDE DEF made
  <2> QED BY <1>0, <1>3
<1>9. FitAll(delta, made) /\ files = [p \in Paths |-> IF p \in Q THEN wt[p].work ELSE made[p]]
  <2> HIDE DEF Q, made
  <2>1. /\ FitAll(delta, made)
        /\ files = [p \in Paths |-> IF p \in Q THEN Works(wt)[p] ELSE made[p]]
    <3>1. /\ FitAll(Section(Q, base, Works(wt)), made)
          /\ PatchAll(Section(Q, base, Works(wt)), made) =
                [p \in Paths |-> IF p \in Q THEN Works(wt)[p] ELSE made[p]]
      <4>1. Q \in SUBSET Paths /\ base \in [Paths -> Entries] /\ Works(wt) \in [Paths -> Entries]
        BY <1>2, <1>6, <1>7
      <4>2. \A p \in Q : made[p] = base[p]
        BY <1>8
      <4> QED BY <4>1, <4>2, SectionApplies
    <3> QED BY <1>7, <3>1
  <2>2. \A p \in Paths : (IF p \in Q THEN Works(wt)[p] ELSE made[p]) = (IF p \in Q THEN wt[p].work ELSE made[p])
    BY <1>6
  <2> HIDE DEF files
  <2> QED BY <2>1, <2>2
<1>10. \A p \in Allowed : files[p] = wt[p].work
  <2> TAKE p \in Allowed
  <2>1. p \notin Q => base[p] = wt[p].work
    OBVIOUS
  <2>2. base[p] = made[p]
    BY <1>0, <1>3
  <2> HIDE DEF files, made, Q
  <2> QED BY <1>0, <1>9, <2>1, <2>2
<1>11. \A p \in Paths \ Allowed : files[p] = t[p].head
  BY <1>4, <1>9
<1>12. \A p \in Paths : w[p] = [Worktree(snapshot)[p] EXCEPT !.work = files[p]]
  BY DEF WithDelta
<1>13. \A p \in Paths : w[p] = [head |-> snapshot.baseline[p], index |-> Indexed(snapshot)[p], work |-> files[p]]
  <2> HIDE DEF files, w
  <2>1. \A p \in Paths : Worktree(snapshot)[p] =
            [head |-> snapshot.baseline[p], index |-> Indexed(snapshot)[p], work |-> Recreated(snapshot)[p]]
    BY DEF Worktree
  <2> TAKE p \in Paths
  <2> DEFINE r == [head |-> snapshot.baseline[p], index |-> Indexed(snapshot)[p], work |-> Recreated(snapshot)[p]]
  <2>2. [r EXCEPT !.work = files[p]] =
            [head |-> snapshot.baseline[p], index |-> Indexed(snapshot)[p], work |-> files[p]]
    OBVIOUS
  <2>3. w[p] = [r EXCEPT !.work = files[p]]
    BY <1>12, <2>1
  <2> QED BY <2>2, <2>3
<1>14. \A p \in Paths : /\ snapshot.baseline[p] = wt[p].head
                        /\ p \in Allowed => Indexed(snapshot)[p] = wt[p].index
                        /\ p \notin Allowed => Indexed(snapshot)[p] = wt[p].head
  BY IndexLeft
<1>15. \A p \in Paths \ Allowed : t[p].head = wt[p].head
  <2>1. \A p \in Paths : snapshot.baseline[p] = t[p].head
    <3>1. snapshot.baseline = Heads(t)
      BY <1>1, Recreation
    <3> QED BY <3>1 DEF Heads
  <2> QED BY <1>14, <2>1
<1> HIDE DEF files, made, Q
<1>16. \A p \in Allowed : w[p] = wt[p]
  <2> TAKE p \in Allowed
  <2>1. wt[p] = [head |-> wt[p].head, index |-> wt[p].index, work |-> wt[p].work]
    BY <1>0, <1>2 DEF Trees, Files
  <2> QED BY <1>0, <1>10, <1>13, <1>14, <2>1
<1>17. \A p \in Paths \ Allowed : w[p] = [head |-> wt[p].head, index |-> wt[p].head, work |-> wt[p].head]
  BY <1>11, <1>13, <1>14, <1>15
<1>18. w \in [Paths -> TornFiles] /\ wt \in [Paths -> TornFiles]
  <2>1. w = [p \in Paths |-> w[p]]
    BY DEF WithDelta
  <2>2. ASSUME NEW p \in Paths PROVE w[p] \in Files
    <3>1. wt[p] \in Files
      BY <1>2 DEF Trees
    <3> HIDE DEF w
    <3>2. CASE p \in Allowed
      BY <1>16, <3>1, <3>2
    <3>3. CASE p \notin Allowed
      <4>1. w[p] = [head |-> wt[p].head, index |-> wt[p].head, work |-> wt[p].head]
        BY <1>17, <3>3
      <4>2. wt[p].head \in Entries
        BY <1>5
      <4> QED BY <4>1, <4>2 DEF Files
    <3> QED BY <3>2, <3>3
  <2> HIDE DEF w
  <2>3. w \in [Paths -> Files]
    BY <2>1, <2>2
  <2> QED BY <1>2, <2>3, FilesAreTorn DEF Trees
<1> HIDE DEF w
<1>19. /\ Capture(w).staged = Capture(wt).staged /\ Capture(w).unstaged = Capture(wt).unstaged
       /\ Capture(w).untracked = Capture(wt).untracked
  BY <1>16, <1>18, SameSections
<1>20. Heads(w) = Heads(wt)
  <2>1. ASSUME NEW p \in Paths PROVE w[p].head = wt[p].head
    <3>1. w[p].head = snapshot.baseline[p]
      BY <1>13, <1>18
    <3> QED BY <1>14, <3>1
  <2> QED BY <2>1 DEF Heads
<1>21. Capture(w).private = {} /\ Capture(wt).private = {}
  <2>1. ASSUME NEW p \in Paths \ Allowed PROVE ~Dirty(p, w[p])
    <3>1. w[p].head = w[p].index /\ w[p].work = w[p].index
      BY <1>17, <1>18
    <3> QED BY <3>1 DEF Dirty, Staged, Unstaged, StatusUntracked, Untracked
  <2>2. Capture(w).private = {}
    BY <1>18, <2>1, CaptureFields
  <2> QED BY <1>2, <2>2 DEF EvidenceInv, InScope
<1>22. Capture(w) = Capture(wt)
  <2>1. /\ Capture(w).baseline = Heads(w) /\ Capture(wt).baseline = Heads(wt)
    BY <1>18, CaptureFields
  <2> QED BY <1>19, <1>20, <1>21, <2>1, SameCapture DEF Capture
<1> QED BY <1>2, <1>9, <1>22 DEF Replays, DeltaFits, w, made

\* What capture_worker_delta accepts, seal_delta_bundle can replay: records taken
\* from the recreated snapshot apply to it, and lose nothing of the worktree that
\* its own capture shows.
THEOREM DeltaReplays == Spec => []Replayable
<1>0. "seal" \in Drawn
  BY DEF Drawn, Working, Taken, Pipeline
<1>1. Inv => Replayable
  BY <1>0, DeltaRecreates DEF Inv, Replayable
<1> QED BY <1>1, Invariant, PTL

-----------------------------------------------------------------------------
(* A bundle that nobody disturbs.                                          *)

Unmoved == {"work", "delta", "seal", "review", "check", "apply_check", "simulate", "recheck", "apply"}
Replayed == {"review", "check", "apply_check", "simulate", "recheck", "apply"}
Written == {"remove", "create", "verify"}

\* git apply on the tree t of the snapshot: the delta's files one by one become
\* the worker's, the others stay
Rewriting(t) ==
    /\ snapshot = Capture(t) /\ Materializes(snapshot, t)
    /\ DOMAIN writing = PathsOf(delta) /\ \A p \in DOMAIN writing : writing[p] = wt[p].work
    /\ \A p \in Paths : tree[p].head = t[p].head /\ tree[p].index = t[p].index
    /\ \A p \in Paths \ DOMAIN writing : tree[p].work = t[p].work
    /\ \A p \in DOMAIN writing \ todo :
          tree[p].work = IF pc = "remove" THEN Absent ELSE writing[p]
    /\ pc = "verify" => todo = {}

QuietInv ==
    edits = 0 /\ errors = 0 =>
        /\ pc # "failed" /\ late = {}
        /\ pc \in {"worktree", "materialize"} \cup Unmoved => snapshot = Capture(tree)
        /\ pc \in Unmoved => Materializes(snapshot, tree)
        /\ pc \in Replayed => Replays(snapshot, delta, projected)
        /\ pc \in {"apply"} \cup Written => delta # {}
        /\ pc \in Written => \E t \in Trees : Rewriting(t)

\* What the source has is what the delta was taken from.
LEMMA QuietBase ==
    ASSUME EvidenceInv, pc \in Working, NEW t, Materializes(snapshot, t), NEW p \in Allowed
    PROVE  t[p].work = base[p]
<1>1. Worktree(snapshot)[p].work = t[p].work
  BY DEF Materializes
<1>2. base = MaterializedTree(Worktree(snapshot)) /\ p \in Paths
  BY PathsAssumption DEF EvidenceInv
<1> QED BY <1>1, <1>2 DEF MaterializedTree

\* The delta applies to it, and makes of every file the worker's.
LEMMA QuietApply ==
    ASSUME TypeOK, EvidenceInv, pc \in {"apply_check", "apply"}, snapshot = Capture(tree),
           Materializes(snapshot, tree)
    PROVE  /\ FitAll(delta, Works(tree))
           /\ \A p \in PathsOf(delta) :
                 /\ Patched(RecordOf(delta, p), Works(tree)[p]) = wt[p].work
                 /\ p \notin {r.path : r \in {d \in delta : Exists(d.old)}} => tree[p].work = Absent
<1> DEFINE Q == {p \in Allowed : base[p] # wt[p].work}
<1>0. pc \in Working /\ pc \in Drawn /\ Allowed \subseteq Paths
  BY PathsAssumption DEF Drawn, Working, Integrating
<1>1. tree \in Trees
  BY DEF TypeOK, Trees
<1>2. \A p \in Allowed : Works(tree)[p] = base[p] /\ tree[p].work = base[p]
  <2>1. \A p \in Allowed : tree[p].work = base[p]
    BY <1>0, <1>1, QuietBase
  <2> QED BY <1>0, <2>1 DEF Works
<1>3. base \in [Paths -> Entries] /\ wt \in Trees
  BY <1>0, BaseTyped
<1>4. \A p \in Paths : base[p] \in Entries /\ wt[p].work \in Entries
  BY <1>3 DEF Trees, Files
<1>5. /\ PathsOf(delta) = Q /\ Q \subseteq Allowed
      /\ \A p \in Q : RecordOf(delta, p) = Record(p, base[p], wt[p].work)
      /\ \A r \in delta : r.path \in Q /\ r = Record(r.path, base[r.path], wt[r.path].work)
  BY <1>0, DeltaOf
<1> HIDE DEF Q
<1>6. \A p \in Q : /\ Fits(Record(p, base[p], wt[p].work), base[p])
                   /\ Patched(Record(p, base[p], wt[p].work), base[p]) = wt[p].work
  BY <1>0, <1>4, <1>5, RecordApplies
<1>7. FitAll(delta, Works(tree))
  <2>1. ASSUME NEW r \in delta PROVE Fits(r, Works(tree)[r.path])
    <3>1. r.path \in Q /\ r = Record(r.path, base[r.path], wt[r.path].work)
      BY <1>5
    <3>2. Works(tree)[r.path] = base[r.path]
      BY <1>2, <1>5, <3>1
    <3>3. Fits(Record(r.path, base[r.path], wt[r.path].work), base[r.path])
      BY <1>6, <3>1
    <3> QED BY <3>1, <3>2, <3>3
  <2> QED BY <2>1 DEF FitAll
<1>8. ASSUME NEW p \in Q PROVE Patched(RecordOf(delta, p), Works(tree)[p]) = wt[p].work
  BY <1>2, <1>5, <1>6
<1>9. ASSUME NEW p \in Q, p \notin {r.path : r \in {d \in delta : Exists(d.old)}}
      PROVE  tree[p].work = Absent
  <2>1. PICK r \in delta : r.path = p
    BY <1>5 DEF PathsOf
  <2>2. ~Exists(r.old) /\ r = Record(p, base[p], wt[p].work)
    BY <1>5, <1>9, <2>1
  <2>3. base[p] \in Torn /\ wt[p].work \in Torn
    BY <1>0, <1>4, <1>5 DEF Torn
  <2>4. CASE ModeOnly(base[p], wt[p].work)
    <3>1. r.old.mode = base[p].mode
      BY <2>2, <2>3, <2>4, RecordFields
    <3> QED BY <2>2, <2>4, <3>1 DEF Exists, ModeOnly
  <2>5. CASE ~ModeOnly(base[p], wt[p].work)
    <3>1. r.old = base[p]
      BY <2>2, <2>3, <2>5, RecordFields
    <3> QED BY <1>2, <1>5, <2>2, <2>3, <3>1, EntryParts
  <2> QED BY <2>4, <2>5
<1> QED BY <1>5, <1>7, <1>8, <1>9

\* When it is done, the capture shows the approved patch.
LEMMA QuietResult ==
    ASSUME Inv, pc = "verify", NEW t \in Trees, Rewriting(t)
    PROVE  TaskPatch(Capture(tree), Capture(tree)) = TaskPatch(projected, snapshot)
<1>0. /\ pc \in Working /\ pc \in Drawn /\ pc \in Vouched /\ Allowed \subseteq Paths
      /\ TypeOK /\ EvidenceInv
  BY PathsAssumption DEF Vouched, Drawn, Working, Integrating, Inv
<1>1. projected = Capture(wt) /\ projected.baseline = snapshot.baseline /\ wt \in Trees
  BY <1>0 DEF EvidenceInv
<1>2. tree \in Trees
  BY <1>0 DEF TypeOK, Trees
<1>3. /\ snapshot = Capture(t) /\ Materializes(snapshot, t) /\ DOMAIN writing = PathsOf(delta)
      /\ \A p \in DOMAIN writing : writing[p] = wt[p].work /\ tree[p].work = writing[p]
      /\ \A p \in Paths : tree[p].head = t[p].head /\ tree[p].index = t[p].index
      /\ \A p \in Paths \ DOMAIN writing : tree[p].work = t[p].work
  BY DEF Rewriting
<1>4. PathsOf(delta) = {p \in Allowed : base[p] # wt[p].work}
  BY <1>0, DeltaOf
<1>5. ASSUME NEW p \in Allowed PROVE tree[p].work = wt[p].work
  <2>1. CASE p \in DOMAIN writing
    BY <1>3, <2>1
  <2>2. CASE p \notin DOMAIN writing
    <3>1. base[p] = wt[p].work
      BY <1>3, <1>4, <2>2
    <3>2. t[p].work = base[p]
      BY <1>0, <1>3, QuietBase
    <3> QED BY <1>0, <1>3, <2>2, <3>1, <3>2
  <2> QED BY <2>1, <2>2
<1>6. snapshot.baseline = Heads(t) /\ Indexed(snapshot) = [p \in Paths |-> IF p \in Allowed THEN t[p].index ELSE t[p].head]
  <2>1. Agrees(snapshot, t)
    BY <1>3 DEF Agrees
  <2> QED BY <2>1, Recreation
<1>7. ASSUME NEW p \in Allowed PROVE tree[p].head = wt[p].head /\ tree[p].index = wt[p].index
  <2>1. snapshot.baseline[p] = wt[p].head /\ Indexed(snapshot)[p] = wt[p].index
    BY <1>0, <1>1, IndexLeft
  <2> QED BY <1>0, <1>3, <1>6, <2>1 DEF Heads
<1>8. \A p \in Allowed : tree[p] = wt[p]
  <2> TAKE p \in Allowed
  <2>1. /\ tree[p] = [head |-> tree[p].head, index |-> tree[p].index, work |-> tree[p].work]
        /\ wt[p] = [head |-> wt[p].head, index |-> wt[p].index, work |-> wt[p].work]
    BY <1>0, <1>1, <1>2 DEF Trees, Files
  <2> QED BY <1>5, <1>7, <2>1
<1>9. \A p \in Paths \ Allowed : tree[p] = t[p]
  <2> TAKE p \in Paths \ Allowed
  <2>1. /\ tree[p] = [head |-> tree[p].head, index |-> tree[p].index, work |-> tree[p].work]
        /\ t[p] = [head |-> t[p].head, index |-> t[p].index, work |-> t[p].work]
    BY <1>2 DEF Trees, Files
  <2>2. tree[p].head = t[p].head /\ tree[p].index = t[p].index /\ tree[p].work = t[p].work
    BY <1>3, <1>4
  <2> QED BY <2>1, <2>2
<1>10. /\ Capture(tree).staged = projected.staged /\ Capture(tree).unstaged = projected.unstaged
       /\ Capture(tree).untracked = projected.untracked
  <2>1. tree \in [Paths -> TornFiles] /\ wt \in [Paths -> TornFiles]
    BY <1>1, <1>2, FilesAreTorn
  <2> QED BY <1>1, <1>8, <2>1, SameSections
<1>11. Capture(tree).private = Capture(t).private
  <2>1. {q \in Paths \ Allowed : Dirty(q, tree[q])} = {q \in Paths \ Allowed : Dirty(q, t[q])}
    BY <1>9
  <2>2. \A q \in Paths \ Allowed : PrivateRecord(q, tree[q], tree[q]) = PrivateRecord(q, t[q], t[q])
    BY <1>9
  <2>3. t \in [Paths -> TornFiles] /\ tree \in [Paths -> TornFiles]
    BY <1>2, FilesAreTorn
  <2> DEFINE Q == {q \in Paths \ Allowed : Dirty(q, t[q])}
  <2>4. Capture(tree).private = {PrivateRecord(q, tree[q], tree[q]) : q \in Q}
    BY <2>1, <2>3, CaptureFields
  <2>5. Capture(t).private = {PrivateRecord(q, t[q], t[q]) : q \in Q}
    BY <2>3, CaptureFields
  <2>6. \A q \in Q : PrivateRecord(q, tree[q], tree[q]) = PrivateRecord(q, t[q], t[q])
    BY <2>2
  <2> HIDE DEF Q
  <2> QED BY <2>4, <2>5, <2>6
<1> QED BY <1>3, <1>10, <1>11 DEF TaskPatch

\* An empty delta projects to the snapshot.
LEMMA EmptyDelta ==
    ASSUME NEW t \in Trees, snapshot = Capture(t), Materializes(snapshot, t),
           Replays(snapshot, {}, projected)
    PROVE  TaskPatch(snapshot, snapshot) = TaskPatch(projected, snapshot)
<1>1. Recreated(snapshot) = [p \in Paths |-> IF p \notin Allowed THEN t[p].head
                                             ELSE IF Lost(p, t[p]) THEN Absent ELSE t[p].work]
  BY Recreation DEF Agrees
<1>2. PatchAll({}, Recreated(snapshot)) = Recreated(snapshot)
  <2>1. PathsOf({}) = {}
    BY DEF PathsOf
  <2>2. PatchAll({}, Recreated(snapshot)) = [p \in Paths |-> Recreated(snapshot)[p]]
    BY <2>1 DEF PatchAll
  <2> QED BY <1>1, <2>2
<1>3. WithDelta(snapshot, {}) = Worktree(snapshot)
  <2>1. \A p \in Paths : [Worktree(snapshot)[p] EXCEPT !.work = Recreated(snapshot)[p]] = Worktree(snapshot)[p]
    <3> TAKE p \in Paths
    <3> DEFINE r == [head |-> snapshot.baseline[p], index |-> Indexed(snapshot)[p], work |-> Recreated(snapshot)[p]]
    <3>1. Worktree(snapshot)[p] = r
      BY DEF Worktree
    <3>2. [r EXCEPT !.work = Recreated(snapshot)[p]] = r
      OBVIOUS
    <3> QED BY <3>1, <3>2
  <2>2. Worktree(snapshot) = [p \in Paths |-> Worktree(snapshot)[p]]
    BY DEF Worktree
  <2> QED BY <1>2, <2>1, <2>2 DEF WithDelta
<1>4. projected = Capture(Worktree(snapshot))
  BY <1>3 DEF Replays
<1>5. /\ projected.staged = snapshot.staged /\ projected.unstaged = snapshot.unstaged
      /\ projected.untracked = snapshot.untracked
  BY <1>4 DEF Materializes
<1> QED BY <1>5 DEF TaskPatch

\* A capture nobody disturbs finds what it reads as the status says,
LEMMA QuietRecord ==
    ASSUME TypeOK, ScanInv, late = {}, scan.at = "records", scan.left # {}
    PROVE  ~Raises(First, scan.found[First], tree[First],
                   First \in scan.extra \/ StatusUntracked(First, scan.found[First]))
<1>1. First \in scan.left /\ First \in Paths
  BY DEF First, TypeOK, Scans
<1>2. Read(First) /\ tree[First] \in TornFiles
  BY <1>1, FilesAreTorn DEF ScanInv, TypeOK
<1>3. scan.found[First] \in TornFiles
  <2>1. scan \in Scans(Entries) \/ scan \in Scans(Torn)
    BY DEF TypeOK
  <2>2. scan.found \in [Paths -> [head : Torn, index : Torn, work : Torn]]
    BY <2>1 DEF Scans, Torn
  <2> QED BY <1>1, <2>2 DEF TornFiles
<1>4. scan.found[First] = tree[First]
  BY <1>2, <1>3 DEF Read, TornFiles
<1>5. First \in scan.extra => Explicit(First, tree[First], tree[First])
  BY <1>2 DEF Read
<1> QED BY <1>4, <1>5 DEF Raises, Explicit, StatusUntracked, Untracked

\* and is the capture of the tree.
LEMMA QuietScan ==
    ASSUME Inv, QuietInv, edits = 0, errors = 0, scan.at = "records", scan.left = {},
           pc # "failed", pc # "done"
    PROVE  Captured(scan) = Capture(tree) /\ tree \in Trees
<1> DEFINE extra == {p \in Paths : Explicit(p, tree[p], tree[p])}
           s == [baseline |-> Heads(tree), found |-> tree, made |-> tree, extra |-> extra]
<1>0. late = {} /\ tree \in [Paths -> Files] /\ Allowed \subseteq Paths
  BY PathsAssumption DEF Inv, TypeOK, QuietInv
<1>1. /\ scan.baseline \in [Paths -> Entries] /\ scan.extra \subseteq Allowed
      /\ scan.found \in [Paths -> Files]
  BY DEF Inv, TypeOK, Scans, Files
<1>2. ASSUME NEW p \in Paths
      PROVE  /\ scan.baseline[p] = tree[p].head /\ scan.found[p] = tree[p]
             /\ p \in scan.extra <=> Explicit(p, tree[p], tree[p])
             /\ Dirty(p, tree[p]) \/ p \in scan.extra => scan.made[p] = tree[p]
  <2>1. Read(p)
    BY <1>0 DEF Inv, ScanInv
  <2>2. scan.found[p] \in Files /\ tree[p] \in Files
    BY <1>0, <1>1
  <2>3. scan.found[p] = tree[p]
    BY <2>1, <2>2 DEF Read, Files
  <2> QED BY <2>1, <2>3 DEF Read
<1>3. scan.baseline = Heads(tree) /\ scan.found = tree
  BY <1>0, <1>1, <1>2 DEF Heads
<1>4. \A p \in Allowed : p \in scan.extra <=> p \in extra
  BY <1>0, <1>2
<1>5. s.baseline = Heads(tree) /\ s.found = tree /\ s.made = tree /\ s.extra = extra
  OBVIOUS
<1> HIDE DEF s, extra
<1>6. Captured(scan).baseline = Captured(s).baseline
  BY <1>3, <1>5 DEF Captured
<1>7. Captured(scan).staged = Captured(s).staged
  <2> DEFINE Q == {q \in Allowed : Staged(tree[q])}
  <2>1. /\ Captured(scan).staged = {StagedRecord(p, tree[p], scan.made[p]) : p \in Q}
        /\ Captured(s).staged = {StagedRecord(p, tree[p], tree[p]) : p \in Q}
    BY <1>3, <1>5 DEF Captured
  <2>2. \A p \in Q : scan.made[p] = tree[p]
    BY <1>0, <1>2 DEF Dirty
  <2> HIDE DEF Q
  <2> QED BY <2>1, <2>2
<1>8. Captured(scan).unstaged = Captured(s).unstaged
  <2> DEFINE Q == {q \in Allowed : Unstaged(tree[q])}
  <2>1. /\ Captured(scan).unstaged = {UnstagedRecord(p, tree[p], scan.made[p]) : p \in Q}
        /\ Captured(s).unstaged = {UnstagedRecord(p, tree[p], tree[p]) : p \in Q}
    BY <1>3, <1>5 DEF Captured
  <2>2. \A p \in Q : scan.made[p] = tree[p]
    BY <1>0, <1>2 DEF Dirty
  <2> HIDE DEF Q
  <2> QED BY <2>1, <2>2
<1>9. Captured(scan).untracked = Captured(s).untracked
  <2> DEFINE Q == {q \in Allowed : StatusUntracked(q, tree[q]) \/ q \in extra}
  <2>1. /\ Captured(scan).untracked = {Record(p, Absent, scan.made[p].work) :
                                         p \in {q \in Allowed : StatusUntracked(q, tree[q]) \/ q \in scan.extra}}
        /\ Captured(s).untracked = {Record(p, Absent, tree[p].work) : p \in Q}
    BY <1>3, <1>5 DEF Captured
  <2>2. {q \in Allowed : StatusUntracked(q, tree[q]) \/ q \in scan.extra} = Q
    BY <1>4
  <2>3. \A p \in Q : scan.made[p] = tree[p]
    BY <1>0, <1>2, <1>4 DEF Dirty
  <2> HIDE DEF Q
  <2> QED BY <2>1, <2>2, <2>3
<1>10. Captured(scan).private = Captured(s).private
  <2> DEFINE Q == {q \in Paths \ Allowed : Dirty(q, tree[q])}
  <2>1. /\ Captured(scan).private = {PrivateRecord(p, tree[p], scan.made[p]) : p \in Q}
        /\ Captured(s).private = {PrivateRecord(p, tree[p], tree[p]) : p \in Q}
    BY <1>3, <1>5 DEF Captured
  <2>2. \A p \in Q : scan.made[p] = tree[p]
    BY <1>2
  <2> HIDE DEF Q
  <2> QED BY <2>1, <2>2
<1>11. Captured(scan) = Captured(s)
  BY <1>6, <1>7, <1>8, <1>9, <1>10, SameCapture
<1> QED BY <1>0, <1>11 DEF Capture, Trees, s, extra

\* Until git apply the source is as it was captured, and then it goes path by
\* path over to what the worker left.
LEMMA QuietNext == Inv /\ QuietInv /\ [Next]_vars => QuietInv'
<1> SUFFICES ASSUME Inv, QuietInv, [Next]_vars, edits' = 0, errors' = 0 PROVE QuietInv'
  BY DEF QuietInv
<1> USE DEF Go, Stop, Return
<1>0. TypeOK /\ EvidenceInv /\ edits \in Nat /\ errors \in Nat
  BY BoundsAssumption DEF Inv, TypeOK
\* what is known in a quiet state
<1>a. ASSUME edits = 0, errors = 0
      PROVE  /\ pc # "failed" /\ late = {}
             /\ pc \in {"worktree", "materialize"} \cup Unmoved => snapshot = Capture(tree)
             /\ pc \in Unmoved => Materializes(snapshot, tree)
             /\ pc \in Replayed => Replays(snapshot, delta, projected)
             /\ pc \in {"apply"} \cup Written => delta # {}
             /\ pc \in Written => \E t \in Trees : Rewriting(t)
  BY <1>a DEF QuietInv
<1>b. ASSUME UNCHANGED <<tree, evidence, counts, late>>, pc' \notin Written, pc' # "failed",
             pc' \in {"worktree", "materialize"} \cup Unmoved => pc \in {"worktree", "materialize"} \cup Unmoved,
             pc' \in Unmoved => pc \in Unmoved, pc' \in Replayed => pc \in Replayed,
             pc' = "apply" => delta # {}
      PROVE  QuietInv'
  <2>1. edits = 0 /\ errors = 0
    BY <1>b DEF counts
  <2> QED BY <1>a, <1>b, <2>1 DEF QuietInv, evidence
<1>1. CASE TakeSnapshot
  <2>1. /\ pc = "snapshot" /\ pc' = "worktree" /\ scan.at = "records" /\ scan.left = {}
        /\ snapshot' = Captured(scan) /\ UNCHANGED <<tree, counts, late>>
    BY <1>1 DEF TakeSnapshot, Scanned
  <2>2. Captured(scan) = Capture(tree) /\ late = {}
    BY <1>a, <2>1, QuietScan DEF counts
  <2> QED BY <2>1, <2>2 DEF QuietInv, Unmoved, Replayed, Written
<1>2. CASE CreateWorktree
  BY <1>b, <1>2 DEF CreateWorktree, Unmoved, Replayed, Written
<1>3. CASE Materialize
  <2>1. pc = "materialize" /\ UNCHANGED <<tree, snapshot, counts, late>>
        /\ (pc' = "stopped" \/ (pc' = "work" /\ Materializes(snapshot, tree)))
    BY <1>3 DEF Materialize, Scanned
  <2> QED BY <1>a, <2>1 DEF QuietInv, Unmoved, Replayed, Written, counts
<1>4. CASE Work
  <2>1. pc = "work" /\ pc' = pc /\ UNCHANGED <<tree, snapshot, edits, errors, late>>
    BY <1>4 DEF Work
  <2> QED BY <1>a, <2>1 DEF QuietInv, Unmoved, Replayed, Written
<1>5. CASE EndWork
  BY <1>b, <1>5 DEF EndWork, Unmoved, Replayed, Written
<1>6. CASE CaptureDelta
  <2>1. pc = "delta" /\ UNCHANGED <<tree, snapshot, counts, late>> /\ pc' \in {"seal", "stopped"}
    BY <1>6 DEF CaptureDelta, Scanned
  <2> QED BY <1>a, <2>1 DEF QuietInv, Unmoved, Replayed, Written, counts
<1>7. CASE Seal
  <2>1. pc = "seal" /\ UNCHANGED <<tree, evidence, counts, late>>
        /\ (pc' = "stopped" \/ (pc' = "review" /\ Replays(snapshot, delta, projected)))
    BY <1>7 DEF Seal, Scanned
  <2> QED BY <1>a, <2>1 DEF QuietInv, Unmoved, Replayed, Written, counts, evidence
<1>8. CASE Review
  BY <1>b, <1>8 DEF Review, Unmoved, Replayed, Written
<1>9. CASE Check
  BY <1>b, <1>9 DEF Check, Scanned, Unmoved, Replayed, Written
<1>10. CASE ApplyCheck
  BY <1>b, <1>10 DEF ApplyCheck, Unmoved, Replayed, Written
<1>11. CASE Simulate
  BY <1>b, <1>11 DEF Simulate, Scanned, Unmoved, Replayed, Written
<1>12. CASE Recheck
  BY <1>b, <1>12 DEF Recheck, Scanned, Unmoved, Replayed, Written
<1>13. CASE GitReads
  <2>1. /\ pc = "apply" /\ UNCHANGED <<tree, evidence, counts, late>> /\ edits = 0 /\ errors = 0
    BY <1>13 DEF GitReads, counts
  <2>2. tree \in Trees /\ snapshot = Capture(tree) /\ Materializes(snapshot, tree) /\ delta # {} /\ late = {}
    BY <1>0, <1>a, <2>1 DEF TypeOK, Trees, Unmoved
  <2>3. /\ FitAll(delta, Works(tree))
        /\ \A p \in PathsOf(delta) :
              /\ Patched(RecordOf(delta, p), Works(tree)[p]) = wt[p].work
              /\ p \notin {r.path : r \in {d \in delta : Exists(d.old)}} => tree[p].work = Absent
    BY <1>0, <2>1, <2>2, QuietApply
  <2>4. /\ pc' = "remove"
        /\ writing' = [p \in PathsOf(delta) |-> Patched(RecordOf(delta, p), Works(tree)[p])]
        /\ todo' = {r.path : r \in {d \in delta : Exists(d.old)}}
    BY <1>13, <2>3 DEF GitReads
  <2>5. DOMAIN writing' = PathsOf(delta) /\ \A p \in DOMAIN writing' : writing'[p] = wt[p].work
    BY <2>3, <2>4
  <2>6. \A p \in DOMAIN writing' \ todo' : tree[p].work = Absent
    BY <2>3, <2>4, <2>5
  <2>7. \E t \in Trees : Rewriting(t)'
    <3>1. ASSUME NEW t, t = tree PROVE Rewriting(t)'
      BY <2>1, <2>2, <2>4, <2>5, <2>6, <3>1 DEF Rewriting, evidence
    <3> QED BY <2>2, <3>1
  <2> QED BY <2>1, <2>2, <2>4, <2>7 DEF QuietInv, Unmoved, Replayed, Written, evidence
<1>14. CASE \E p \in Paths : GitRemoves(p) \/ GitCreates(p)
  <2> PICK p \in Paths : GitRemoves(p) \/ GitCreates(p)
    BY <1>14
  <2>1. /\ pc \in {"remove", "create"} /\ pc' = pc /\ p \in todo /\ p \in DOMAIN writing
        /\ UNCHANGED <<evidence, writing, counts, late>> /\ todo' = todo \ {p}
        /\ tree' = [tree EXCEPT ![p].work = IF pc = "remove" THEN Absent ELSE writing[p]]
    BY <1>0 DEF GitRemoves, GitCreates, TypeOK
  <2>2. edits = 0 /\ errors = 0 /\ pc \in Written /\ tree \in [Paths -> Files]
    BY <1>0, <2>1 DEF counts, Written, TypeOK
  <2>3. PICK t \in Trees : Rewriting(t)
    BY <1>a, <2>2
  <2>4. \A q \in Paths : /\ tree'[q].head = tree[q].head /\ tree'[q].index = tree[q].index
                         /\ q # p => tree'[q].work = tree[q].work
                         /\ q = p => tree'[q].work = IF pc = "remove" THEN Absent ELSE writing[p]
    BY <2>1, <2>2 DEF Files
  <2>5. DOMAIN writing \subseteq Paths
    BY <1>0, PathsAssumption DEF TypeOK
  <2>6. Rewriting(t)'
    <3>1. \A q \in Paths : tree'[q].head = t[q].head /\ tree'[q].index = t[q].index
      BY <2>3, <2>4 DEF Rewriting
    <3>2. \A q \in Paths \ DOMAIN writing' : tree'[q].work = t[q].work
      BY <2>1, <2>3, <2>4 DEF Rewriting
    <3>3. \A q \in DOMAIN writing' \ todo' :
              tree'[q].work = IF pc' = "remove" THEN Absent ELSE writing'[q]
      BY <2>1, <2>3, <2>4, <2>5 DEF Rewriting
    <3> QED BY <2>1, <2>3, <3>1, <3>2, <3>3 DEF Rewriting, evidence
  <2> QED BY <1>a, <2>1, <2>2, <2>6 DEF QuietInv, Unmoved, Replayed, Written, evidence
<1>15. CASE GitTurns \/ GitEnds
  <2>1. /\ pc \in {"remove", "create"} /\ todo = {} /\ UNCHANGED <<tree, evidence, writing, counts, late>>
        /\ edits = 0 /\ errors = 0
    BY <1>15 DEF GitTurns, GitEnds, counts, apply
  <2>2. PICK t \in Trees : Rewriting(t)
    BY <1>a, <2>1 DEF Written
  <2>3. \/ pc = "remove" /\ pc' = "create" /\ todo' = {p \in DOMAIN writing : Exists(writing[p])}
        \/ pc = "create" /\ pc' = "verify" /\ todo' = {}
    BY <1>15, <2>1 DEF GitTurns, GitEnds, apply
  <2>4. \A p \in DOMAIN writing : ~Exists(writing[p]) => writing[p] = Absent
    <3>1. \A p \in DOMAIN writing : writing[p] \in Torn
      BY <1>0 DEF TypeOK, Torn
    <3> QED BY <3>1, EntryParts
  <2>5. \A p \in DOMAIN writing \ todo' : tree[p].work = writing[p]
    BY <2>1, <2>2, <2>3, <2>4 DEF Rewriting
  <2>6. Rewriting(t)'
    BY <2>1, <2>2, <2>3, <2>5 DEF Rewriting, evidence
  <2> QED BY <1>a, <2>1, <2>3, <2>6 DEF QuietInv, Unmoved, Replayed, Written, evidence
<1>16. CASE GitFails \/ CaptureFails
  <2>1. errors' = errors + 1
    BY <1>16 DEF GitFails, CaptureFails
  <2> QED BY <1>0, <2>1
<1>17. CASE Failed
  <2>1. pc = "failed" /\ UNCHANGED counts
    BY <1>17 DEF Failed, Scanned
  <2> QED BY <1>a, <2>1 DEF counts
<1>18. CASE Verify
  <2>1. pc' = "done" /\ UNCHANGED <<tree, evidence, counts, late>>
    BY <1>18 DEF Verify
  <2> QED BY <1>b, <2>1 DEF Unmoved, Replayed, Written
<1>19. CASE ReadHead \/ ReadIndex \/ ReadFile \/ ReadStatus \/ ReadExplicit
  <2>1. UNCHANGED <<tree, pc, evidence, apply, counts>> /\ (late' = late \/ late' = {})
    BY <1>19 DEF ReadHead, ReadIndex, ReadFile, ReadStatus, ReadExplicit
  <2>2. edits = 0 /\ errors = 0
    BY <2>1 DEF counts
  <2>3. late' = {}
    BY <1>a, <2>1, <2>2
  <2>4. \A t \in Trees : Rewriting(t) => Rewriting(t)'
    BY <2>1 DEF Rewriting, evidence, apply
  <2> QED BY <1>a, <2>1, <2>2, <2>3, <2>4 DEF QuietInv, evidence
<1>22. CASE ReadRecord
  <2>1. /\ UNCHANGED <<tree, evidence, apply, counts, late>>
        /\ pc' = pc \/ pc' \in {"stopped", "done"}
    BY <1>22 DEF ReadRecord, Raised
  <2>2. edits = 0 /\ errors = 0
    BY <2>1 DEF counts
  <2>3. \A t \in Trees : pc' = pc /\ Rewriting(t) => Rewriting(t)'
    BY <2>1 DEF Rewriting, evidence, apply
  <2> QED BY <1>a, <2>1, <2>2, <2>3 DEF QuietInv, evidence, Unmoved, Replayed, Written
<1>20. CASE \/ \E p \in Paths, e \in Edits \cup {Absent} : UserEdits(p, e)
            \/ \E p \in Paths : UserStages(p)
            \/ UserCommits
  <2>1. edits' = edits + 1
    BY <1>20 DEF UserEdits, UserStages, UserCommits, UserDo
  <2> QED BY <1>0, <2>1
<1>21. CASE UNCHANGED vars
  <2>1. UNCHANGED <<tree, pc, evidence, apply, counts, late>>
    BY <1>21 DEF vars
  <2>2. edits = 0 /\ errors = 0
    BY <2>1 DEF counts
  <2>4. \A t \in Trees : Rewriting(t) => Rewriting(t)'
    BY <2>1 DEF Rewriting, evidence, apply
  <2> QED BY <1>a, <2>1, <2>2, <2>4 DEF QuietInv, evidence
<1> QED BY <1>1, <1>2, <1>3, <1>4, <1>5, <1>6, <1>7, <1>8, <1>9, <1>10, <1>11, <1>12, <1>13, <1>14,
           <1>15, <1>16, <1>17, <1>18, <1>19, <1>20, <1>21, <1>22 DEF Next

\* Where nobody disturbs it no check of integrate fails.
LEMMA UndisturbedNext == Inv /\ QuietInv /\ Undisturbed /\ [Next]_vars => Undisturbed'
<1> SUFFICES ASSUME Inv, QuietInv, Undisturbed, [Next]_vars,
                    pc' = "done", edits' = 0, errors' = 0,
                    (approval = [decision |-> "approve", binding |-> Sealed])'
             PROVE  (result = [status |-> "ok", applied |-> delta # {}])'
  BY DEF Undisturbed
<1> USE DEF Go, Stop, Return
<1>0. TypeOK /\ EvidenceInv /\ edits \in Nat /\ errors \in Nat
  BY BoundsAssumption DEF Inv, TypeOK
<1>1. ASSUME UNCHANGED <<tree, evidence, approval, counts, late>>
      PROVE  /\ approval = [decision |-> "approve", binding |-> Sealed]
             /\ edits = 0 /\ errors = 0 /\ pc # "failed"
             /\ pc \in Unmoved => snapshot = Capture(tree) /\ Materializes(snapshot, tree)
             /\ pc \in Replayed => Replays(snapshot, delta, projected)
             /\ pc \in {"apply"} \cup Written => delta # {}
             /\ pc \in Written => \E t \in Trees : Rewriting(t)
             /\ pc \in Drawn => InScope(projected, snapshot)
             /\ delta' = delta
  <2>1. Sealed' = Sealed
    BY <1>1 DEF Sealed, Binding, evidence
  <2>2. edits = 0 /\ errors = 0
    BY <1>1 DEF counts
  <2> QED BY <1>0, <1>1, <2>1, <2>2 DEF QuietInv, EvidenceInv, evidence
<1>2. CASE Check
  <2>1. pc = "check" /\ scan.at = "records" /\ scan.left = {} /\ UNCHANGED <<tree, evidence, approval, counts, late>>
    BY <1>2 DEF Check, Scanned
  <2>2. /\ approval = [decision |-> "approve", binding |-> Sealed]
        /\ snapshot = Capture(tree) /\ edits = 0 /\ errors = 0
    BY <1>1, <2>1 DEF Unmoved
  <2>3. SameSource
    BY <2>1, <2>2, QuietScan DEF SameSource
  <2>4. PathsOf(delta) \subseteq Allowed
    BY <1>0, <2>1, DeltaOf DEF Drawn, Working, Integrating
  <2>5. approval.decision = "approve" /\ approval.binding = Sealed
    BY <2>2
  <2> QED BY <1>2, <2>3, <2>4, <2>5 DEF Check
<1>3. CASE ApplyCheck
  <2>1. pc = "apply_check" /\ UNCHANGED <<tree, evidence, approval, counts, late>>
    BY <1>3 DEF ApplyCheck
  <2>2. snapshot = Capture(tree) /\ Materializes(snapshot, tree)
    BY <1>1, <2>1 DEF Unmoved
  <2>3. FitAll(delta, Works(tree))
    BY <1>0, <2>1, <2>2, QuietApply
  <2> QED BY <1>3, <2>3 DEF ApplyCheck
<1>4. CASE Simulate
  <2>1. pc = "simulate" /\ scan.at = "records" /\ scan.left = {} /\ UNCHANGED <<tree, evidence, approval, counts, late>>
    BY <1>4 DEF Simulate, Scanned
  <2>2. /\ approval = [decision |-> "approve", binding |-> Sealed] /\ edits = 0 /\ errors = 0
        /\ snapshot = Capture(tree) /\ Materializes(snapshot, tree)
        /\ Replays(snapshot, delta, projected) /\ InScope(projected, snapshot)
    BY <1>1, <2>1 DEF Unmoved, Replayed, Drawn, Working, Integrating
  <2>3. SameSource
    BY <2>1, <2>2, QuietScan DEF SameSource
  <2>8. tree \in Trees
    BY <2>1, <2>2, QuietScan
  <2>4. SameBaseline
    BY <2>2, <2>8, CaptureFields, FilesAreTorn DEF SameBaseline
  <2>5. approval.binding.patch = TaskPatch(projected, snapshot)
    BY <2>2 DEF Sealed, Binding
  <2>6. DeltaFits(snapshot, delta) /\ Capture(WithDelta(snapshot, delta)) = projected
    BY <2>2 DEF Replays
  <2>7. Simulates
    BY <2>2, <2>3, <2>4, <2>5, <2>6 DEF Simulates
  <2> QED BY <1>4, <2>7 DEF Simulate
<1>5. CASE Recheck
  <2>1. pc = "recheck" /\ scan.at = "records" /\ scan.left = {} /\ UNCHANGED <<tree, evidence, approval, counts, late>>
    BY <1>5 DEF Recheck, Scanned
  <2>2. /\ approval = [decision |-> "approve", binding |-> Sealed] /\ edits = 0 /\ errors = 0
        /\ snapshot = Capture(tree) /\ Materializes(snapshot, tree)
        /\ Replays(snapshot, delta, projected) /\ delta' = delta
    BY <1>1, <2>1 DEF Unmoved, Replayed
  <2>3. Captured(scan) = snapshot /\ tree \in Trees
    BY <2>1, <2>2, QuietScan
  <2>4. delta = {}
    BY <1>5, <2>3 DEF Recheck
  <2>5. TaskPatch(snapshot, snapshot) = approval.binding.patch
    <3>1. approval.binding.patch = TaskPatch(projected, snapshot)
      BY <2>2 DEF Sealed, Binding
    <3>2. TaskPatch(snapshot, snapshot) = TaskPatch(projected, snapshot)
      BY <2>2, <2>3, <2>4, EmptyDelta
    <3> QED BY <3>1, <3>2
  <2>6. result' = [status |-> "ok", applied |-> FALSE]
    BY <1>5, <2>3, <2>4, <2>5 DEF Recheck
  <2> QED BY <2>2, <2>4, <2>6
<1>6. CASE Verify
  <2>1. pc = "verify" /\ scan.at = "records" /\ scan.left = {} /\ UNCHANGED <<tree, evidence, approval, counts, late>>
    BY <1>6 DEF Verify, Scanned
  <2>2. /\ approval = [decision |-> "approve", binding |-> Sealed] /\ edits = 0 /\ errors = 0
        /\ delta # {} /\ (\E t \in Trees : Rewriting(t)) /\ delta' = delta
    BY <1>1, <2>1 DEF Written
  <2>3. Captured(scan) = Capture(tree)
    BY <2>1, <2>2, QuietScan
  <2>4. TaskPatch(Captured(scan), Captured(scan)) = TaskPatch(projected, snapshot)
    BY <2>1, <2>2, <2>3, QuietResult
  <2>5. approval.binding.patch = TaskPatch(projected, snapshot)
    BY <2>2 DEF Sealed, Binding
  <2>6. result' = [status |-> "ok", applied |-> TRUE]
    BY <1>6, <2>4, <2>5 DEF Verify
  <2> QED BY <2>2, <2>6
<1>7. CASE CaptureFails
  <2>1. errors' = errors + 1
    BY <1>7 DEF CaptureFails
  <2> QED BY <1>0, <2>1
<1>8. CASE Failed
  <2>1. pc = "failed" /\ UNCHANGED <<tree, evidence, approval, counts, late>>
    BY <1>8 DEF Failed, Scanned
  <2> QED BY <1>1, <2>1
<1>9. CASE UNCHANGED vars
  <2>1. Undisturbed' <=> Undisturbed
    BY <1>9 DEF vars, Undisturbed, Sealed, Binding, evidence, counts
  <2> QED BY <2>1 DEF Undisturbed
<1>10. CASE TakeSnapshot \/ CreateWorktree \/ Materialize
  BY <1>10 DEF TakeSnapshot, CreateWorktree, Materialize
<1>11. CASE Work \/ EndWork \/ CaptureDelta \/ Seal \/ Review
  BY <1>11 DEF Work, EndWork, CaptureDelta, Seal, Review
<1>12. CASE GitReads \/ GitTurns \/ GitEnds \/ GitFails
  BY <1>12 DEF GitReads, GitTurns, GitEnds, GitFails
<1>13. CASE \E p \in Paths : GitRemoves(p) \/ GitCreates(p)
  BY <1>13 DEF GitRemoves, GitCreates
<1>15. CASE ReadHead \/ ReadIndex \/ ReadFile \/ ReadStatus \/ ReadExplicit
  BY <1>15 DEF ReadHead, ReadIndex, ReadFile, ReadStatus, ReadExplicit, Scanning
<1>16. CASE ReadRecord
  <2>1. /\ scan.at = "records" /\ scan.left # {} /\ pc # "done"
        /\ UNCHANGED <<tree, evidence, approval, counts, late>>
    BY <1>16 DEF ReadRecord, Scanning
  <2>2. late = {} /\ TypeOK /\ ScanInv
    BY <2>1 DEF counts, Inv, QuietInv
  <2>3. ~Raises(First, scan.found[First], tree[First],
                First \in scan.extra \/ StatusUntracked(First, scan.found[First]))
    BY <2>1, <2>2, QuietRecord
  <2>4. pc' = pc
    BY <1>16, <2>3 DEF ReadRecord
  <2> QED BY <2>1, <2>4
<1>14. CASE \/ \E p \in Paths, e \in Edits \cup {Absent} : UserEdits(p, e)
            \/ \E p \in Paths : UserStages(p)
            \/ UserCommits
  BY <1>14 DEF UserEdits, UserStages, UserCommits, UserDo, Pipeline, Integrating
<1> QED BY <1>2, <1>3, <1>4, <1>5, <1>6, <1>7, <1>8, <1>9, <1>10, <1>11, <1>12, <1>13, <1>14, <1>15, <1>16 DEF Next

\* An approved bundle whose source nobody edits, and whose reads all succeed, is
\* integrated: the replay at sealing, the check, the simulation and the capture
\* after git apply compute one and the same patch.
THEOREM QuietIntegration == Spec => []Undisturbed
<1>1. Init => QuietInv /\ Undisturbed
  BY DEF Init, QuietInv, Undisturbed, Unmoved, Replayed, Written
<1> QED BY <1>1, Invariant, QuietNext, UndisturbedNext, PTL DEF Spec
=============================================================================
