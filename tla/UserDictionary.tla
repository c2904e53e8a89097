--------------------------- MODULE UserDictionary ---------------------------
(***************************************************************************)
(* A user's dictionary on the server and on the user's devices: personal   *)
(* entries, the overlay over the engine's base dictionary, fixed candidate *)
(* positions, selection counts and the change log.  Seven kinds of edit    *)
(* write these five tables and have to keep them in step (internal/account *)
(* dictionary_store.go, dictionary_manage.go, ranking.go, positions.go,    *)
(* snapshot_restore.go, community_resource_apply.go, userdata_schema.sql). *)
(*                                                                         *)
(* Every edit is one transaction that locks the user's row first           *)
(* (userDataTransaction), so it is one action here.  Devices download a    *)
(* snapshot and then page through the change log while others edit.        *)
(*                                                                         *)
(* A key stands for (kind, code, word); all candidates share one context.  *)
(* Validation of texts is left out, as is the refusal of a banned user.    *)
(***************************************************************************)
EXTENDS Naturals, FiniteSets, Sequences, SequencesExt

CONSTANTS
  Keys,
  Base,        \* the keys of the engine's base dictionary
  Weights,
  Positions,   \* 1..5
  Counts,      \* selection counts above 0
  MaxEntries,  \* personal entries a user may have (100000)
  Packs,       \* word packs to apply and texts to import: <<key, weight>>, ...
  Devices,
  MaxLog       \* bound: no edit starts with that many changes in the log

ASSUME DictionaryAssumption ==
  /\ IsFiniteSet(Keys) /\ Base \subseteq Keys
  /\ Packs \subseteq Seq(Keys \X Weights)
  /\ Weights \subseteq Nat \ {0} /\ Weights # {}
  /\ Positions \subseteq Nat \ {0} /\ Counts \subseteq Nat \ {0}
  /\ MaxEntries \in Nat /\ MaxLog \in Nat

VARIABLES
  dict,    \* the user's rows in the five tables and user_dictionary_state
  file,    \* an exported snapshot the user keeps
  device   \* per device: its copy of the tables and the revision it is at

vars == <<dict, file, device>>

\* id: the revision that created the entry stands for its random id.
Entry == [id: Nat, weight: Weights \cup {0}, revision: Nat]
NoEntry == [id |-> 0, weight |-> 0, revision |-> 0]

\* An overlay row: absent, a tombstone, or a live word, the user's own
\* (user_inserted absent or true) or one of the base with another weight.
Row == [state: {"absent", "deleted", "own", "base"}, weight: Weights \cup {0}]
Absent == [state |-> "absent", weight |-> 0]
Tombstone == [state |-> "deleted", weight |-> 0]
LiveRow(own, w) == [state |-> IF own THEN "own" ELSE "base", weight |-> w]

\* What a device copies; 0 is no position and no selections.
Tables == [overlay: [Keys -> Row], position: [Keys -> Positions \cup {0}],
           selection: [Keys -> Counts \cup {0}]]

Blank == [overlay |-> [k \in Keys |-> Absent], position |-> [k \in Keys |-> 0],
          selection |-> [k \in Keys |-> 0]]

NoEntries == [k \in Keys |-> NoEntry]

Partial(V) == UNION {[D -> V] : D \in SUBSET Keys}

\* A change of the log.  previous: the key struck out; the others map the keys
\* they change to what is written.
Change == [revision: Nat, reset: BOOLEAN, previous: SUBSET Keys,
           replacement: Partial(Row), ranking: Partial(Row),
           position: Partial(Positions \cup {0}),
           selection: Partial(Counts \cup {0})]

NoChange == [revision |-> 0, reset |-> FALSE, previous |-> {},
             replacement |-> <<>>, ranking |-> <<>>, position |-> <<>>,
             selection |-> <<>>]

\* Every variable has its type; revisions of the log increase, and the state's
\* is never behind them.
TypeOK ==
  /\ dict.revision \in Nat
  /\ dict.entries \in [Keys -> Entry]
  /\ dict.tables \in Tables
  /\ \A i \in DOMAIN dict.log :
       /\ dict.log[i] \in Change
       /\ dict.log[i].revision <= dict.revision
       /\ \A j \in 1..i - 1 : dict.log[j].revision < dict.log[i].revision
  /\ file \in [entries: [Keys -> Entry], tables: Tables]
  /\ device \in [Devices -> [at: 0..dict.revision, tables: Tables]]

Init ==
  /\ dict = [revision |-> 0, entries |-> NoEntries, tables |-> Blank, log |-> <<>>]
  /\ file = [entries |-> NoEntries, tables |-> Blank]
  /\ device = [d \in Devices |-> [at |-> 0, tables |-> Blank]]

----------------------------------------------------------------------------
\* f with the pairs of the partial functions g, and of h where g has none.
Over(g, h, f) ==
  [k \in DOMAIN f |-> IF k \in DOMAIN g THEN g[k]
                      ELSE IF k \in DOMAIN h THEN h[k] ELSE f[k]]

None == <<>>
Struck(K) == [k \in K |-> Tombstone]

Personal(e) == {k \in Keys : e[k] # NoEntry}

\* The engine's lookup: the overlay over the base dictionary, whose words have
\* the least weight.
Found(k) ==
  \/ dict.tables.overlay[k].state \in {"own", "base"}
  \/ dict.tables.overlay[k].state = "absent" /\ k \in Base

FoundWeight(k) ==
  IF dict.tables.overlay[k].weight # 0 THEN dict.tables.overlay[k].weight
  ELSE CHOOSE w \in Weights : \A v \in Weights : w <= v

Room == Len(dict.log) < MaxLog

\* The revision check of the edits that are given the state's revision: made
\* by a device that is up to date.
Current(d) == Room /\ device[d].at = dict.revision

----------------------------------------------------------------------------
\* Mutant: the revision is not advanced.
SameRevision(t) == t.revision

NextRevision(t) == t.revision + 1

\* Mutant: the word that is replaced is left in the overlay.
EditedInPlace(t, old, new) ==
  LET r == NextRevision(t)
      id == IF old = {} THEN r ELSE t.entries[CHOOSE k \in old : TRUE].id
      rows == [k \in DOMAIN new |-> LiveRow(TRUE, new[k])]
  IN [revision |-> r,
      entries |->
        Over([k \in DOMAIN new |-> [id |-> id, weight |-> new[k], revision |-> r]],
             [k \in old |-> NoEntry], t.entries),
      tables |-> [t.tables EXCEPT !.overlay = Over(rows, None, @)],
      log |-> Append(t.log, [NoChange EXCEPT !.revision = r, !.previous = old,
                                             !.replacement = rows])]

\* dictionaryEdit on rows t: old is the key of the entry edited (none for a
\* new entry), new its new key and weight (none to delete it).
Edited(t, old, new) ==
  LET r == NextRevision(t)
      id == IF old = {} THEN r ELSE t.entries[CHOOSE k \in old : TRUE].id
      rows == [k \in DOMAIN new |-> LiveRow(TRUE, new[k])]
  IN [revision |-> r,
      entries |->
        Over([k \in DOMAIN new |-> [id |-> id, weight |-> new[k], revision |-> r]],
             [k \in old |-> NoEntry], t.entries),
      tables |-> [t.tables EXCEPT !.overlay = Over(rows, Struck(old), @)],
      log |-> Append(t.log, [NoChange EXCEPT !.revision = r, !.previous = old,
                                             !.replacement = rows])]

\* errDictionaryDuplicate and errDictionaryLimit.
Allowed(t, old, new) ==
  /\ \A k \in DOMAIN new : k \in old \/ t.entries[k] = NoEntry
  /\ old = {} => Cardinality(Personal(t.entries)) < MaxEntries

Single(k, w) == [x \in {k} |-> w]

\* EditDictionary: insert; edit or delete the entry whose id and revision were
\* given.
Insert(k, w) ==
  /\ Room
  /\ Allowed(dict, {}, Single(k, w))
  /\ dict' = Edited(dict, {}, Single(k, w))
  /\ UNCHANGED <<file, device>>

Replace(k, new, w) ==
  /\ Room
  /\ k \in Personal(dict.entries)
  /\ Allowed(dict, {k}, Single(new, w))
  /\ dict' = Edited(dict, {k}, Single(new, w))
  /\ UNCHANGED <<file, device>>

Delete(k) ==
  /\ Room
  /\ k \in Personal(dict.entries)
  /\ dict' = Edited(dict, {k}, None)
  /\ UNCHANGED <<file, device>>

\* One entry of a word pack: merged unless it is there with that weight.
Merged(t, e) ==
  LET old == {e[1]} \cap Personal(t.entries) IN
  IF t.entries[e[1]].weight = e[2] THEN t
  ELSE Edited(t, old, Single(e[1], e[2]))

MergedBy(pack) ==
  LET t[n \in 0..Len(pack)] == IF n = 0 THEN dict ELSE Merged(t[n - 1], pack[n])
  IN  t[Len(pack)]

\* resourceApply: the whole pack, or nothing if the limit is met on the way.
\* The entries of a pack have different keys.
Apply(d, pack) ==
  /\ Current(d)
  /\ Cardinality(Personal(MergedBy(pack).entries)) <= MaxEntries
  /\ dict' = MergedBy(pack)
  /\ UNCHANGED <<file, device>>

\* The entries of a text, one new entry each.
Imported(pack) ==
  LET t[n \in 0..Len(pack)] ==
        IF n = 0 THEN dict ELSE Edited(t[n - 1], {}, Single(pack[n][1], pack[n][2]))
  IN  t[Len(pack)]

\* ImportDictionary: every entry of the text is new, or nothing is imported.
Import(pack) ==
  /\ Room
  /\ \A i \in DOMAIN pack : dict.entries[pack[i][1]] = NoEntry
  /\ Cardinality(Personal(dict.entries)) + Len(pack) <= MaxEntries
  /\ dict' = Imported(pack)
  /\ UNCHANGED <<file, device>>

\* EditManagedDictionary: any word the engine finds, the base's included, is
\* moved, given another weight or deleted.
Managed(k, new) ==
  LET r == NextRevision(dict)
      own == dict.entries[k] # NoEntry
      rows == [x \in DOMAIN new |-> LiveRow(own, new[x])]
      kept == IF own
              THEN [x \in DOMAIN new |-> [id |-> dict.entries[k].id,
                                          weight |-> new[x], revision |-> r]]
              ELSE None
  IN [revision |-> r,
      entries |-> Over(kept, Single(k, NoEntry), dict.entries),
      tables |-> [dict.tables EXCEPT !.overlay = Over(rows, Struck({k}), @)],
      log |-> Append(dict.log, [NoChange EXCEPT !.revision = r,
                                  !.previous = {k}, !.replacement = rows])]

Manage(d, k, new) ==
  /\ Current(d)
  /\ Found(k)
  /\ \A x \in DOMAIN new : x = k \/ ~Found(x)
  /\ dict' = Managed(k, new)
  /\ UNCHANGED <<file, device>>

----------------------------------------------------------------------------
\* Mutant: the position is not taken from the word that holds it.
PlacedBeside(k, p) == [dict.tables.position EXCEPT ![k] = p]

\* SetCandidatePosition; 0 gives the position up.
PlacedAt(k, p) ==
  [x \in Keys |-> IF x = k THEN p
                  ELSE IF p > 0 /\ dict.tables.position[x] = p THEN 0
                  ELSE dict.tables.position[x]]

SetPosition(d, k, p) ==
  LET r == NextRevision(dict) IN
  /\ Current(d)
  /\ dict' = [dict EXCEPT
       !.revision = r,
       !.tables.position = PlacedAt(k, p),
       !.log = Append(@, [NoChange EXCEPT !.revision = r,
                                          !.position = Single(k, p)])]
  /\ UNCHANGED <<file, device>>

\* Mutant: a personal entry keeps its old weight.
RankedBeside(weights, r) == dict.entries

\* Mutant: an updated entry keeps its revision.
RankedUnmarked(weights, r) ==
  [k \in Keys |->
     IF k \in DOMAIN weights /\ dict.entries[k] # NoEntry
     THEN [dict.entries[k] EXCEPT !.weight = weights[k]] ELSE dict.entries[k]]

\* UPDATE user_dictionary_entries, for the updated words that are personal.
RankedEntries(weights, r) ==
  [k \in Keys |->
     IF k \in DOMAIN weights /\ dict.entries[k] # NoEntry
     THEN [dict.entries[k] EXCEPT !.weight = weights[k], !.revision = r]
     ELSE dict.entries[k]]

\* mutateCandidate after a selection of word k: the engine counts it, or
\* starts its count again (0), and changes weights of words it finds, each kept the user's own if it was.
Rank(d, k, count, weights) ==
  LET r == NextRevision(dict)
      own(x) == dict.tables.overlay[x].state = "own"
      rows == [x \in DOMAIN weights |-> LiveRow(own(x), weights[x])]
  IN
  /\ Current(d)
  /\ Found(k)
  /\ \A x \in DOMAIN weights : Found(x) /\ weights[x] # FoundWeight(x)
  /\ dict' = [revision |-> r,
              entries |-> RankedEntries(weights, r),
              tables |-> [dict.tables EXCEPT !.overlay = Over(rows, None, @),
                                             !.selection[k] = count],
              log |-> Append(dict.log,
                        [NoChange EXCEPT !.revision = r, !.ranking = rows,
                                         !.selection = Single(k, count)])]
  /\ UNCHANGED <<file, device>>

\* mutateCandidate for "personal_delete".
DeleteCandidate(d, k) ==
  LET r == NextRevision(dict) IN
  /\ Current(d)
  /\ Found(k)
  /\ dict' = [revision |-> r,
              entries |-> [dict.entries EXCEPT ![k] = NoEntry],
              tables |-> [dict.tables EXCEPT !.overlay[k] = Tombstone],
              log |-> Append(dict.log, [NoChange EXCEPT !.revision = r,
                                                        !.previous = {k}])]
  /\ UNCHANGED <<file, device>>

----------------------------------------------------------------------------
\* StreamFullDictionarySnapshot, one statement.
Export ==
  /\ file' = [entries |-> dict.entries, tables |-> dict.tables]
  /\ UNCHANGED <<dict, device>>

\* What decodeDictionarySnapshot and RestoreDictionarySnapshot accept: few
\* enough entries, a position held once, and an entry for every live word of
\* the user's own, of the same weight, and for no other.
Restorable(f) ==
  /\ Cardinality(Personal(f.entries)) <= MaxEntries
  /\ \A k, l \in Keys :
       f.tables.position[k] = f.tables.position[l] /\ f.tables.position[k] > 0
         => k = l
  /\ \A k \in Keys :
       IF f.entries[k] = NoEntry THEN f.tables.overlay[k].state # "own"
       ELSE f.tables.overlay[k] = LiveRow(TRUE, f.entries[k].weight)

\* The records of a snapshot after its header and entries, each a change.
Records(f) ==
  LET rows == SetToSeq({k \in Keys : f.tables.overlay[k] # Absent})
      places == SetToSeq({k \in Keys : f.tables.position[k] > 0})
      counts == SetToSeq({k \in Keys : f.tables.selection[k] > 0})
      row(k) == IF f.tables.overlay[k] = Tombstone
                THEN [NoChange EXCEPT !.previous = {k}]
                ELSE [NoChange EXCEPT
                        !.replacement = Single(k, f.tables.overlay[k])]
  IN [i \in DOMAIN rows |-> row(rows[i])]
     \o [i \in DOMAIN places |-> [NoChange EXCEPT
           !.position = Single(places[i], f.tables.position[places[i]])]]
     \o [i \in DOMAIN counts |-> [NoChange EXCEPT
           !.selection = Single(counts[i], f.tables.selection[counts[i]])]]

\* Record i has revision first + i, its place in the file after the reset; an
\* entry has a new id and the revision of its overlay row.
Restored(f) ==
  LET reset == dict.revision + 1
      first == reset + 1 + Cardinality(Personal(f.entries))
      records == Records(f)
      written == [i \in DOMAIN records |->
                    [records[i] EXCEPT !.revision = first + i]]
      row(k) == CHOOSE i \in DOMAIN records : k \in DOMAIN records[i].replacement
  IN [revision |-> first + Len(records),
      entries |-> [k \in Keys |->
        IF f.entries[k] = NoEntry THEN NoEntry
        ELSE [id |-> first + row(k), weight |-> f.entries[k].weight,
              revision |-> first + row(k)]],
      tables |-> f.tables,
      log |-> Append(dict.log, [NoChange EXCEPT !.revision = reset,
                                                !.reset = TRUE]) \o written]

\* RestoreDictionarySnapshot.
Restore(d) ==
  /\ Current(d)
  /\ Restorable(file)
  /\ dict' = Restored(file)
  /\ UNCHANGED <<file, device>>

----------------------------------------------------------------------------
\* StreamDictionarySnapshot: the revision and the tables, in one statement.
FullSync(d) ==
  /\ device' = [device EXCEPT ![d] = [at |-> dict.revision,
                                      tables |-> dict.tables]]
  /\ UNCHANGED <<dict, file>>

\* What a change means to a device.
Followed(t, c) ==
  LET s == IF c.reset THEN Blank ELSE t
      taken == {c.position[k] : k \in DOMAIN c.position} \ {0}
  IN [overlay |-> Over(c.ranking, c.replacement,
                       Over(Struck(c.previous), None, s.overlay)),
      position |-> Over(c.position, None,
                        [k \in Keys |-> IF s.position[k] \in taken THEN 0
                                        ELSE s.position[k]]),
      selection |-> Over(c.selection, None, s.selection)]

\* DictionaryChanges: the next change after the revision the device is at.
Page(d) ==
  \E i \in DOMAIN dict.log :
    LET c == dict.log[i] IN
    /\ c.revision > device[d].at
    /\ \A j \in 1..i - 1 : dict.log[j].revision <= device[d].at
    /\ device' = [device EXCEPT ![d] = [at |-> c.revision,
                                        tables |-> Followed(@.tables, c)]]
    /\ UNCHANGED <<dict, file>>

Edit(d) ==
  \/ \E k \in Keys, w \in Weights : Insert(k, w)
  \/ \E k, new \in Keys, w \in Weights : Replace(k, new, w)
  \/ \E k \in Keys : Delete(k) \/ DeleteCandidate(d, k)
  \/ \E pack \in Packs : Apply(d, pack) \/ Import(pack)
  \/ \E k \in Keys : Manage(d, k, None)
  \/ \E k, new \in Keys, w \in Weights : Manage(d, k, Single(new, w))
  \/ \E k \in Keys, p \in Positions \cup {0} : SetPosition(d, k, p)
  \/ \E k \in Keys, count \in Counts \cup {0}, weights \in Partial(Weights) :
       Rank(d, k, count, weights)
  \/ Restore(d)

Next ==
  \/ Export
  \/ \E d \in Devices : Edit(d) \/ FullSync(d) \/ Page(d)

Spec == Init /\ [][Next]_vars

----------------------------------------------------------------------------
\* The row the change log gives key k, as the schema that runs at every start
\* rebuilds it: the newest change since the last reset that names k, in it
\* ranking before replacement before previous.
Rebuilt(k) ==
  LET resets == {i \in DOMAIN dict.log : dict.log[i].reset}
      names(i) == k \in dict.log[i].previous
                     \cup DOMAIN dict.log[i].replacement
                     \cup DOMAIN dict.log[i].ranking
      since == {i \in DOMAIN dict.log : names(i) /\ \A r \in resets : r < i}
      newest == dict.log[CHOOSE i \in since : \A j \in since : j <= i]
  IN IF since = {} THEN Absent
     ELSE IF k \in DOMAIN newest.ranking THEN newest.ranking[k]
     ELSE IF k \in DOMAIN newest.replacement THEN newest.replacement[k]
     ELSE Tombstone

\* The overlay is the projection of the change log (migrate), so a restart of
\* the server, which inserts what the log gives and the overlay lacks, brings
\* no word back, and devices get what the engine is given here.
OverlayIsProjection ==
  \A k \in Keys : dict.tables.overlay[k] = Rebuilt(k)

\* The five tables are well-formed, every revision below that of the state, and
\* the overlay is what the log says (dictionaryEdit, RestoreDictionarySnapshot).
OverlayFollowsLog == TypeOK /\ OverlayIsProjection

\* A device that has seen every change has what the server has, wherever its
\* snapshot fell among the edits; so no revision check passes on old content.
CaughtUpDevicesAgree ==
  \A d \in Devices :
    (\A i \in DOMAIN dict.log : dict.log[i].revision <= device[d].at)
      => device[d].tables = dict.tables

\* Whatever edits were made, a snapshot taken now can be restored: the entries
\* and the overlay, which different edits write, agree on the user's own words.
ExportIsRestorable ==
  Restorable([entries |-> dict.entries, tables |-> dict.tables])

\* The id and revision that an edit must give (EditDictionary) stand for one
\* content: nothing changes an entry under its revision.
RevisionTellsContent ==
  [][\A k, l \in Keys :
       /\ dict.entries[k] # NoEntry
       /\ dict'.entries[l].id = dict.entries[k].id
       /\ dict'.entries[l].revision = dict.entries[k].revision
       => k = l /\ dict'.entries[l] = dict.entries[k]]_vars
=============================================================================
