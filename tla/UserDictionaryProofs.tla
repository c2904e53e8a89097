------------------------ MODULE UserDictionaryProofs ------------------------
(***************************************************************************)
(* For any keys, weights, positions, packs and devices: the overlay is     *)
(* what the change log says, devices that have seen every change have what *)
(* the server has, a snapshot can be restored, and an entry never changes  *)
(* under its revision.  All four rest on one fact: the changes after the   *)
(* revision a copy is at lead from that copy to the server's tables.       *)
(***************************************************************************)
EXTENDS UserDictionary, FiniteSetTheorems, WellFoundedInduction, TLAPS

Rows == [revision: Nat, entries: [Keys -> Entry], tables: Tables, log: Seq(Change)]
Copies == [at: Nat, tables: Tables]
Fresh == [at |-> 0, tables |-> Blank]

\* The log's revisions increase up to the state's; a reset does nothing else.
LogOK(t) ==
  \A i \in 1..Len(t.log) :
    /\ t.log[i].revision \in 1..t.revision
    /\ \A j \in 1..i - 1 : t.log[j].revision < t.log[i].revision
    /\ t.log[i].reset => /\ t.log[i].previous = {}
                         /\ DOMAIN t.log[i].replacement = {}
                         /\ DOMAIN t.log[i].ranking = {}

\* The overlay shows the personal entries and no other words as the user's own,
\* and ids tell entries apart.
EntriesOK(t) ==
  \A k \in Keys :
    /\ t.entries[k] = NoEntry => t.tables.overlay[k].state # "own"
    /\ t.entries[k] # NoEntry =>
         /\ t.entries[k].id \in 1..t.revision /\ t.entries[k].revision \in 1..t.revision
         /\ t.tables.overlay[k] = LiveRow(TRUE, t.entries[k].weight)
         /\ \A l \in Keys : t.entries[l].id = t.entries[k].id => l = k

\* A position is held by one word.
PlacesOK(t) ==
  \A k, l \in Keys :
    t.tables.position[k] = t.tables.position[l] /\ t.tables.position[k] > 0 => k = l

\* The changes after the revision that the copy x is at lead from x to the
\* tables of t.
Follows(t, x) ==
  \E m \in 0..Len(t.log), H \in [0..Len(t.log) -> Tables] :
    /\ H[m] = x.tables /\ H[Len(t.log)] = t.tables
    /\ \A i \in 1..m : t.log[i].revision <= x.at
    /\ \A i \in m + 1..Len(t.log) :
         t.log[i].revision > x.at /\ H[i] = Followed(H[i - 1], t.log[i])

Good(t) == t \in Rows /\ LogOK(t) /\ EntriesOK(t) /\ PlacesOK(t) /\ Follows(t, Fresh)

Files == [entries: [Keys -> Entry], tables: Tables]

IInv ==
  /\ Good(dict) /\ Cardinality(Personal(dict.entries)) <= MaxEntries
  /\ file \in Files
  /\ device \in [Devices -> [at: 0..dict.revision, tables: Tables]]
  /\ \A d \in Devices : Follows(dict, device[d])

----------------------------------------------------------------------------
(* Partial functions, changes and what they do to a copy.                  *)

LEMMA PartialHas ==
  ASSUME NEW V, NEW D \in SUBSET Keys, NEW f \in [D -> V]
  PROVE  f \in Partial(V)
BY DEF Partial

LEMMA PartialIs ==
  ASSUME NEW V, NEW f \in Partial(V)
  PROVE  DOMAIN f \subseteq Keys /\ \A k \in DOMAIN f : f[k] \in V
BY DEF Partial

LEMMA NonePartial ==
  ASSUME NEW V
  PROVE  None \in Partial(V) /\ DOMAIN None = {}
<1>1. None \in [{} -> V] BY DEF None
<1> QED BY <1>1, PartialHas

LEMMA SinglePartial ==
  ASSUME NEW V, NEW k \in Keys, NEW v \in V
  PROVE  Single(k, v) \in Partial(V) /\ DOMAIN Single(k, v) = {k} /\ Single(k, v)[k] = v
<1>1. Single(k, v) \in [{k} -> V] BY DEF Single
<1> QED BY <1>1, PartialHas DEF Single

LEMMA RowTypes ==
  /\ Absent \in Row /\ Tombstone \in Row /\ Blank \in Tables /\ NoEntry \in Entry
  /\ \A own \in BOOLEAN, w \in Weights : LiveRow(own, w) \in Row
BY DictionaryAssumption DEF Absent, Tombstone, Row, Blank, Tables, LiveRow, NoEntry, Entry

LEMMA NoChangeType == NoChange \in Change
<1>1. /\ None \in Partial(Row) /\ None \in Partial(Positions \cup {0})
      /\ None \in Partial(Counts \cup {0})
  BY NonePartial
<1> QED BY <1>1 DEF NoChange, Change, None

\* Each table of a copy after a change.
LEMMA FollowedFacts ==
  ASSUME NEW t \in Tables, NEW c \in Change
  PROVE  /\ Followed(t, c) \in Tables
         /\ \A k \in Keys :
              /\ Followed(t, c).overlay[k] =
                   IF k \in DOMAIN c.ranking THEN c.ranking[k]
                   ELSE IF k \in DOMAIN c.replacement THEN c.replacement[k]
                   ELSE IF k \in c.previous THEN Tombstone
                   ELSE IF c.reset THEN Absent ELSE t.overlay[k]
              /\ Followed(t, c).position[k] =
                   IF k \in DOMAIN c.position THEN c.position[k]
                   ELSE IF c.reset \/ t.position[k] \in {c.position[x] : x \in DOMAIN c.position}
                   THEN 0 ELSE t.position[k]
              /\ Followed(t, c).selection[k] =
                   IF k \in DOMAIN c.selection THEN c.selection[k]
                   ELSE IF c.reset THEN 0 ELSE t.selection[k]
<1> DEFINE s == IF c.reset THEN Blank ELSE t
           taken == {c.position[x] : x \in DOMAIN c.position} \ {0}
           f == Followed(t, c)
<1>1. s \in Tables BY RowTypes
<1>2. /\ DOMAIN s.overlay = Keys /\ DOMAIN s.position = Keys /\ DOMAIN s.selection = Keys
      /\ \A k \in Keys : s.overlay[k] \in Row /\ s.position[k] \in Positions \cup {0}
                         /\ s.selection[k] \in Counts \cup {0}
  BY <1>1 DEF Tables
<1>3. /\ c.ranking \in Partial(Row) /\ c.replacement \in Partial(Row)
      /\ c.position \in Partial(Positions \cup {0}) /\ c.selection \in Partial(Counts \cup {0})
      /\ c.previous \subseteq Keys
  BY DEF Change
<1>4. /\ \A k \in DOMAIN c.ranking : c.ranking[k] \in Row
      /\ \A k \in DOMAIN c.replacement : c.replacement[k] \in Row
      /\ \A k \in DOMAIN c.position : c.position[k] \in Positions \cup {0}
      /\ \A k \in DOMAIN c.selection : c.selection[k] \in Counts \cup {0}
  BY <1>3, PartialIs
<1>5. f = [overlay |-> Over(c.ranking, c.replacement, Over(Struck(c.previous), None, s.overlay)),
           position |-> Over(c.position, None,
                             [k \in Keys |-> IF s.position[k] \in taken THEN 0 ELSE s.position[k]]),
           selection |-> Over(c.selection, None, s.selection)]
  BY DEF Followed
<1>6. \A k : k \notin DOMAIN None BY NonePartial
<1> HIDE DEF s, taken, f
<1>7. Over(Struck(c.previous), None, s.overlay)
        = [k \in Keys |-> IF k \in c.previous THEN Tombstone ELSE s.overlay[k]]
  BY <1>2, <1>6 DEF Over, Struck
<1>8. f.overlay = [k \in Keys |-> IF k \in DOMAIN c.ranking THEN c.ranking[k]
                                  ELSE IF k \in DOMAIN c.replacement THEN c.replacement[k]
                                  ELSE IF k \in c.previous THEN Tombstone ELSE s.overlay[k]]
  BY <1>5, <1>7 DEF Over
<1>9. f.position = [k \in Keys |-> IF k \in DOMAIN c.position THEN c.position[k]
                                   ELSE IF s.position[k] \in taken THEN 0 ELSE s.position[k]]
  BY <1>5, <1>6 DEF Over
<1>10. f.selection = [k \in Keys |-> IF k \in DOMAIN c.selection THEN c.selection[k]
                                     ELSE s.selection[k]]
  BY <1>2, <1>5, <1>6 DEF Over
<1>11. f \in Tables
  <2>1. f.overlay \in [Keys -> Row] BY <1>2, <1>4, <1>8, RowTypes
  <2>2. f.position \in [Keys -> Positions \cup {0}] BY <1>2, <1>4, <1>9
  <2>3. f.selection \in [Keys -> Counts \cup {0}] BY <1>2, <1>4, <1>10
  <2> QED BY <1>5, <2>1, <2>2, <2>3 DEF Tables
<1>12. \A k \in Keys : /\ s.overlay[k] = IF c.reset THEN Absent ELSE t.overlay[k]
                       /\ s.position[k] = IF c.reset THEN 0 ELSE t.position[k]
                       /\ s.selection[k] = IF c.reset THEN 0 ELSE t.selection[k]
  BY DEF s, Blank
<1>13. ASSUME NEW k \in Keys
       PROVE  f.position[k] =
                IF k \in DOMAIN c.position THEN c.position[k]
                ELSE IF c.reset \/ t.position[k] \in {c.position[x] : x \in DOMAIN c.position}
                THEN 0 ELSE t.position[k]
  BY <1>9, <1>12 DEF taken
<1> QED BY <1>8, <1>10, <1>11, <1>12, <1>13 DEF f

\* Induction along the numbers up to n, by the smallest that is missing.
LEMMA Ascent ==
  ASSUME NEW n \in Nat, NEW S, 0 \in S, \A i \in 0..n - 1 : i \in S => i + 1 \in S
  PROVE  0..n \subseteq S
<1> DEFINE Bad == {i \in 0..n : i \notin S}
<1>1. SUFFICES ASSUME Bad # {} PROVE FALSE OBVIOUS
<1>2. Bad \in SUBSET Nat OBVIOUS
<1>3. PICK i \in Bad : \A j \in Bad : <<j, i>> \notin OpToRel(<, Nat)
  BY <1>1, <1>2, WFMin, NatLessThanWellFounded, Zenon
<1>4. \A j \in Bad : ~(j < i) BY <1>2, <1>3, Zenon DEF OpToRel
<1>5. i # 0 /\ i - 1 \in 0..n - 1 /\ i - 1 \in S BY <1>4
<1> QED BY <1>5

\* Tables are equal when they agree on every key.
LEMMA SameTables ==
  ASSUME NEW t \in Tables, NEW u \in Tables,
         \A k \in Keys : /\ t.overlay[k] = u.overlay[k] /\ t.position[k] = u.position[k]
                         /\ t.selection[k] = u.selection[k]
  PROVE  t = u
<1>1. t.overlay = u.overlay /\ t.position = u.position /\ t.selection = u.selection
  BY DEF Tables
<1> QED BY <1>1 DEF Tables

----------------------------------------------------------------------------
(* The overlay is the projection of the log.                               *)

\* The changes among the first i that name k since the last reset, and the row
\* the newest of them gives.
Named(i, k) == k \in dict.log[i].previous \cup DOMAIN dict.log[i].replacement
                       \cup DOMAIN dict.log[i].ranking
Since(i, k) == {j \in 1..i : Named(j, k) /\ \A r \in 1..i : dict.log[r].reset => r < j}
RowOf(c, k) == IF k \in DOMAIN c.ranking THEN c.ranking[k]
               ELSE IF k \in DOMAIN c.replacement THEN c.replacement[k] ELSE Tombstone
Newest(S) == CHOOSE i \in S : \A j \in S : j <= i
RowAt(i, k) == IF Since(i, k) = {} THEN Absent ELSE RowOf(dict.log[Newest(Since(i, k))], k)

\* What is rebuilt from the whole log.
LEMMA RebuiltIsRowAt ==
  ASSUME dict.log \in Seq(Change), NEW k \in Keys
  PROVE  Rebuilt(k) = RowAt(Len(dict.log), k)
<1> DEFINE resets == {i \in DOMAIN dict.log : dict.log[i].reset}
           names(i) == k \in dict.log[i].previous \cup DOMAIN dict.log[i].replacement
                              \cup DOMAIN dict.log[i].ranking
           since == {i \in DOMAIN dict.log : names(i) /\ \A r \in resets : r < i}
           newest == dict.log[CHOOSE i \in since : \A j \in since : j <= i]
<1>1. DOMAIN dict.log = 1..Len(dict.log) OBVIOUS
<1>2. since = Since(Len(dict.log), k) BY <1>1 DEF Since, Named
<1>3. newest = dict.log[Newest(Since(Len(dict.log), k))] BY <1>2 DEF Newest
<1>4. Rebuilt(k) = IF since = {} THEN Absent
                   ELSE IF k \in DOMAIN newest.ranking THEN newest.ranking[k]
                   ELSE IF k \in DOMAIN newest.replacement THEN newest.replacement[k]
                   ELSE Tombstone
  BY DEF Rebuilt
<1> HIDE DEF since, newest
<1> QED BY <1>2, <1>3, <1>4 DEF RowAt, RowOf

\* How the row changes with one more change.
LEMMA RowAtStep ==
  ASSUME NEW n \in Nat, NEW i \in 0..n - 1, NEW k, LogOK(dict), Len(dict.log) = n
  PROVE  RowAt(i + 1, k) = IF dict.log[i + 1].reset THEN Absent
                           ELSE IF Named(i + 1, k) THEN RowOf(dict.log[i + 1], k)
                           ELSE RowAt(i, k)
<1>1. CASE dict.log[i + 1].reset
  <2>1. Since(i + 1, k) = {} BY <1>1 DEF Since
  <2> QED BY <1>1, <2>1 DEF RowAt
<1>2. CASE ~dict.log[i + 1].reset /\ Named(i + 1, k)
  <2>1. i + 1 \in Since(i + 1, k) BY <1>2 DEF Since
  <2>2. \A j \in Since(i + 1, k) : j \in Nat /\ j <= i + 1 BY DEF Since
  <2>3. Newest(Since(i + 1, k)) = i + 1 BY <2>1, <2>2 DEF Newest
  <2> QED BY <1>2, <2>1, <2>3 DEF RowAt
<1>3. CASE ~dict.log[i + 1].reset /\ ~Named(i + 1, k)
  <2>1. Since(i + 1, k) = Since(i, k) BY <1>3 DEF Since
  <2> QED BY <1>3, <2>1 DEF RowAt
<1> QED BY <1>1, <1>2, <1>3

LEMMA GoodProjects ==
  ASSUME Good(dict)
  PROVE  OverlayIsProjection
<1>1. dict \in Rows /\ LogOK(dict) /\ Follows(dict, Fresh) BY DEF Good
<1> DEFINE n == Len(dict.log)
<1>2. dict.log \in Seq(Change) /\ n \in Nat /\ \A i \in 1..n : dict.log[i] \in Change
  BY <1>1 DEF Rows
<1>3. PICK H \in [0..n -> Tables] :
        /\ H[0] = Blank /\ H[n] = dict.tables
        /\ \A i \in 1..n : H[i] = Followed(H[i - 1], dict.log[i])
  <2>1. PICK m \in 0..n, H \in [0..n -> Tables] :
          /\ H[m] = Blank /\ H[n] = dict.tables
          /\ \A i \in 1..m : dict.log[i].revision <= 0
          /\ \A i \in m + 1..n : H[i] = Followed(H[i - 1], dict.log[i])
    BY <1>1 DEF Follows, Fresh
  <2>2. m = 0
    <3>1. ~(1 \in 1..m)
      <4> SUFFICES ASSUME 1 \in 1..m PROVE FALSE OBVIOUS
      <4>1. 1 \in 1..n BY <1>2
      <4>2. dict.log[1].revision \in 1..dict.revision BY <1>1, <4>1 DEF LogOK
      <4>3. dict.revision \in Nat BY <1>1 DEF Rows
      <4> QED BY <2>1, <4>2, <4>3
    <3> QED BY <3>1, <1>2
  <2> QED BY <2>1, <2>2
<1> SUFFICES ASSUME NEW k \in Keys PROVE dict.tables.overlay[k] = Rebuilt(k)
  BY DEF OverlayIsProjection
<1> DEFINE S == {i \in 0..n : H[i].overlay[k] = RowAt(i, k)}
<1> HIDE DEF n
<1>4. 0 \in S
  <2>1. Since(0, k) = {} BY DEF Since
  <2> QED BY <1>2, <1>3, <2>1 DEF RowAt, Blank
<1>5. ASSUME NEW i \in 0..n - 1, i \in S PROVE i + 1 \in S
  <2> DEFINE c == dict.log[i + 1]
  <2>1. i + 1 \in 1..n /\ i \in 0..n /\ c \in Change /\ H[i] \in Tables BY <1>2, <1>3
  <2>2. H[i + 1] = Followed(H[i], c) BY <1>2, <1>3, <2>1
  <2>3. H[i + 1].overlay[k] = IF k \in DOMAIN c.ranking THEN c.ranking[k]
                   ELSE IF k \in DOMAIN c.replacement THEN c.replacement[k]
                   ELSE IF k \in c.previous THEN Tombstone
                   ELSE IF c.reset THEN Absent ELSE H[i].overlay[k]
    BY <2>1, <2>2, FollowedFacts
  <2>4. RowAt(i + 1, k) = IF c.reset THEN Absent ELSE IF Named(i + 1, k) THEN RowOf(c, k)
                          ELSE RowAt(i, k)
    BY <1>1, <1>2, RowAtStep DEF n
  <2>5. H[i].overlay[k] = RowAt(i, k) BY <1>5
  <2>6. c.reset => ~Named(i + 1, k) BY <1>1, <2>1 DEF LogOK, Named, n
  <2>7. Named(i + 1, k) <=> k \in c.previous \/ k \in DOMAIN c.replacement \/ k \in DOMAIN c.ranking
    BY DEF Named
  <2> HIDE DEF c
  <2>8. H[i + 1].overlay[k] = RowAt(i + 1, k)
    BY <2>3, <2>4, <2>5, <2>6, <2>7 DEF RowOf
  <2> QED BY <2>1, <2>8
<1>6. n \in S
  <2> HIDE DEF S
  <2>1. \A i \in 0..n - 1 : i \in S => i + 1 \in S BY <1>5
  <2>2. n \in Nat BY <1>2
  <2>3. 0..n \subseteq S BY <1>4, <2>1, <2>2, Ascent
  <2> QED BY <2>2, <2>3
<1> QED BY <1>2, <1>3, <1>6, RebuiltIsRowAt DEF n

----------------------------------------------------------------------------
(* An edit appends its change to the log, and does to the tables what the  *)
(* change does to a copy.                                                  *)

\* Rows t come later than rows b: what leads from a copy to b leads on to t, and
\* an entry that is not as it was has a newer revision.
Later(b, t) ==
  /\ b.revision <= t.revision
  /\ \A x \in [at: 0..b.revision, tables: Tables] : Follows(b, x) => Follows(t, x)
  /\ \A k \in Keys : \/ t.entries[k] = b.entries[k] \/ t.entries[k] = NoEntry
                     \/ t.entries[k].revision > b.revision

LEMMA LaterIsTransitive ==
  ASSUME NEW a \in Rows, NEW b \in Rows, NEW c \in Rows, Later(a, b), Later(b, c)
  PROVE  Later(a, c)
<1>1. a.revision \in Nat /\ b.revision \in Nat /\ c.revision \in Nat
      /\ a.revision <= b.revision /\ b.revision <= c.revision
  BY DEF Rows, Later
<1>2. \A x \in [at: 0..a.revision, tables: Tables] : Follows(a, x) => Follows(c, x)
  <2> SUFFICES ASSUME NEW x \in [at: 0..a.revision, tables: Tables], Follows(a, x)
               PROVE  Follows(c, x)
    OBVIOUS
  <2>1. Follows(b, x) BY DEF Later
  <2>2. x \in [at: 0..b.revision, tables: Tables] BY <1>1
  <2> QED BY <2>1, <2>2 DEF Later
<1>3. ASSUME NEW k \in Keys
      PROVE  \/ c.entries[k] = a.entries[k] \/ c.entries[k] = NoEntry
             \/ c.entries[k].revision > a.revision
  <2>1. c.entries[k] \in Entry BY DEF Rows
  <2> QED BY <1>1, <2>1 DEF Later, Entry
<1> QED BY <1>1, <1>2, <1>3 DEF Later

\* A log goes on leading from a copy to the tables when it grows by changes that
\* lead on.
LEMMA LongerLog ==
  ASSUME NEW t \in Rows, NEW u \in Rows, NEW x \in [at: 0..t.revision, tables: Tables],
         Follows(t, x), Len(t.log) <= Len(u.log),
         \A i \in 1..Len(t.log) : u.log[i] = t.log[i],
         NEW G \in [Len(t.log)..Len(u.log) -> Tables],
         G[Len(t.log)] = t.tables, G[Len(u.log)] = u.tables,
         \A i \in Len(t.log) + 1..Len(u.log) :
           u.log[i].revision > t.revision /\ G[i] = Followed(G[i - 1], u.log[i])
  PROVE  Follows(u, x)
<1> DEFINE n == Len(t.log)
           l == Len(u.log)
<1>1. n \in Nat /\ l \in Nat /\ n <= l BY DEF Rows
<1>2. PICK m \in 0..n, H \in [0..n -> Tables] :
        /\ H[m] = x.tables /\ H[n] = t.tables
        /\ \A i \in 1..m : t.log[i].revision <= x.at
        /\ \A i \in m + 1..n : t.log[i].revision > x.at /\ H[i] = Followed(H[i - 1], t.log[i])
  BY DEF Follows
<1> DEFINE J == [i \in 0..l |-> IF i <= n THEN H[i] ELSE G[i]]
<1>3. t.revision \in Nat /\ x.at \in 0..t.revision BY DEF Rows
<1>4. \A i \in 1..l : u.log[i].revision \in Nat
  <2>1. \A i \in 1..l : u.log[i] \in Change BY DEF Rows
  <2> QED BY <2>1 DEF Change
<1> HIDE DEF n, l
<1>5. m \in 0..l BY <1>1
<1>6. J \in [0..l -> Tables] BY <1>1 DEF n, l
<1>7. J[m] = x.tables BY <1>1, <1>2
<1>8. J[l] = u.tables BY <1>1, <1>2 DEF n, l
<1>9. \A i \in 1..m : u.log[i].revision <= x.at
  <2>1. \A i \in 1..m : i \in 1..n BY <1>1
  <2>2. \A i \in 1..n : u.log[i] = t.log[i] BY DEF n
  <2> QED BY <1>2, <2>1, <2>2
<1>10. ASSUME NEW i \in m + 1..l
       PROVE  u.log[i].revision > x.at /\ J[i] = Followed(J[i - 1], u.log[i])
  <2>1. CASE i <= n
    <3>1. i \in m + 1..n /\ i \in 1..n /\ i - 1 <= n /\ i - 1 \in 0..l BY <1>1, <2>1
    <3>2. u.log[i] = t.log[i] BY <3>1 DEF n
    <3> QED BY <1>1, <1>2, <2>1, <3>1, <3>2
  <2>2. CASE i > n
    <3>1. i \in n + 1..l /\ i \in 1..l /\ i - 1 \in 0..l BY <1>1, <2>2
    <3>2. u.log[i].revision > t.revision /\ G[i] = Followed(G[i - 1], u.log[i])
      BY <3>1 DEF n, l
    <3>3. J[i - 1] = G[i - 1]
      BY <1>1, <1>2, <2>2, <3>1 DEF n
    <3> QED BY <1>1, <1>3, <1>4, <2>2, <3>1, <3>2, <3>3
  <2> QED BY <1>1, <2>1, <2>2
<1> HIDE DEF J
<1> QED BY <1>5, <1>6, <1>7, <1>8, <1>9, <1>10 DEF Follows, l

\* One change more, of any kind but a reset.
LEMMA Appended ==
  ASSUME NEW t, Good(t), NEW u \in Rows, NEW c \in Change,
         u.revision = t.revision + 1, c.revision = t.revision + 1, c.reset = FALSE,
         u.log = Append(t.log, c), u.tables = Followed(t.tables, c),
         EntriesOK(u), PlacesOK(u),
         \A k \in Keys : \/ u.entries[k] = t.entries[k] \/ u.entries[k] = NoEntry
                         \/ u.entries[k].revision > t.revision
  PROVE  Good(u) /\ Later(t, u)
<1> DEFINE n == Len(t.log)
<1>1. t \in Rows /\ LogOK(t) /\ Follows(t, Fresh) BY DEF Good
<1>2. t.revision \in Nat /\ t.log \in Seq(Change) /\ n \in Nat /\ t.tables \in Tables
      /\ u.tables \in Tables
  BY <1>1 DEF Rows
<1>3. Len(u.log) = n + 1 /\ u.log[n + 1] = c /\ \A i \in 1..n : u.log[i] = t.log[i]
  BY <1>2
<1> HIDE DEF n
<1>4. LogOK(u)
  <2> SUFFICES ASSUME NEW i \in 1..n + 1
               PROVE  /\ u.log[i].revision \in 1..u.revision
                      /\ \A j \in 1..i - 1 : u.log[j].revision < u.log[i].revision
                      /\ u.log[i].reset => /\ u.log[i].previous = {}
                                           /\ DOMAIN u.log[i].replacement = {}
                                           /\ DOMAIN u.log[i].ranking = {}
    BY <1>3 DEF LogOK
  <2>1. CASE i \in 1..n
    BY <1>1, <1>2, <1>3, <2>1 DEF LogOK, n
  <2>2. CASE i = n + 1
    <3>1. \A j \in 1..n : u.log[j].revision \in 1..t.revision
      BY <1>1, <1>3 DEF LogOK, n
    <3> QED BY <1>2, <1>3, <2>2, <3>1
  <2>3. i \in 1..n \/ i = n + 1 BY <1>2
  <2> QED BY <2>1, <2>2, <2>3
<1>5. ASSUME NEW x \in [at: 0..t.revision, tables: Tables], Follows(t, x)
      PROVE  Follows(u, x)
  <2> DEFINE G == [i \in n..n + 1 |-> IF i = n THEN t.tables ELSE u.tables]
  <2>1. G \in [n..n + 1 -> Tables] /\ G[n] = t.tables /\ G[n + 1] = u.tables BY <1>2
  <2>2. \A i \in n + 1..n + 1 : i = n + 1 BY <1>2
  <2>3. G[n + 1] = Followed(G[(n + 1) - 1], u.log[n + 1]) BY <1>2, <1>3, <2>1
  <2>4. u.log[n + 1].revision > t.revision BY <1>2, <1>3
  <2> HIDE DEF G
  <2>5. \A i \in n + 1..n + 1 :
          u.log[i].revision > t.revision /\ G[i] = Followed(G[i - 1], u.log[i])
    BY <2>2, <2>3, <2>4
  <2>6. n <= n + 1 BY <1>2
  <2>7. Len(t.log) = n /\ Len(u.log) = n + 1 BY <1>3 DEF n
  <2>8. /\ G \in [Len(t.log)..Len(u.log) -> Tables]
        /\ G[Len(t.log)] = t.tables /\ G[Len(u.log)] = u.tables
        /\ \A i \in Len(t.log) + 1..Len(u.log) :
             u.log[i].revision > t.revision /\ G[i] = Followed(G[i - 1], u.log[i])
        /\ \A i \in 1..Len(t.log) : u.log[i] = t.log[i]
        /\ Len(t.log) <= Len(u.log)
    BY <1>3, <2>1, <2>5, <2>6, <2>7
  <2> QED BY <1>1, <1>5, <2>8, LongerLog, Zenon
<1>6. Fresh \in [at: 0..t.revision, tables: Tables] BY <1>2, RowTypes DEF Fresh
<1>7. Good(u) BY <1>1, <1>4, <1>5, <1>6 DEF Good
<1>8. Later(t, u) BY <1>2, <1>5 DEF Later
<1> QED BY <1>7, <1>8

----------------------------------------------------------------------------
(* Each kind of edit, on rows that are good.                               *)

\* A change that strikes words out and writes rows.
Written(r, old, rows) ==
  [NoChange EXCEPT !.revision = r, !.previous = old, !.replacement = rows]
Overwritten(t, old, rows) == [t EXCEPT !.overlay = Over(rows, Struck(old), @)]

LEMMA WritingChange ==
  ASSUME NEW r \in Nat, NEW old \in SUBSET Keys, NEW rows \in Partial(Row)
  PROVE  /\ Written(r, old, rows) \in Change /\ Written(r, old, rows).revision = r
         /\ Written(r, old, rows).previous = old /\ Written(r, old, rows).replacement = rows
BY NoChangeType, NonePartial DEF Written, NoChange, Change, None

LEMMA WritingOnly ==
  ASSUME NEW r, NEW old, NEW rows
  PROVE  /\ Written(r, old, rows).reset = FALSE /\ Written(r, old, rows).ranking = None
         /\ Written(r, old, rows).position = None /\ Written(r, old, rows).selection = None
BY DEF Written, NoChange, None

\* Tables whose overlay alone is written.
LEMMA OverlaidRows ==
  ASSUME NEW t \in Tables, NEW old, NEW rows, NEW k \in Keys
  PROVE  Overwritten(t, old, rows).overlay[k] =
           IF k \in DOMAIN rows THEN rows[k] ELSE IF k \in old THEN Tombstone ELSE t.overlay[k]
BY DEF Tables, Overwritten, Over, Struck

LEMMA Overlaid ==
  ASSUME NEW t \in Tables, NEW old \in SUBSET Keys, NEW rows \in Partial(Row), NEW r \in Nat
  PROVE  /\ Overwritten(t, old, rows) \in Tables
         /\ Overwritten(t, old, rows) = Followed(t, Written(r, old, rows))
         /\ Overwritten(t, old, rows).position = t.position
<1> DEFINE c == Written(r, old, rows)
           u == Overwritten(t, old, rows)
<1>1. c \in Change /\ c.previous = old /\ c.replacement = rows BY WritingChange
<1>w. /\ c.reset = FALSE /\ c.ranking = None /\ c.position = None /\ c.selection = None
  BY WritingOnly
<1>n. \A k : k \notin DOMAIN None BY NonePartial
<1>2. DOMAIN t.overlay = Keys /\ \A k \in Keys : t.overlay[k] \in Row BY DEF Tables
<1>3. \A k \in DOMAIN rows : rows[k] \in Row BY PartialIs
<1>4. Over(rows, Struck(old), t.overlay)
        = [k \in Keys |-> IF k \in DOMAIN rows THEN rows[k]
                          ELSE IF k \in old THEN Tombstone ELSE t.overlay[k]]
  BY <1>2 DEF Over, Struck
<1>5. u.overlay = Over(rows, Struck(old), t.overlay) /\ u.position = t.position
      /\ u.selection = t.selection
      /\ u = [overlay |-> u.overlay, position |-> t.position, selection |-> t.selection]
  BY DEF Tables, Overwritten
<1>6. u \in Tables
  <2>1. u.overlay \in [Keys -> Row] BY <1>2, <1>3, <1>4, <1>5, RowTypes
  <2> QED BY <1>5, <2>1 DEF Tables
<1> HIDE DEF c, u
<1>7. u = Followed(t, c)
  <2> SUFFICES ASSUME NEW k \in Keys
               PROVE  /\ u.overlay[k] = Followed(t, c).overlay[k]
                      /\ u.position[k] = Followed(t, c).position[k]
                      /\ u.selection[k] = Followed(t, c).selection[k]
    BY <1>1, <1>6, FollowedFacts, SameTables
  <2> QED BY <1>1, <1>w, <1>n, <1>4, <1>5, FollowedFacts
<1> QED BY <1>4, <1>5, <1>6, <1>7 DEF c, u

\* An entry that an edit leaves alone.
LEMMA EntryKept ==
  ASSUME NEW t, t.revision \in Nat, EntriesOK(t), NEW k \in Keys, t.entries[k] # NoEntry
  PROVE  /\ t.entries[k].id \in 1..t.revision + 1 /\ t.entries[k].revision \in 1..t.revision + 1
         /\ t.tables.overlay[k] = LiveRow(TRUE, t.entries[k].weight)
         /\ \A l \in Keys : t.entries[l].id = t.entries[k].id => l = k
<1>1. /\ t.entries[k].id \in 1..t.revision /\ t.entries[k].revision \in 1..t.revision
      /\ t.tables.overlay[k] = LiveRow(TRUE, t.entries[k].weight)
      /\ \A l \in Keys : t.entries[l].id = t.entries[k].id => l = k
  BY DEF EntriesOK
<1>2. t.entries[k].id \in 1..t.revision + 1 /\ t.entries[k].revision \in 1..t.revision + 1
  BY <1>1
<1> QED BY <1>1, <1>2

\* dictionaryEdit, of one personal entry or none, to one key or none.
LEMMA EditedOK ==
  ASSUME NEW t, Good(t), NEW old \in SUBSET Personal(t.entries), \A x, y \in old : x = y,
         NEW new \in Partial(Weights), \A x, y \in DOMAIN new : x = y
  PROVE  LET u == Edited(t, old, new) IN
         /\ Good(u) /\ Later(t, u)
         /\ Personal(u.entries) = (Personal(t.entries) \ old) \cup DOMAIN new
<1> DEFINE r == t.revision + 1
           id == IF old = {} THEN r ELSE t.entries[CHOOSE k \in old : TRUE].id
           rows == [k \in DOMAIN new |-> LiveRow(TRUE, new[k])]
           c == Written(r, old, rows)
           u == Edited(t, old, new)
<1>1. /\ t \in Rows /\ EntriesOK(t) /\ PlacesOK(t) /\ r \in Nat /\ t.revision \in Nat
      /\ t.tables \in Tables /\ t.entries \in [Keys -> Entry] /\ t.log \in Seq(Change)
  BY DEF Good, Rows
<1>2. /\ u.revision = r /\ u.log = Append(t.log, c)
      /\ u.tables = Overwritten(t.tables, old, rows)
      /\ u.entries = Over([k \in DOMAIN new |-> [id |-> id, weight |-> new[k], revision |-> r]],
                          [k \in old |-> NoEntry], t.entries)
      /\ u = [revision |-> u.revision, entries |-> u.entries, tables |-> u.tables, log |-> u.log]
  BY DEF Edited, NextRevision, Written, Overwritten
<1> HIDE DEF u
<1>3. /\ old \subseteq Keys /\ DOMAIN new \subseteq Keys
      /\ \A k \in DOMAIN new : new[k] \in Weights
  BY PartialIs DEF Personal
<1>4. rows \in Partial(Row) /\ DOMAIN rows = DOMAIN new
  <2>1. rows \in [DOMAIN new -> Row] BY <1>3, RowTypes
  <2> QED BY <1>3, <2>1, PartialHas
<1>r. \A k \in DOMAIN new : rows[k] = LiveRow(TRUE, new[k]) OBVIOUS
<1> HIDE DEF rows
<1>5. /\ u.tables \in Tables /\ u.tables = Followed(t.tables, c)
      /\ u.tables.position = t.tables.position
      /\ \A k \in Keys : u.tables.overlay[k] = IF k \in DOMAIN rows THEN rows[k]
                           ELSE IF k \in old THEN Tombstone ELSE t.tables.overlay[k]
  <2>1. u.tables \in Tables /\ u.tables = Followed(t.tables, c)
        /\ u.tables.position = t.tables.position
    BY <1>1, <1>2, <1>3, <1>4, Overlaid
  <2>2. \A k \in Keys : Overwritten(t.tables, old, rows).overlay[k] =
          IF k \in DOMAIN rows THEN rows[k]
          ELSE IF k \in old THEN Tombstone ELSE t.tables.overlay[k]
    BY <1>1, OverlaidRows
  <2>3. u.tables = Overwritten(t.tables, old, rows) BY <1>2
  <2> QED BY <2>1, <2>2, <2>3
<1>6. c \in Change /\ c.revision = r /\ c.reset = FALSE
  <2>1. c \in Change /\ c.revision = r BY <1>1, <1>3, <1>4, WritingChange
  <2> QED BY <2>1, WritingOnly
<1>7. /\ id \in 1..r
      /\ \A k \in Keys \ old : t.entries[k] # NoEntry => t.entries[k].id # id
      /\ id = r \/ \E o \in old : id = t.entries[o].id
  <2>1. \A k \in Keys : t.entries[k] # NoEntry => t.entries[k].id \in 1..t.revision
    BY <1>1 DEF EntriesOK
  <2>2. CASE old = {} BY <1>1, <2>1, <2>2
  <2>3. CASE old # {}
    <3>1. PICK o \in old : id = t.entries[o].id BY <2>3
    <3>2. o \in Keys /\ t.entries[o] # NoEntry BY <1>3 DEF Personal
    <3>3. \A l \in Keys : t.entries[l].id = t.entries[o].id => l = o
      BY <1>1, <3>2 DEF EntriesOK
    <3> QED BY <1>1, <2>1, <3>1, <3>2, <3>3
  <2> QED BY <2>2, <2>3
<1> HIDE DEF id, c
<1>8. u.entries = [k \in Keys |->
                     IF k \in DOMAIN new THEN [id |-> id, weight |-> new[k], revision |-> r]
                     ELSE IF k \in old THEN NoEntry ELSE t.entries[k]]
  BY <1>1, <1>2 DEF Over
<1>9. u \in Rows
  <2>1. u.entries \in [Keys -> Entry]
    <3>1. \A k \in DOMAIN new : [id |-> id, weight |-> new[k], revision |-> r] \in Entry
      BY <1>1, <1>3, <1>7 DEF Entry
    <3>2. \A k \in Keys : t.entries[k] \in Entry BY <1>1
    <3> QED BY <1>8, <3>1, <3>2, RowTypes
  <2>2. u.log \in Seq(Change) BY <1>1, <1>2, <1>6
  <2> QED BY <1>1, <1>2, <1>5, <2>1, <2>2 DEF Rows
<1>10. \A k \in DOMAIN new : u.entries[k].id = id /\ u.entries[k].weight = new[k]
                             /\ u.entries[k].revision = r /\ u.entries[k] # NoEntry
  BY <1>3, <1>7, <1>8 DEF NoEntry
<1>11. \A k \in Keys \ DOMAIN new : u.entries[k] = IF k \in old THEN NoEntry ELSE t.entries[k]
  BY <1>8
<1>12. EntriesOK(u)
  <2> SUFFICES ASSUME NEW k \in Keys
               PROVE  /\ u.entries[k] = NoEntry => u.tables.overlay[k].state # "own"
                      /\ u.entries[k] # NoEntry =>
                           /\ u.entries[k].id \in 1..r /\ u.entries[k].revision \in 1..r
                           /\ u.tables.overlay[k] = LiveRow(TRUE, u.entries[k].weight)
                           /\ \A l \in Keys : u.entries[l].id = u.entries[k].id => l = k
    BY <1>2 DEF EntriesOK
  <2>0. NoEntry.id = 0 /\ Tombstone.state # "own" BY DEF NoEntry, Tombstone
  <2>1. CASE k \in DOMAIN new
    <3>1. u.tables.overlay[k] = LiveRow(TRUE, new[k]) BY <1>3, <1>4, <1>5, <1>r, <2>1
    <3>2. ASSUME NEW l \in Keys, u.entries[l].id = id PROVE l = k
      <4>1. CASE l \in DOMAIN new BY <2>1, <4>1
      <4>2. CASE l \notin DOMAIN new
        <5>1. u.entries[l] # NoEntry BY <1>1, <1>7, <2>0, <3>2
        <5> QED BY <1>7, <1>11, <3>2, <4>2, <5>1
      <4> QED BY <4>1, <4>2
    <3>3. /\ u.entries[k] # NoEntry /\ u.entries[k].weight = new[k]
          /\ u.entries[k].id = id /\ u.entries[k].revision = r
      BY <1>10, <2>1
    <3>4. id \in 1..r /\ r \in 1..r BY <1>1, <1>7
    <3> QED BY <3>1, <3>2, <3>3, <3>4
  <2>2. CASE k \notin DOMAIN new /\ k \in old
    <3>1. u.entries[k] = NoEntry /\ u.tables.overlay[k] = Tombstone
      BY <1>4, <1>5, <1>11, <2>2
    <3> QED BY <2>0, <3>1
  <2>3. CASE k \notin DOMAIN new /\ k \notin old
    <3>1. u.entries[k] = t.entries[k] /\ u.tables.overlay[k] = t.tables.overlay[k]
      BY <1>4, <1>5, <1>11, <2>3
    <3>2. CASE t.entries[k] = NoEntry BY <1>1, <3>1, <3>2 DEF EntriesOK
    <3>3. CASE t.entries[k] # NoEntry
      <4>1. /\ t.entries[k].id \in 1..r /\ t.entries[k].revision \in 1..r
            /\ t.tables.overlay[k] = LiveRow(TRUE, t.entries[k].weight)
            /\ \A l \in Keys : t.entries[l].id = t.entries[k].id => l = k
        BY <1>1, <3>3, EntryKept
      <4>2. ASSUME NEW l \in Keys, u.entries[l].id = t.entries[k].id PROVE l = k
        <5>1. l \notin DOMAIN new BY <1>7, <1>10, <2>3, <3>3, <4>2
        <5>2. l \notin old BY <1>11, <2>0, <4>1, <4>2, <5>1
        <5> QED BY <1>11, <4>1, <4>2, <5>1, <5>2
      <4> QED BY <3>1, <3>3, <4>1, <4>2
    <3> QED BY <3>2, <3>3
  <2> QED BY <2>1, <2>2, <2>3
<1>13. PlacesOK(u) BY <1>1, <1>5 DEF PlacesOK
<1>14. \A k \in Keys : \/ u.entries[k] = t.entries[k] \/ u.entries[k] = NoEntry
                       \/ u.entries[k].revision > t.revision
  BY <1>1, <1>10, <1>11
<1>15. Good(u) /\ Later(t, u)
  BY <1>2, <1>5, <1>6, <1>9, <1>12, <1>13, <1>14, Appended
<1>16. Personal(u.entries) = (Personal(t.entries) \ old) \cup DOMAIN new
  BY <1>3, <1>10, <1>11 DEF Personal
<1> QED BY <1>15, <1>16 DEF u

LEMMA FoundPersonal ==
  ASSUME Good(dict), NEW k \in Keys, dict.entries[k] # NoEntry
  PROVE  Found(k) /\ dict.tables.overlay[k].state = "own"
<1>1. dict.tables.overlay[k] = LiveRow(TRUE, dict.entries[k].weight) BY DEF Good, EntriesOK
<1>2. dict.tables.overlay[k].state = "own" BY <1>1 DEF LiveRow
<1> QED BY <1>2 DEF Found

\* EditManagedDictionary of a word of the user's own is an edit of its entry.
LEMMA ManagedOwn ==
  ASSUME Good(dict), NEW k \in Keys, dict.entries[k] # NoEntry, NEW new \in Partial(Weights)
  PROVE  Managed(k, new) = Edited(dict, {k}, new)
<1> DEFINE r == dict.revision + 1
           own == dict.entries[k] # NoEntry
           rows(b) == [x \in DOMAIN new |-> LiveRow(b, new[x])]
           kept(i) == [x \in DOMAIN new |-> [id |-> i, weight |-> new[x], revision |-> r]]
           made(b, e) == [revision |-> r, entries |-> e,
                          tables |-> Overwritten(dict.tables, {k}, rows(b)),
                          log |-> Append(dict.log, Written(r, {k}, rows(b)))]
           id == IF {k} = {} THEN r ELSE dict.entries[CHOOSE x \in {k} : TRUE].id
<1>1. id = dict.entries[k].id
  <2>1. (CHOOSE x \in {k} : TRUE) = k OBVIOUS
  <2> QED BY <2>1
<1>2. own = TRUE OBVIOUS
<1>3. Managed(k, new)
        = made(own, Over(IF own THEN kept(dict.entries[k].id) ELSE None, Single(k, NoEntry),
                         dict.entries))
  BY DEF Managed, NextRevision, Written, Overwritten
<1>4. Edited(dict, {k}, new) = made(TRUE, Over(kept(id), Single(k, NoEntry), dict.entries))
  BY DEF Edited, NextRevision, Written, Overwritten, Single
<1> HIDE DEF own, made, kept, id
<1> QED BY <1>1, <1>2, <1>3, <1>4

\* Of another word it leaves the entries alone.
LEMMA ManagedOther ==
  ASSUME Good(dict), NEW k \in Keys, dict.entries[k] = NoEntry, NEW new \in Partial(Weights),
         \A x \in DOMAIN new : x = k \/ ~Found(x)
  PROVE  LET u == Managed(k, new) IN Good(u) /\ Later(dict, u) /\ u.entries = dict.entries
<1> DEFINE r == dict.revision + 1
           rows == [x \in DOMAIN new |-> LiveRow(FALSE, new[x])]
           c == Written(r, {k}, rows)
           u == Managed(k, new)
<1>1. /\ dict \in Rows /\ EntriesOK(dict) /\ PlacesOK(dict) /\ r \in Nat /\ dict.revision \in Nat
      /\ dict.tables \in Tables /\ dict.entries \in [Keys -> Entry] /\ dict.log \in Seq(Change)
  BY DEF Good, Rows
<1>2. (dict.entries[k] # NoEntry) = FALSE OBVIOUS
<1>3. /\ u.revision = r /\ u.log = Append(dict.log, c)
      /\ u.tables = Overwritten(dict.tables, {k}, rows)
      /\ u.entries = Over(None, Single(k, NoEntry), dict.entries)
      /\ u = [revision |-> u.revision, entries |-> u.entries, tables |-> u.tables, log |-> u.log]
  BY <1>2 DEF Managed, NextRevision, Written, Overwritten
<1>4. u.entries = dict.entries
  <2>1. \A x : x \notin DOMAIN None BY NonePartial
  <2>2. Over(None, Single(k, NoEntry), dict.entries) = dict.entries
    BY <1>1, <2>1 DEF Over, Single
  <2> QED BY <1>3, <2>2
<1>5. DOMAIN new \subseteq Keys /\ \A x \in DOMAIN new : new[x] \in Weights BY PartialIs
<1>6. rows \in Partial(Row) /\ DOMAIN rows = DOMAIN new
  <2>1. rows \in [DOMAIN new -> Row] BY <1>5, RowTypes
  <2> QED BY <1>5, <2>1, PartialHas
<1>r. \A x \in DOMAIN new : rows[x].state = "base" BY DEF LiveRow
<1> HIDE DEF u, rows
<1>7. u.tables \in Tables /\ u.tables = Followed(dict.tables, c)
      /\ u.tables.position = dict.tables.position
  BY <1>1, <1>3, <1>6, Overlaid
<1>8. \A x \in Keys : u.tables.overlay[x] = IF x \in DOMAIN new THEN rows[x]
                        ELSE IF x = k THEN Tombstone ELSE dict.tables.overlay[x]
  <2>1. \A x \in Keys : Overwritten(dict.tables, {k}, rows).overlay[x] =
          IF x \in DOMAIN rows THEN rows[x]
          ELSE IF x \in {k} THEN Tombstone ELSE dict.tables.overlay[x]
    BY <1>1, OverlaidRows
  <2> QED BY <1>3, <1>6, <2>1
<1>9. c \in Change /\ c.revision = r /\ c.reset = FALSE
  <2>1. c \in Change /\ c.revision = r BY <1>1, <1>6, WritingChange
  <2> QED BY <2>1, WritingOnly
<1> HIDE DEF c
<1>10. u \in Rows
  <2>1. u.log \in Seq(Change) BY <1>1, <1>3, <1>9
  <2> QED BY <1>1, <1>3, <1>4, <1>7, <2>1 DEF Rows
<1>11. EntriesOK(u)
  <2> SUFFICES ASSUME NEW x \in Keys
               PROVE  /\ dict.entries[x] = NoEntry => u.tables.overlay[x].state # "own"
                      /\ dict.entries[x] # NoEntry =>
                           /\ dict.entries[x].id \in 1..r /\ dict.entries[x].revision \in 1..r
                           /\ u.tables.overlay[x] = LiveRow(TRUE, dict.entries[x].weight)
                           /\ \A l \in Keys : dict.entries[l].id = dict.entries[x].id => l = x
    BY <1>3, <1>4 DEF EntriesOK
  <2>1. CASE x \in DOMAIN new \/ x = k
    <3>1. dict.entries[x] = NoEntry BY <2>1, FoundPersonal
    <3>2. u.tables.overlay[x].state # "own" BY <1>8, <1>r, <2>1 DEF Tombstone
    <3> QED BY <3>1, <3>2
  <2>2. CASE x \notin DOMAIN new /\ x # k
    <3>1. u.tables.overlay[x] = dict.tables.overlay[x] BY <1>8, <2>2
    <3>2. CASE dict.entries[x] = NoEntry BY <1>1, <3>1, <3>2 DEF EntriesOK
    <3>3. CASE dict.entries[x] # NoEntry BY <1>1, <3>1, <3>3, EntryKept
    <3> QED BY <3>2, <3>3
  <2> QED BY <2>1, <2>2
<1>12. PlacesOK(u) BY <1>1, <1>7 DEF PlacesOK
<1>13. Good(u) /\ Later(dict, u)
  BY <1>1, <1>3, <1>4, <1>7, <1>9, <1>10, <1>11, <1>12, Appended
<1> QED BY <1>4, <1>13 DEF u

\* mutateCandidate for "personal_delete" does what deleting the word does.
LEMMA DeletedIsManaged ==
  ASSUME Good(dict), NEW k \in Keys
  PROVE  Managed(k, None)
           = [revision |-> NextRevision(dict),
              entries |-> [dict.entries EXCEPT ![k] = NoEntry],
              tables |-> [dict.tables EXCEPT !.overlay[k] = Tombstone],
              log |-> Append(dict.log, [NoChange EXCEPT !.revision = NextRevision(dict),
                                                        !.previous = {k}])]
<1> DEFINE r == NextRevision(dict)
           own == dict.entries[k] # NoEntry
           rows == [x \in DOMAIN None |-> LiveRow(own, None[x])]
           kept == IF own
                   THEN [x \in DOMAIN None |-> [id |-> dict.entries[k].id,
                                                weight |-> None[x], revision |-> r]]
                   ELSE None
<1>1. dict \in Rows BY DEF Good
<1>2. dict.entries \in [Keys -> Entry] /\ dict.tables \in Tables BY <1>1 DEF Rows
<1>3. DOMAIN dict.tables.overlay = Keys BY <1>2 DEF Tables
<1>4. DOMAIN None = {} BY NonePartial
<1>5. rows = <<>> /\ DOMAIN kept = {} BY <1>4
<1>6. Managed(k, None)
        = [revision |-> r, entries |-> Over(kept, Single(k, NoEntry), dict.entries),
           tables |-> [dict.tables EXCEPT !.overlay = Over(rows, Struck({k}), @)],
           log |-> Append(dict.log, [NoChange EXCEPT !.revision = r, !.previous = {k},
                                                     !.replacement = rows])]
  BY DEF Managed
<1> HIDE DEF r, own, rows, kept
<1>7. Over(kept, Single(k, NoEntry), dict.entries) = [dict.entries EXCEPT ![k] = NoEntry]
  BY <1>2, <1>5 DEF Over, Single
<1>8. [dict.tables EXCEPT !.overlay = Over(rows, Struck({k}), @)]
        = [dict.tables EXCEPT !.overlay[k] = Tombstone]
  <2>1. Over(rows, Struck({k}), dict.tables.overlay)
          = [dict.tables.overlay EXCEPT ![k] = Tombstone]
    BY <1>3, <1>5 DEF Over, Struck
  <2> QED BY <1>2, <2>1 DEF Tables
<1>9. [NoChange EXCEPT !.revision = r, !.previous = {k}, !.replacement = rows]
        = [NoChange EXCEPT !.revision = r, !.previous = {k}]
  <2> DEFINE a == [NoChange EXCEPT !.revision = r, !.previous = {k}, !.replacement = rows]
             b == [NoChange EXCEPT !.revision = r, !.previous = {k}]
  <2>1. <<>> \in Partial(Row) BY NonePartial DEF None
  <2>2. r \in Nat BY <1>1 DEF Rows, r, NextRevision
  <2>3. a \in Change /\ b \in Change BY <1>5, <2>1, <2>2, NoChangeType DEF Change
  <2>4. a.revision = b.revision /\ a.reset = b.reset /\ a.previous = b.previous
    BY DEF NoChange
  <2>5. a.replacement = b.replacement BY <1>5 DEF NoChange
  <2>6. a.ranking = b.ranking /\ a.position = b.position /\ a.selection = b.selection
    BY DEF NoChange
  <2> HIDE DEF a, b
  <2>7. a = b BY <2>3, <2>4, <2>5, <2>6 DEF Change
  <2> QED BY <2>7 DEF a, b
<1> QED BY <1>6, <1>7, <1>8, <1>9 DEF r

\* A change that places a word.
Placing(r, k, p) == [NoChange EXCEPT !.revision = r, !.position = Single(k, p)]

LEMMA PlacingType ==
  ASSUME NEW r \in Nat, NEW k \in Keys, NEW p \in Positions \cup {0}
  PROVE  Placing(r, k, p) \in Change
<1>1. Single(k, p) \in Partial(Positions \cup {0}) BY SinglePartial
<1> QED BY <1>1, NoChangeType DEF Placing, Change

LEMMA PlacingOnly ==
  ASSUME NEW r, NEW k, NEW p
  PROVE  Placing(r, k, p).revision = r /\ Placing(r, k, p).reset = FALSE
BY DEF Placing, NoChange

LEMMA FollowedPosition ==
  ASSUME NEW t \in Tables, NEW r \in Nat, NEW k \in Keys, NEW p \in Positions \cup {0},
         NEW x \in Keys
  PROVE  /\ Followed(t, Placing(r, k, p)) \in Tables
         /\ Followed(t, Placing(r, k, p)).overlay[x] = t.overlay[x]
         /\ Followed(t, Placing(r, k, p)).selection[x] = t.selection[x]
         /\ Followed(t, Placing(r, k, p)).position[x] =
              IF x = k THEN p ELSE IF t.position[x] = p THEN 0 ELSE t.position[x]
<1> DEFINE c == Placing(r, k, p)
<1>1. DOMAIN Single(k, p) = {k} /\ Single(k, p)[k] = p BY DEF Single
<1>2. c \in Change BY PlacingType
<1>3. c.reset = FALSE /\ c.position = Single(k, p) BY DEF Placing, NoChange
<1>4. x \notin c.previous /\ x \notin DOMAIN c.replacement /\ x \notin DOMAIN c.ranking
      /\ x \notin DOMAIN c.selection
  BY NonePartial DEF Placing, NoChange, None
<1> HIDE DEF c
<1>5. {c.position[y] : y \in DOMAIN c.position} = {p} BY <1>1, <1>3
<1>6. Followed(t, c) \in Tables BY <1>2, FollowedFacts
<1>7. Followed(t, c).overlay[x] = t.overlay[x] BY <1>2, <1>3, <1>4, FollowedFacts
<1>8. Followed(t, c).selection[x] = t.selection[x] BY <1>2, <1>3, <1>4, FollowedFacts
<1>9. Followed(t, c).position[x] =
        IF x = k THEN p ELSE IF t.position[x] = p THEN 0 ELSE t.position[x]
  BY <1>1, <1>2, <1>3, <1>5, FollowedFacts
<1> QED BY <1>6, <1>7, <1>8, <1>9 DEF c

\* SetCandidatePosition: the position is taken from the word that holds it.
LEMMA PlacedOK ==
  ASSUME Good(dict), NEW k \in Keys, NEW p \in Positions \cup {0}
  PROVE  LET r == NextRevision(dict)
             u == [dict EXCEPT
                     !.revision = r, !.tables.position = PlacedAt(k, p),
                     !.log = Append(@, [NoChange EXCEPT !.revision = r,
                                                        !.position = Single(k, p)])]
         IN  Good(u) /\ Later(dict, u) /\ u.entries = dict.entries
<1> DEFINE r == dict.revision + 1
           c == Placing(r, k, p)
           u == [dict EXCEPT !.revision = r, !.tables.position = PlacedAt(k, p),
                             !.log = Append(@, c)]
<1>1. /\ dict \in Rows /\ EntriesOK(dict) /\ PlacesOK(dict) /\ r \in Nat /\ dict.revision \in Nat
      /\ dict.tables \in Tables /\ dict.entries \in [Keys -> Entry] /\ dict.log \in Seq(Change)
  BY DEF Good, Rows
<1>2. /\ u.revision = r /\ u.log = Append(dict.log, c) /\ u.entries = dict.entries
      /\ u.tables = [dict.tables EXCEPT !.position = PlacedAt(k, p)]
  <2>1. u.revision = r BY <1>1 DEF Rows
  <2>2. u.log = Append(dict.log, c) BY <1>1 DEF Rows
  <2>3. u.entries = dict.entries BY <1>1 DEF Rows
  <2>4. u.tables = [dict.tables EXCEPT !.position = PlacedAt(k, p)] BY <1>1 DEF Rows
  <2> QED BY <2>1, <2>2, <2>3, <2>4
<1>4. c \in Change /\ c.revision = r /\ c.reset = FALSE BY <1>1, PlacingType, PlacingOnly
<1> HIDE DEF u, c
<1>7. /\ u.tables.overlay = dict.tables.overlay /\ u.tables.selection = dict.tables.selection
      /\ u.tables.position = PlacedAt(k, p)
      /\ u.tables = [overlay |-> u.tables.overlay, position |-> u.tables.position,
                     selection |-> u.tables.selection]
  BY <1>1, <1>2 DEF Tables
<1>p. \A x \in Keys : dict.tables.position[x] \in Positions \cup {0} BY <1>1 DEF Tables
<1>8. \A x \in Keys : u.tables.position[x] = IF x = k THEN p
                        ELSE IF p > 0 /\ dict.tables.position[x] = p THEN 0
                        ELSE dict.tables.position[x]
  BY <1>7 DEF PlacedAt
<1>9. u.tables \in Tables
  <2>1. PlacedAt(k, p) \in [Keys -> Positions \cup {0}] BY <1>p DEF PlacedAt
  <2>2. u.tables.overlay \in [Keys -> Row] /\ u.tables.selection \in [Keys -> Counts \cup {0}]
    BY <1>1, <1>7 DEF Tables
  <2> QED BY <1>7, <2>1, <2>2 DEF Tables
<1>10. u.tables = Followed(dict.tables, c)
  <2>1. p > 0 \/ p = 0 BY DictionaryAssumption
  <2>2. ASSUME NEW x \in Keys
        PROVE  /\ Followed(dict.tables, c) \in Tables
               /\ u.tables.overlay[x] = Followed(dict.tables, c).overlay[x]
               /\ u.tables.position[x] = Followed(dict.tables, c).position[x]
               /\ u.tables.selection[x] = Followed(dict.tables, c).selection[x]
    <3>1. /\ Followed(dict.tables, c) \in Tables
          /\ Followed(dict.tables, c).overlay[x] = dict.tables.overlay[x]
          /\ Followed(dict.tables, c).selection[x] = dict.tables.selection[x]
          /\ Followed(dict.tables, c).position[x] =
               IF x = k THEN p
               ELSE IF dict.tables.position[x] = p THEN 0 ELSE dict.tables.position[x]
      BY <1>1, FollowedPosition DEF c
    <3> QED BY <1>7, <1>8, <2>1, <3>1
  <2> QED BY <1>9, <2>2, SameTables
<1>11. u \in Rows
  <2>1. Append(dict.log, c) \in Seq(Change) BY <1>1, <1>4
  <2>2. [dict.tables EXCEPT !.position = PlacedAt(k, p)] \in Tables BY <1>2, <1>9
  <2> QED BY <1>1, <2>1, <2>2 DEF Rows, u
<1>12. EntriesOK(u)
  <2> SUFFICES ASSUME NEW x \in Keys
               PROVE  /\ dict.entries[x] = NoEntry => u.tables.overlay[x].state # "own"
                      /\ dict.entries[x] # NoEntry =>
                           /\ dict.entries[x].id \in 1..r /\ dict.entries[x].revision \in 1..r
                           /\ u.tables.overlay[x] = LiveRow(TRUE, dict.entries[x].weight)
                           /\ \A l \in Keys : dict.entries[l].id = dict.entries[x].id => l = x
    BY <1>2 DEF EntriesOK
  <2>1. CASE dict.entries[x] = NoEntry BY <1>1, <1>7, <2>1 DEF EntriesOK
  <2>2. CASE dict.entries[x] # NoEntry BY <1>1, <1>7, <2>2, EntryKept
  <2> QED BY <2>1, <2>2
<1>13. PlacesOK(u)
  <2> SUFFICES ASSUME NEW x \in Keys, NEW y \in Keys,
                      u.tables.position[x] = u.tables.position[y], u.tables.position[x] > 0
               PROVE  x = y
    BY DEF PlacesOK
  <2>1. dict.tables.position[x] = dict.tables.position[y] /\ dict.tables.position[x] > 0 => x = y
    BY <1>1 DEF PlacesOK
  <2> QED BY <1>8, <2>1
<1>14. Good(u) /\ Later(dict, u)
  BY <1>1, <1>2, <1>4, <1>10, <1>11, <1>12, <1>13, Appended
<1> QED BY <1>2, <1>14 DEF u, c, NextRevision, Placing

\* A change that counts a selection and gives words other weights.
Ranking(r, rows, k, count) ==
  [NoChange EXCEPT !.revision = r, !.ranking = rows, !.selection = Single(k, count)]
RankedTables(t, rows, k, count) ==
  [t EXCEPT !.overlay = Over(rows, None, @), !.selection[k] = count]

LEMMA RankingType ==
  ASSUME NEW r \in Nat, NEW rows \in Partial(Row), NEW k \in Keys, NEW count \in Counts \cup {0}
  PROVE  Ranking(r, rows, k, count) \in Change
<1>1. Single(k, count) \in Partial(Counts \cup {0}) BY SinglePartial
<1> QED BY <1>1, NoChangeType DEF Ranking, Change

LEMMA RankingOnly ==
  ASSUME NEW r, NEW rows, NEW k, NEW count
  PROVE  Ranking(r, rows, k, count).revision = r /\ Ranking(r, rows, k, count).reset = FALSE
BY DEF Ranking, NoChange

LEMMA FollowedRanking ==
  ASSUME NEW t \in Tables, NEW r \in Nat, NEW rows \in Partial(Row), NEW k \in Keys,
         NEW count \in Counts \cup {0}
  PROVE  /\ RankedTables(t, rows, k, count) \in Tables
         /\ RankedTables(t, rows, k, count) = Followed(t, Ranking(r, rows, k, count))
<1> DEFINE c == Ranking(r, rows, k, count)
           u == RankedTables(t, rows, k, count)
<1>1. DOMAIN Single(k, count) = {k} /\ Single(k, count)[k] = count BY DEF Single
<1>2. c \in Change BY RankingType
<1>3. c.reset = FALSE /\ c.selection = Single(k, count) /\ c.ranking = rows
  BY DEF Ranking, NoChange
<1>4. \A x : x \notin c.previous /\ x \notin DOMAIN c.replacement /\ x \notin DOMAIN c.position
  BY NonePartial DEF Ranking, NoChange, None
<1>5. DOMAIN t.overlay = Keys /\ \A x \in Keys : t.overlay[x] \in Row BY DEF Tables
<1>6. \A x \in DOMAIN rows : rows[x] \in Row BY PartialIs
<1>7. Over(rows, None, t.overlay) = [x \in Keys |-> IF x \in DOMAIN rows THEN rows[x] ELSE t.overlay[x]]
  BY <1>5, NonePartial DEF Over
<1>8. u.overlay = Over(rows, None, t.overlay) /\ u.position = t.position
      /\ u.selection = [t.selection EXCEPT ![k] = count]
  BY DEF Tables, RankedTables
<1>9. u \in Tables
  <2>1. Over(rows, None, t.overlay) \in [Keys -> Row] BY <1>5, <1>6, <1>7
  <2>2. [t.selection EXCEPT ![k] = count] \in [Keys -> Counts \cup {0}] BY DEF Tables
  <2> QED BY <2>1, <2>2 DEF Tables, RankedTables
<1>s. \A x \in Keys : u.selection[x] = IF x = k THEN count ELSE t.selection[x]
  BY <1>8 DEF Tables
<1> HIDE DEF c, u
<1>10. ASSUME NEW x \in Keys
       PROVE  /\ Followed(t, c) \in Tables
              /\ u.overlay[x] = Followed(t, c).overlay[x]
              /\ u.position[x] = Followed(t, c).position[x]
              /\ u.selection[x] = Followed(t, c).selection[x]
  <2>1. Followed(t, c) \in Tables BY <1>2, FollowedFacts
  <2>2. Followed(t, c).overlay[x] = IF x \in DOMAIN rows THEN rows[x] ELSE t.overlay[x]
    BY <1>2, <1>3, <1>4, FollowedFacts
  <2>3. {c.position[y] : y \in DOMAIN c.position} = {} BY <1>4
  <2>4. Followed(t, c).position[x] = t.position[x]
    BY <1>2, <1>3, <1>4, <2>3, FollowedFacts
  <2>5. Followed(t, c).selection[x] = IF x = k THEN count ELSE t.selection[x]
    BY <1>1, <1>2, <1>3, FollowedFacts
  <2> QED BY <1>7, <1>8, <1>s, <2>1, <2>2, <2>4, <2>5
<1>11. u = Followed(t, c)
  <2>1. Followed(t, c) \in Tables BY <1>2, FollowedFacts
  <2> QED BY <1>9, <1>10, <2>1, SameTables
<1> QED BY <1>9, <1>11 DEF u, c

\* mutateCandidate: the new weight of a word of the user's own is that of its entry.
RankedRows(weights) ==
  [x \in DOMAIN weights |-> LiveRow(dict.tables.overlay[x].state = "own", weights[x])]
Ranked(k, count, weights) ==
  LET r == NextRevision(dict)
      rows == RankedRows(weights)
  IN  [revision |-> r, entries |-> RankedEntries(weights, r),
       tables |-> RankedTables(dict.tables, rows, k, count),
       log |-> Append(dict.log, Ranking(r, rows, k, count))]

LEMMA RankedOK ==
  ASSUME Good(dict), NEW k \in Keys, NEW count \in Counts \cup {0}, NEW weights \in Partial(Weights)
  PROVE  LET u == Ranked(k, count, weights) IN
         Good(u) /\ Later(dict, u) /\ Personal(u.entries) = Personal(dict.entries)
<1> DEFINE r == dict.revision + 1
           own(x) == dict.tables.overlay[x].state = "own"
           rows == RankedRows(weights)
           c == Ranking(r, rows, k, count)
           u == Ranked(k, count, weights)
<1>1. /\ dict \in Rows /\ EntriesOK(dict) /\ PlacesOK(dict) /\ r \in Nat /\ dict.revision \in Nat
      /\ dict.tables \in Tables /\ dict.entries \in [Keys -> Entry] /\ dict.log \in Seq(Change)
  BY DEF Good, Rows
<1>2. /\ u.revision = r /\ u.log = Append(dict.log, c)
      /\ u.entries = RankedEntries(weights, r)
      /\ u.tables = RankedTables(dict.tables, rows, k, count)
      /\ u = [revision |-> u.revision, entries |-> u.entries, tables |-> u.tables, log |-> u.log]
  BY DEF Ranked, NextRevision
<1>3. DOMAIN weights \subseteq Keys /\ \A x \in DOMAIN weights : weights[x] \in Weights BY PartialIs
<1>4. rows \in Partial(Row) /\ DOMAIN rows = DOMAIN weights
  <2>0. DOMAIN rows = DOMAIN weights /\ rows = [x \in DOMAIN weights |-> LiveRow(own(x), weights[x])]
    BY DEF RankedRows
  <2>1. \A x \in DOMAIN weights : own(x) \in BOOLEAN OBVIOUS
  <2> HIDE DEF own
  <2>2. rows \in [DOMAIN weights -> Row] BY <1>3, <2>0, <2>1, RowTypes
  <2> QED BY <1>3, <2>0, <2>2, PartialHas
<1>5. \A x \in DOMAIN weights : rows[x] = LiveRow(own(x), weights[x]) BY DEF RankedRows
<1>s. \A x \in DOMAIN weights :
        rows[x].state = IF dict.tables.overlay[x].state = "own" THEN "own" ELSE "base"
  BY DEF RankedRows, LiveRow
<1>w. \A x \in DOMAIN weights :
        dict.tables.overlay[x].state = "own" => rows[x] = LiveRow(TRUE, weights[x])
  BY DEF RankedRows, LiveRow
<1> HIDE DEF rows, u
<1>6. c \in Change /\ c.revision = r /\ c.reset = FALSE
  <2>1. c \in Change BY <1>1, <1>4, RankingType
  <2>2. c.revision = r BY DEF Ranking, NoChange
  <2>3. c.reset = FALSE BY RankingOnly
  <2> QED BY <2>1, <2>2, <2>3
<1>7. u.tables \in Tables /\ u.tables = Followed(dict.tables, c)
  BY <1>1, <1>2, <1>4, FollowedRanking
<1>8. /\ u.tables.position = dict.tables.position
      /\ \A x \in Keys : u.tables.overlay[x] = IF x \in DOMAIN weights THEN rows[x]
                                               ELSE dict.tables.overlay[x]
  <2>1. RankedTables(dict.tables, rows, k, count).position = dict.tables.position
    BY <1>1 DEF RankedTables, Tables
  <2>2. RankedTables(dict.tables, rows, k, count).overlay = Over(rows, None, dict.tables.overlay)
    BY <1>1 DEF RankedTables, Tables
  <2>3. DOMAIN dict.tables.overlay = Keys BY <1>1 DEF Tables
  <2>4. \A x : x \notin DOMAIN None BY NonePartial
  <2>5. \A x \in Keys : Over(rows, None, dict.tables.overlay)[x] =
          IF x \in DOMAIN weights THEN rows[x] ELSE dict.tables.overlay[x]
    BY <1>4, <2>3, <2>4 DEF Over
  <2> QED BY <1>2, <2>1, <2>2, <2>5
<1>9. \A x \in Keys : u.entries[x] =
        IF x \in DOMAIN weights /\ dict.entries[x] # NoEntry
        THEN [dict.entries[x] EXCEPT !.weight = weights[x], !.revision = r]
        ELSE dict.entries[x]
  BY <1>2 DEF RankedEntries
<1>10. ASSUME NEW x \in DOMAIN weights, dict.entries[x] # NoEntry
       PROVE  /\ u.entries[x] \in Entry /\ u.entries[x].id = dict.entries[x].id
              /\ u.entries[x].weight = weights[x] /\ u.entries[x].revision = r
              /\ u.entries[x] # NoEntry
  <2>1. dict.entries[x] \in Entry /\ x \in Keys BY <1>1, <1>3
  <2>2. u.entries[x] = [dict.entries[x] EXCEPT !.weight = weights[x], !.revision = r]
    BY <1>9, <1>10, <2>1
  <2>3. /\ u.entries[x] \in Entry /\ u.entries[x].id = dict.entries[x].id
        /\ u.entries[x].weight = weights[x] /\ u.entries[x].revision = r
    BY <1>1, <1>3, <2>1, <2>2 DEF Entry
  <2>4. NoEntry.revision = 0 BY DEF NoEntry
  <2> QED BY <1>1, <2>3, <2>4
<1>11. u.entries \in [Keys -> Entry]
  <2>1. \A x \in Keys : dict.entries[x] \in Entry BY <1>1
  <2>2. \A x \in Keys : u.entries[x] \in Entry BY <1>9, <1>10, <2>1
  <2>3. u.entries = [x \in Keys |-> u.entries[x]] BY <1>2 DEF RankedEntries
  <2> QED BY <2>2, <2>3
<1>12. u \in Rows
  <2>1. Append(dict.log, c) \in Seq(Change) BY <1>1, <1>6
  <2> QED BY <1>1, <1>2, <1>7, <1>11, <2>1 DEF Rows
<1> HIDE DEF c
<1>13. ASSUME NEW x \in Keys PROVE u.entries[x] = NoEntry <=> dict.entries[x] = NoEntry
  BY <1>9, <1>10
<1>14. ASSUME NEW x \in Keys PROVE u.entries[x].id = dict.entries[x].id
  BY <1>9, <1>10
<1>15. EntriesOK(u)
  <2> SUFFICES ASSUME NEW x \in Keys
               PROVE  /\ u.entries[x] = NoEntry => u.tables.overlay[x].state # "own"
                      /\ u.entries[x] # NoEntry =>
                           /\ u.entries[x].id \in 1..r /\ u.entries[x].revision \in 1..r
                           /\ u.tables.overlay[x] = LiveRow(TRUE, u.entries[x].weight)
                           /\ \A l \in Keys : u.entries[l].id = u.entries[x].id => l = x
    BY <1>2 DEF EntriesOK
  <2>1. CASE dict.entries[x] = NoEntry
    <3>1. dict.tables.overlay[x].state # "own" BY <1>1, <2>1 DEF EntriesOK
    <3>2. x \in DOMAIN weights => rows[x].state = "base" BY <1>s, <3>1
    <3>3. u.tables.overlay[x].state # "own" BY <1>8, <3>1, <3>2
    <3>4. u.entries[x] = NoEntry BY <1>13, <2>1
    <3> QED BY <3>3, <3>4
  <2>2. CASE dict.entries[x] # NoEntry
    <3>1. /\ dict.entries[x].id \in 1..r /\ dict.entries[x].revision \in 1..r
          /\ dict.tables.overlay[x] = LiveRow(TRUE, dict.entries[x].weight)
          /\ \A l \in Keys : dict.entries[l].id = dict.entries[x].id => l = x
      BY <1>1, <2>2, EntryKept
    <3>2. \A l \in Keys : u.entries[l].id = u.entries[x].id => l = x BY <1>14, <3>1
    <3>3. CASE x \in DOMAIN weights
      <4>1. dict.tables.overlay[x].state = "own" BY <2>2, FoundPersonal
      <4>2. rows[x] = LiveRow(TRUE, weights[x]) BY <1>w, <3>3, <4>1
      <4>3. u.tables.overlay[x] = LiveRow(TRUE, u.entries[x].weight)
        BY <1>8, <1>10, <2>2, <3>3, <4>2
      <4>4. r \in 1..r BY <1>1
      <4> QED BY <1>10, <1>14, <2>2, <3>1, <3>2, <3>3, <4>3, <4>4
    <3>4. CASE x \notin DOMAIN weights
      <4>1. u.entries[x] = dict.entries[x] /\ u.tables.overlay[x] = dict.tables.overlay[x]
        BY <1>8, <1>9, <3>4
      <4> QED BY <2>2, <3>1, <3>2, <4>1
    <3> QED BY <3>3, <3>4
  <2> QED BY <2>1, <2>2
<1>16. PlacesOK(u) BY <1>1, <1>8 DEF PlacesOK
<1>17. ASSUME NEW x \in Keys
       PROVE  \/ u.entries[x] = dict.entries[x] \/ u.entries[x] = NoEntry
              \/ u.entries[x].revision > dict.revision
  <2>1. CASE x \in DOMAIN weights /\ dict.entries[x] # NoEntry
    <3>1. u.entries[x].revision = r BY <1>10, <2>1
    <3> QED BY <1>1, <3>1
  <2>2. CASE ~(x \in DOMAIN weights /\ dict.entries[x] # NoEntry)
    BY <1>9, <2>2
  <2> QED BY <2>1, <2>2
<1>18. Good(u) /\ Later(dict, u)
  BY <1>1, <1>2, <1>6, <1>7, <1>12, <1>15, <1>16, <1>17, Appended
<1>19. Personal(u.entries) = Personal(dict.entries) BY <1>13 DEF Personal
<1> QED BY <1>18, <1>19 DEF u

----------------------------------------------------------------------------
(* A restore: one change that resets, then one change for every row of the *)
(* file.                                                                   *)

\* A finite set as a sequence.
LEMMA Listing ==
  ASSUME NEW S, IsFiniteSet(S)
  PROVE  /\ SetToSeq(S) \in Seq(S)
         /\ \A x \in S : \E i \in DOMAIN SetToSeq(S) : SetToSeq(S)[i] = x
<1> DEFINE n == Cardinality(S)
           s == SetToSeq(S)
<1>1. n \in Nat /\ ExistsBijection(1..n, S) BY FS_CardinalityType
<1>2. PICK b \in Bijection(1..n, S) : TRUE BY <1>1 DEF ExistsBijection
<1>3. b \in [1..n -> S] /\ IsInjective(b) BY <1>2 DEF Bijection, Injection, IsInjective
<1>4. s \in [1..n -> S] /\ IsInjective(s) BY <1>3 DEF SetToSeq
<1> HIDE DEF s, n
<1>5. s \in Injection(1..n, S) BY <1>4 DEF Injection, IsInjective
<1>6. IsFiniteSet(1..n) /\ Cardinality(1..n) = n
  <2>1. n \in Int /\ n >= 0 BY <1>1
  <2>2. 1 \in Int OBVIOUS
  <2> QED BY <2>1, <2>2, FS_Interval
<1>7. s \in Surjection(1..n, S) BY <1>5, <1>6, FS_Injection DEF n
<1>8. s \in Seq(S) BY <1>1, <1>4
<1>9. \A x \in S : \E i \in DOMAIN s : s[i] = x BY <1>4, <1>7 DEF Surjection
<1> QED BY <1>8, <1>9 DEF s

\* A change that tells of rows of the file f, one word's row at most.
Tells(f, c) ==
  /\ c \in Change /\ c.reset = FALSE /\ DOMAIN c.ranking = {}
  /\ \A k \in DOMAIN c.replacement : c.replacement[k] = f.tables.overlay[k]
  /\ \A k \in c.previous : f.tables.overlay[k] = Tombstone
  /\ \A k \in DOMAIN c.position :
       c.position[k] = f.tables.position[k] /\ f.tables.position[k] > 0
  /\ \A k \in DOMAIN c.selection : c.selection[k] = f.tables.selection[k]
  /\ \A k, l \in DOMAIN c.replacement : k = l

Names(c, k) == k \in c.previous \/ k \in DOMAIN c.replacement

\* Changes that between them tell of every row of the file.
TellAll(f, s) ==
  \A k \in Keys :
    /\ f.tables.overlay[k] # Absent => \E i \in DOMAIN s : Names(s[i], k)
    /\ f.entries[k] # NoEntry => \E i \in DOMAIN s : k \in DOMAIN s[i].replacement
    /\ f.tables.position[k] > 0 => \E i \in DOMAIN s : k \in DOMAIN s[i].position
    /\ f.tables.selection[k] > 0 => \E i \in DOMAIN s : k \in DOMAIN s[i].selection

RowRecord(f, k) ==
  IF f.tables.overlay[k] = Tombstone THEN [NoChange EXCEPT !.previous = {k}]
  ELSE [NoChange EXCEPT !.replacement = Single(k, f.tables.overlay[k])]
PlaceRecord(f, k) == [NoChange EXCEPT !.position = Single(k, f.tables.position[k])]
CountRecord(f, k) == [NoChange EXCEPT !.selection = Single(k, f.tables.selection[k])]

LEMMA RowRecordTells ==
  ASSUME NEW f \in Files, NEW k \in Keys
  PROVE  Tells(f, RowRecord(f, k)) /\ Names(RowRecord(f, k), k)
<1> DEFINE c == RowRecord(f, k)
           v == f.tables.overlay[k]
<1>1. v \in Row BY DEF Files, Tables
<1>2. Single(k, v) \in Partial(Row) /\ DOMAIN Single(k, v) = {k} /\ Single(k, v)[k] = v
  BY <1>1, SinglePartial
<1>3. DOMAIN None = {} BY NonePartial
<1>4. CASE v = Tombstone
  <2>1. c = [NoChange EXCEPT !.previous = {k}] BY <1>4 DEF RowRecord
  <2>2. c \in Change BY <2>1, NoChangeType DEF Change
  <2>3. c.reset = FALSE /\ c.previous = {k} BY <2>1 DEF NoChange
  <2>4. c.ranking = None /\ c.replacement = None /\ c.position = None /\ c.selection = None
    BY <2>1 DEF NoChange, None
  <2>5. DOMAIN c.ranking = {} /\ DOMAIN c.replacement = {} /\ DOMAIN c.position = {}
        /\ DOMAIN c.selection = {}
    BY <1>3, <2>4
  <2> HIDE DEF c
  <2> QED BY <1>4, <2>2, <2>3, <2>5 DEF Tells, Names, c
<1>5. CASE v # Tombstone
  <2>1. c = [NoChange EXCEPT !.replacement = Single(k, v)] BY <1>5 DEF RowRecord
  <2>2. c \in Change BY <1>2, <2>1, NoChangeType DEF Change
  <2>3. c.reset = FALSE /\ c.replacement = Single(k, v) /\ c.previous = {} BY <2>1 DEF NoChange
  <2>4. c.ranking = None /\ c.position = None /\ c.selection = None
    BY <2>1 DEF NoChange, None
  <2>5. DOMAIN c.ranking = {} /\ DOMAIN c.position = {} /\ DOMAIN c.selection = {}
    BY <1>3, <2>4
  <2> HIDE DEF c
  <2> QED BY <1>2, <2>2, <2>3, <2>5 DEF Tells, Names, c
<1> QED BY <1>4, <1>5

LEMMA PlaceRecordTells ==
  ASSUME NEW f \in Files, NEW k \in Keys, f.tables.position[k] > 0
  PROVE  Tells(f, PlaceRecord(f, k)) /\ k \in DOMAIN PlaceRecord(f, k).position
<1> DEFINE c == PlaceRecord(f, k)
           v == f.tables.position[k]
<1>1. v \in Positions \cup {0} BY DEF Files, Tables
<1>2. Single(k, v) \in Partial(Positions \cup {0})
      /\ DOMAIN Single(k, v) = {k} /\ Single(k, v)[k] = v
  <2> DEFINE V == Positions \cup {0}
  <2> HIDE DEF V, v
  <2>1. v \in V BY <1>1 DEF V
  <2>2. Single(k, v) \in Partial(V) /\ DOMAIN Single(k, v) = {k} /\ Single(k, v)[k] = v
    BY <2>1, SinglePartial
  <2> QED BY <2>2 DEF V
<1>3. DOMAIN None = {} BY NonePartial
<1>4. c \in Change BY <1>2, NoChangeType DEF Change, PlaceRecord
<1>5. c.reset = FALSE /\ c.position = Single(k, v) /\ c.previous = {}
  BY DEF NoChange, PlaceRecord
<1>6. c.ranking = None /\ c.replacement = None /\ c.selection = None
  BY DEF NoChange, None, PlaceRecord
<1>7. DOMAIN c.ranking = {} /\ DOMAIN c.replacement = {} /\ DOMAIN c.selection = {}
  BY <1>3, <1>6
<1> HIDE DEF c
<1> QED BY <1>2, <1>4, <1>5, <1>7 DEF Tells, c

LEMMA CountRecordTells ==
  ASSUME NEW f \in Files, NEW k \in Keys
  PROVE  Tells(f, CountRecord(f, k)) /\ k \in DOMAIN CountRecord(f, k).selection
<1> DEFINE c == CountRecord(f, k)
           v == f.tables.selection[k]
<1>1. v \in Counts \cup {0} BY DEF Files, Tables
<1>2. Single(k, v) \in Partial(Counts \cup {0})
      /\ DOMAIN Single(k, v) = {k} /\ Single(k, v)[k] = v
  <2> DEFINE V == Counts \cup {0}
  <2> HIDE DEF V, v
  <2>1. v \in V BY <1>1 DEF V
  <2>2. Single(k, v) \in Partial(V) /\ DOMAIN Single(k, v) = {k} /\ Single(k, v)[k] = v
    BY <2>1, SinglePartial
  <2> QED BY <2>2 DEF V
<1>3. DOMAIN None = {} BY NonePartial
<1>4. c \in Change BY <1>2, NoChangeType DEF Change, CountRecord
<1>5. c.reset = FALSE /\ c.selection = Single(k, v) /\ c.previous = {}
  BY DEF NoChange, CountRecord
<1>6. c.ranking = None /\ c.replacement = None /\ c.position = None
  BY DEF NoChange, None, CountRecord
<1>7. DOMAIN c.ranking = {} /\ DOMAIN c.replacement = {} /\ DOMAIN c.position = {}
  BY <1>3, <1>6
<1> HIDE DEF c
<1> QED BY <1>2, <1>4, <1>5, <1>7 DEF Tells, c

\* Three sequences one after the other have the elements of the three.
LEMMA Joined ==
  ASSUME NEW V, NEW a \in Seq(V), NEW b \in Seq(V), NEW c \in Seq(V)
  PROVE  /\ a \o b \o c \in Seq(V)
         /\ Range(a \o b \o c) = Range(a) \cup Range(b) \cup Range(c)
<1> DEFINE s == a \o b \o c
           m == Len(a)
           n == Len(b)
           o == Len(c)
<1>1. /\ s \in Seq(V) /\ DOMAIN s = 1..m + n + o
      /\ m \in Nat /\ n \in Nat /\ o \in Nat
      /\ DOMAIN a = 1..m /\ DOMAIN b = 1..n /\ DOMAIN c = 1..o
  OBVIOUS
<1>2. \A i \in 1..m : s[i] = a[i] OBVIOUS
<1>3. \A i \in m + 1..m + n : s[i] = b[i - m] OBVIOUS
<1>4. \A i \in m + n + 1..m + n + o : s[i] = c[i - m - n] OBVIOUS
<1> HIDE DEF s, m, n, o
<1>5. ASSUME NEW i \in DOMAIN s
      PROVE  \/ \E j \in DOMAIN a : s[i] = a[j]
             \/ \E j \in DOMAIN b : s[i] = b[j]
             \/ \E j \in DOMAIN c : s[i] = c[j]
  <2>1. CASE i \in 1..m BY <1>1, <1>2, <2>1
  <2>2. CASE i \in m + 1..m + n
    <3>1. i - m \in 1..n BY <1>1, <2>2
    <3> QED BY <1>1, <1>3, <2>2, <3>1
  <2>3. CASE i \in m + n + 1..m + n + o
    <3>1. i - m - n \in 1..o BY <1>1, <2>3
    <3> QED BY <1>1, <1>4, <2>3, <3>1
  <2>4. i \in 1..m \/ i \in m + 1..m + n \/ i \in m + n + 1..m + n + o BY <1>1
  <2> QED BY <2>1, <2>2, <2>3, <2>4
<1>6. \A j \in DOMAIN a : \E i \in DOMAIN s : s[i] = a[j]
  <2>1. \A j \in 1..m : j \in DOMAIN s BY <1>1
  <2> QED BY <1>1, <1>2, <2>1
<1>7. ASSUME NEW j \in DOMAIN b PROVE \E i \in DOMAIN s : s[i] = b[j]
  <2>1. m + j \in DOMAIN s /\ m + j \in m + 1..m + n /\ (m + j) - m = j BY <1>1
  <2> QED BY <1>3, <2>1
<1>8. ASSUME NEW j \in DOMAIN c PROVE \E i \in DOMAIN s : s[i] = c[j]
  <2>1. m + n + j \in DOMAIN s /\ m + n + j \in m + n + 1..m + n + o /\ (m + n + j) - m - n = j
    BY <1>1
  <2> QED BY <1>4, <2>1
<1>9. Range(s) \subseteq Range(a) \cup Range(b) \cup Range(c) BY <1>5 DEF Range
<1>10. Range(a) \subseteq Range(s) BY <1>6 DEF Range
<1>11. Range(b) \subseteq Range(s) BY <1>7 DEF Range
<1>12. Range(c) \subseteq Range(s) BY <1>8 DEF Range
<1>13. Range(s) = Range(a) \cup Range(b) \cup Range(c) BY <1>9, <1>10, <1>11, <1>12
<1> QED BY <1>1, <1>13 DEF s

\* The records of a file that can be restored tell of all its rows.
LEMMA RecordsTell ==
  ASSUME NEW f \in Files, Restorable(f)
  PROVE  /\ Records(f) \in Seq(Change)
         /\ \A i \in DOMAIN Records(f) : Tells(f, Records(f)[i])
         /\ TellAll(f, Records(f))
<1> DEFINE R == {k \in Keys : f.tables.overlay[k] # Absent}
           P == {k \in Keys : f.tables.position[k] > 0}
           C == {k \in Keys : f.tables.selection[k] > 0}
           rows == SetToSeq(R)
           places == SetToSeq(P)
           counts == SetToSeq(C)
           a == [i \in DOMAIN rows |-> RowRecord(f, rows[i])]
           b == [i \in DOMAIN places |-> PlaceRecord(f, places[i])]
           c == [i \in DOMAIN counts |-> CountRecord(f, counts[i])]
<1>1. Records(f) = a \o b \o c BY DEF Records, RowRecord, PlaceRecord, CountRecord
<1>2. IsFiniteSet(R) /\ IsFiniteSet(P) /\ IsFiniteSet(C)
  <2>1. IsFiniteSet(Keys) BY DictionaryAssumption
  <2>2. R \in SUBSET Keys /\ P \in SUBSET Keys /\ C \in SUBSET Keys OBVIOUS
  <2> QED BY <2>1, <2>2, FS_Subset
<1>3. rows \in Seq(R) /\ \A k \in R : \E i \in DOMAIN rows : rows[i] = k BY <1>2, Listing
<1>4. places \in Seq(P) /\ \A k \in P : \E i \in DOMAIN places : places[i] = k BY <1>2, Listing
<1>5. counts \in Seq(C) /\ \A k \in C : \E i \in DOMAIN counts : counts[i] = k BY <1>2, Listing
<1>6. \A k \in R : k \in Keys /\ f.tables.overlay[k] # Absent OBVIOUS
<1>7. \A k \in P : k \in Keys /\ f.tables.position[k] > 0 OBVIOUS
<1>8. \A k \in C : k \in Keys OBVIOUS
<1>9. \A k \in Keys : /\ f.tables.overlay[k] # Absent => k \in R
                      /\ f.tables.position[k] > 0 => k \in P
                      /\ f.tables.selection[k] > 0 => k \in C
  OBVIOUS
<1> HIDE DEF R, P, C, rows, places, counts
<1>10. a \in Seq(Change) /\ \A i \in DOMAIN a : Tells(f, a[i])
  <2>1. \A i \in DOMAIN rows : rows[i] \in R BY <1>3
  <2>2. \A i \in DOMAIN rows : Tells(f, RowRecord(f, rows[i])) BY <1>6, <2>1, RowRecordTells
  <2>3. \A i \in DOMAIN rows : RowRecord(f, rows[i]) \in Change BY <2>2 DEF Tells
  <2>4. a \in Seq(Change) BY <1>3, <2>3
  <2> QED BY <2>2, <2>4
<1>11. b \in Seq(Change) /\ \A i \in DOMAIN b : Tells(f, b[i])
  <2>1. \A i \in DOMAIN places : places[i] \in P BY <1>4
  <2>2. \A i \in DOMAIN places : Tells(f, PlaceRecord(f, places[i]))
    BY <1>7, <2>1, PlaceRecordTells
  <2>3. \A i \in DOMAIN places : PlaceRecord(f, places[i]) \in Change BY <2>2 DEF Tells
  <2>4. b \in Seq(Change) BY <1>4, <2>3
  <2> QED BY <2>2, <2>4
<1>12. c \in Seq(Change) /\ \A i \in DOMAIN c : Tells(f, c[i])
  <2>1. \A i \in DOMAIN counts : counts[i] \in C BY <1>5
  <2>2. \A i \in DOMAIN counts : Tells(f, CountRecord(f, counts[i]))
    BY <1>8, <2>1, CountRecordTells
  <2>3. \A i \in DOMAIN counts : CountRecord(f, counts[i]) \in Change BY <2>2 DEF Tells
  <2>4. c \in Seq(Change) BY <1>5, <2>3
  <2> QED BY <2>2, <2>4
<1> DEFINE s == Records(f)
<1>13. s \in Seq(Change) /\ Range(s) = Range(a) \cup Range(b) \cup Range(c)
  <2> HIDE DEF a, b, c
  <2>1. a \in Seq(Change) /\ b \in Seq(Change) /\ c \in Seq(Change) BY <1>10, <1>11, <1>12
  <2> QED BY <1>1, <2>1, Joined
<1>14. \A i \in DOMAIN s : Tells(f, s[i])
  <2> HIDE DEF a, b, c, s
  <2> SUFFICES ASSUME NEW i \in DOMAIN s PROVE Tells(f, s[i]) OBVIOUS
  <2>1. s[i] \in Range(a) \cup Range(b) \cup Range(c) BY <1>13 DEF Range
  <2> QED BY <1>10, <1>11, <1>12, <2>1 DEF Range
<1>15. ASSUME NEW k \in Keys, f.tables.overlay[k] # Absent
       PROVE  \E i \in DOMAIN s : s[i] = RowRecord(f, k)
  <2>1. PICK j \in DOMAIN rows : rows[j] = k BY <1>3, <1>9, <1>15
  <2>2. j \in DOMAIN a /\ a[j] = RowRecord(f, k) BY <2>1
  <2> HIDE DEF a, b, c, s
  <2>3. RowRecord(f, k) \in Range(s) BY <1>13, <2>2 DEF Range
  <2> QED BY <2>3 DEF Range
<1>16. ASSUME NEW k \in Keys, f.tables.position[k] > 0
       PROVE  \E i \in DOMAIN s : s[i] = PlaceRecord(f, k)
  <2>1. PICK j \in DOMAIN places : places[j] = k BY <1>4, <1>9, <1>16
  <2>2. j \in DOMAIN b /\ b[j] = PlaceRecord(f, k) BY <2>1
  <2> HIDE DEF a, b, c, s
  <2>3. PlaceRecord(f, k) \in Range(s) BY <1>13, <2>2 DEF Range
  <2> QED BY <2>3 DEF Range
<1>17. ASSUME NEW k \in Keys, f.tables.selection[k] > 0
       PROVE  \E i \in DOMAIN s : s[i] = CountRecord(f, k)
  <2>1. PICK j \in DOMAIN counts : counts[j] = k BY <1>5, <1>9, <1>17
  <2>2. j \in DOMAIN c /\ c[j] = CountRecord(f, k) BY <2>1
  <2> HIDE DEF a, b, c, s
  <2>3. CountRecord(f, k) \in Range(s) BY <1>13, <2>2 DEF Range
  <2> QED BY <2>3 DEF Range
<1> HIDE DEF a, b, c, s
<1>18. ASSUME NEW k \in Keys, f.entries[k] # NoEntry
       PROVE  \E i \in DOMAIN s : k \in DOMAIN s[i].replacement
  <2>1. f.tables.overlay[k] = LiveRow(TRUE, f.entries[k].weight) BY <1>18 DEF Restorable
  <2>2. f.tables.overlay[k].state = "own" BY <2>1 DEF LiveRow
  <2>3. f.tables.overlay[k] # Absent /\ f.tables.overlay[k] # Tombstone
    BY <2>2 DEF Absent, Tombstone
  <2>4. PICK i \in DOMAIN s : s[i] = RowRecord(f, k) BY <1>15, <2>3
  <2>5. RowRecord(f, k).replacement = Single(k, f.tables.overlay[k])
    BY <2>3 DEF RowRecord, NoChange
  <2> QED BY <2>4, <2>5 DEF Single
<1>19. ASSUME NEW k \in Keys
       PROVE  /\ f.tables.overlay[k] # Absent =>
                   \E i \in DOMAIN s : Names(s[i], k)
              /\ f.tables.position[k] > 0 =>
                   \E i \in DOMAIN s : k \in DOMAIN s[i].position
              /\ f.tables.selection[k] > 0 =>
                   \E i \in DOMAIN s : k \in DOMAIN s[i].selection
  <2>1. Names(RowRecord(f, k), k) BY RowRecordTells
  <2>2. f.tables.position[k] > 0 => k \in DOMAIN PlaceRecord(f, k).position
    BY PlaceRecordTells
  <2>3. k \in DOMAIN CountRecord(f, k).selection BY CountRecordTells
  <2>4. f.tables.overlay[k] # Absent =>
          \E i \in DOMAIN s : Names(s[i], k)
    BY <1>15, <2>1
  <2>5. f.tables.position[k] > 0 =>
          \E i \in DOMAIN s : k \in DOMAIN s[i].position
    BY <1>16, <2>2
  <2>6. f.tables.selection[k] > 0 =>
          \E i \in DOMAIN s : k \in DOMAIN s[i].selection
    BY <1>17, <2>3
  <2> QED BY <2>4, <2>5, <2>6
<1>20. TellAll(f, s) BY <1>18, <1>19 DEF TellAll
<1> QED BY <1>13, <1>14, <1>20 DEF s

\* The tables after the first j of the changes s, on blank ones.
Part(f, s, j) ==
  [overlay |-> [k \in Keys |-> IF \E i \in 1..j : Names(s[i], k)
                               THEN f.tables.overlay[k] ELSE Absent],
   position |-> [k \in Keys |-> IF \E i \in 1..j : k \in DOMAIN s[i].position
                                THEN f.tables.position[k] ELSE 0],
   selection |-> [k \in Keys |-> IF \E i \in 1..j : k \in DOMAIN s[i].selection
                                 THEN f.tables.selection[k] ELSE 0]]

LEMMA PartType ==
  ASSUME NEW f \in Files, NEW s, NEW j
  PROVE  Part(f, s, j) \in Tables
<1>1. \A k \in Keys : /\ f.tables.overlay[k] \in Row
                      /\ f.tables.position[k] \in Positions \cup {0}
                      /\ f.tables.selection[k] \in Counts \cup {0}
  BY DEF Files, Tables
<1> QED BY <1>1, RowTypes DEF Part, Tables

LEMMA PartFirst ==
  ASSUME NEW f, NEW s
  PROVE  Part(f, s, 0) = Blank
BY DEF Part, Blank

LEMMA PartLast ==
  ASSUME NEW f \in Files, NEW s \in Seq(Change), TellAll(f, s)
  PROVE  Part(f, s, Len(s)) = f.tables
<1> DEFINE p == Part(f, s, Len(s))
<1>1. p \in Tables /\ f.tables \in Tables BY PartType DEF Files
<1>2. DOMAIN s = 1..Len(s) OBVIOUS
<1>3. ASSUME NEW k \in Keys
      PROVE  /\ p.overlay[k] = f.tables.overlay[k] /\ p.position[k] = f.tables.position[k]
             /\ p.selection[k] = f.tables.selection[k]
  <2>1. p.overlay[k] = f.tables.overlay[k] BY <1>2 DEF Part, TellAll
  <2>2. f.tables.position[k] \in Positions \cup {0} /\ f.tables.selection[k] \in Counts \cup {0}
    BY DEF Files, Tables
  <2>3. /\ f.tables.position[k] = 0 \/ f.tables.position[k] > 0
        /\ f.tables.selection[k] = 0 \/ f.tables.selection[k] > 0
    <3>1. \A v : v \in Nat \ {0} => v > 0 OBVIOUS
    <3>2. Positions \subseteq Nat \ {0} /\ Counts \subseteq Nat \ {0} BY DictionaryAssumption
    <3>3. f.tables.position[k] = 0 \/ f.tables.position[k] > 0 BY <2>2, <3>1, <3>2
    <3>4. f.tables.selection[k] = 0 \/ f.tables.selection[k] > 0 BY <2>2, <3>1, <3>2
    <3> QED BY <3>3, <3>4
  <2>4. p.position[k] = f.tables.position[k] BY <1>2, <2>3 DEF Part, TellAll
  <2>5. p.selection[k] = f.tables.selection[k] BY <1>2, <2>3 DEF Part, TellAll
  <2> QED BY <2>1, <2>4, <2>5
<1> QED BY <1>1, <1>3, SameTables

LEMMA PartStep ==
  ASSUME NEW f \in Files, Restorable(f), NEW s, NEW n \in Nat, NEW j \in 1..n, Tells(f, s[j])
  PROVE  Part(f, s, j) = Followed(Part(f, s, j - 1), s[j])
<1> DEFINE c == s[j]
           p == Part(f, s, j - 1)
           q == Part(f, s, j)
<1>1. p \in Tables /\ q \in Tables BY PartType
<1>2. c \in Change /\ c.reset = FALSE BY DEF Tells
<1>3. Followed(p, c) \in Tables BY <1>1, <1>2, FollowedFacts
<1>4. ASSUME NEW i PROVE i \in 1..j <=> i \in 1..j - 1 \/ i = j OBVIOUS
<1>5. ASSUME NEW k \in Keys
      PROVE  /\ q.overlay[k] = Followed(p, c).overlay[k]
             /\ q.position[k] = Followed(p, c).position[k]
             /\ q.selection[k] = Followed(p, c).selection[k]
  <2>1. Followed(p, c).overlay[k] =
          IF k \in DOMAIN c.replacement THEN c.replacement[k]
          ELSE IF k \in c.previous THEN Tombstone ELSE p.overlay[k]
    <3>1. k \notin DOMAIN c.ranking BY DEF Tells
    <3> HIDE DEF c, p
    <3> QED BY <1>1, <1>2, <3>1, FollowedFacts
  <2>2. Followed(p, c).position[k] =
          IF k \in DOMAIN c.position THEN c.position[k]
          ELSE IF p.position[k] \in {c.position[x] : x \in DOMAIN c.position} THEN 0
          ELSE p.position[k]
    <3> HIDE DEF c, p
    <3> QED BY <1>1, <1>2, FollowedFacts
  <2>3. Followed(p, c).selection[k] =
          IF k \in DOMAIN c.selection THEN c.selection[k] ELSE p.selection[k]
    <3> HIDE DEF c, p
    <3> QED BY <1>1, <1>2, FollowedFacts
  <2>4. q.overlay[k] = IF Names(c, k) THEN f.tables.overlay[k] ELSE p.overlay[k]
    <3>1. (\E i \in 1..j : Names(s[i], k)) <=> Names(c, k) \/ \E i \in 1..j - 1 : Names(s[i], k)
      BY <1>4
    <3> QED BY <3>1 DEF Part
  <2>5. q.position[k] = IF k \in DOMAIN c.position THEN f.tables.position[k] ELSE p.position[k]
    <3>1. (\E i \in 1..j : k \in DOMAIN s[i].position)
            <=> k \in DOMAIN c.position \/ \E i \in 1..j - 1 : k \in DOMAIN s[i].position
      BY <1>4
    <3> QED BY <3>1 DEF Part
  <2>6. q.selection[k] = IF k \in DOMAIN c.selection THEN f.tables.selection[k]
                         ELSE p.selection[k]
    <3>1. (\E i \in 1..j : k \in DOMAIN s[i].selection)
            <=> k \in DOMAIN c.selection \/ \E i \in 1..j - 1 : k \in DOMAIN s[i].selection
      BY <1>4
    <3> QED BY <3>1 DEF Part
  <2>7. q.overlay[k] = Followed(p, c).overlay[k]
    <3>1. k \in DOMAIN c.replacement => c.replacement[k] = f.tables.overlay[k] BY DEF Tells
    <3>2. k \in c.previous => f.tables.overlay[k] = Tombstone BY DEF Tells
    <3> HIDE DEF c, p, q
    <3> QED BY <2>1, <2>4, <3>1, <3>2 DEF Names
  <2>8. q.position[k] = Followed(p, c).position[k]
    <3>1. \A x \in DOMAIN c.position :
            x \in Keys /\ c.position[x] = f.tables.position[x] /\ f.tables.position[x] > 0
      <4>1. c.position \in Partial(Positions \cup {0}) BY <1>2 DEF Change
      <4>2. DOMAIN c.position \subseteq Keys BY <4>1, PartialIs
      <4> QED BY <4>2 DEF Tells
    <3>2. p.position[k] = f.tables.position[k] \/ p.position[k] = 0 BY DEF Part
    <3>3. \A x \in Keys : f.tables.position[x] = f.tables.position[k] /\ f.tables.position[x] > 0
                            => x = k
      BY DEF Restorable
    <3>4. k \notin DOMAIN c.position =>
            p.position[k] \notin {c.position[x] : x \in DOMAIN c.position}
      <4> HIDE DEF c, p
      <4> SUFFICES ASSUME NEW x \in DOMAIN c.position, p.position[k] = c.position[x],
                          k \notin DOMAIN c.position
                   PROVE  FALSE
        OBVIOUS
      <4>1. c.position[x] = f.tables.position[x] /\ f.tables.position[x] > 0 /\ x \in Keys
        BY <3>1
      <4>2. p.position[k] # 0 BY <4>1
      <4>3. f.tables.position[x] = f.tables.position[k] BY <3>2, <4>1, <4>2
      <4> QED BY <3>3, <4>1, <4>3
    <3> HIDE DEF c, p, q
    <3> QED BY <2>2, <2>5, <3>1, <3>4
  <2>9. q.selection[k] = Followed(p, c).selection[k]
    <3>1. k \in DOMAIN c.selection => c.selection[k] = f.tables.selection[k] BY DEF Tells
    <3> HIDE DEF c, p, q
    <3> QED BY <2>3, <2>6, <3>1
  <2> QED BY <2>7, <2>8, <2>9
<1> HIDE DEF c, p, q
<1>6. q = Followed(p, c) BY <1>1, <1>3, <1>5, SameTables
<1> QED BY <1>6 DEF c, p, q

LEMMA RevisedTells ==
  ASSUME NEW f, NEW c, Tells(f, c), NEW r \in Nat
  PROVE  LET d == [c EXCEPT !.revision = r] IN
         /\ Tells(f, d) /\ d.revision = r
         /\ d.replacement = c.replacement /\ d.previous = c.previous
         /\ d.position = c.position /\ d.selection = c.selection
<1> DEFINE d == [c EXCEPT !.revision = r]
<1>1. c \in Change BY DEF Tells
<1>2. d \in Change /\ d.revision = r /\ d.reset = c.reset BY <1>1 DEF Change
<1>3. d.replacement = c.replacement /\ d.previous = c.previous /\ d.ranking = c.ranking
  BY <1>1 DEF Change
<1>4. d.position = c.position /\ d.selection = c.selection BY <1>1 DEF Change
<1> HIDE DEF d
<1>5. Tells(f, d) BY <1>2, <1>3, <1>4 DEF Tells
<1> QED BY <1>2, <1>3, <1>4, <1>5 DEF d

\* The change that a restore begins with.
Reset(r) == [NoChange EXCEPT !.revision = r, !.reset = TRUE]

LEMMA ResetFacts ==
  ASSUME NEW r \in Nat
  PROVE  /\ Reset(r) \in Change /\ Reset(r).revision = r
         /\ Reset(r).previous = {} /\ DOMAIN Reset(r).replacement = {}
         /\ DOMAIN Reset(r).ranking = {}
         /\ \A t \in Tables : Followed(t, Reset(r)) = Blank
<1> DEFINE c == Reset(r)
<1>1. c \in Change BY NoChangeType DEF Reset, Change
<1>2. c.revision = r /\ c.reset = TRUE /\ c.previous = {} BY DEF Reset, NoChange
<1>3. c.replacement = None /\ c.ranking = None BY DEF Reset, NoChange, None
<1>4. c.position = None /\ c.selection = None BY DEF Reset, NoChange, None
<1>5. \A x : x \notin DOMAIN None BY NonePartial
<1>6. DOMAIN None = {} BY NonePartial
<1> HIDE DEF c
<1>7. ASSUME NEW t \in Tables PROVE Followed(t, c) = Blank
  <2>1. Followed(t, c) \in Tables /\ Blank \in Tables BY <1>1, FollowedFacts, RowTypes
  <2>2. ASSUME NEW k \in Keys
        PROVE  /\ Followed(t, c).overlay[k] = Blank.overlay[k]
               /\ Followed(t, c).position[k] = Blank.position[k]
               /\ Followed(t, c).selection[k] = Blank.selection[k]
    <3>1. Followed(t, c).overlay[k] = Absent BY <1>1, <1>2, <1>3, <1>5, FollowedFacts
    <3>2. Followed(t, c).position[k] = 0 BY <1>1, <1>2, <1>4, <1>5, FollowedFacts
    <3>3. Followed(t, c).selection[k] = 0 BY <1>1, <1>2, <1>4, <1>5, FollowedFacts
    <3> QED BY <3>1, <3>2, <3>3 DEF Blank
  <2> QED BY <2>1, <2>2, SameTables
<1> QED BY <1>1, <1>2, <1>3, <1>6, <1>7 DEF c

LEMMA LongSequence ==
  ASSUME NEW V, NEW a \in Seq(V), NEW x \in V, NEW b \in Seq(V)
  PROVE  LET s == Append(a, x) \o b IN
         /\ s \in Seq(V) /\ Len(s) = Len(a) + 1 + Len(b)
         /\ \A i \in 1..Len(a) : s[i] = a[i]
         /\ s[Len(a) + 1] = x
         /\ \A i \in 1..Len(b) : s[Len(a) + 1 + i] = b[i]
<1> DEFINE c == Append(a, x)
           s == c \o b
<1>1. c \in Seq(V) /\ Len(c) = Len(a) + 1 /\ Len(a) \in Nat /\ Len(b) \in Nat OBVIOUS
<1>2. c[Len(a) + 1] = x /\ \A i \in 1..Len(a) : c[i] = a[i] OBVIOUS
<1> HIDE DEF c
<1>3. s \in Seq(V) /\ Len(s) = Len(a) + 1 + Len(b) BY <1>1
<1>4. \A i \in 1..Len(a) + 1 : s[i] = c[i] BY <1>1
<1>5. \A i \in 1..Len(b) : s[Len(a) + 1 + i] = b[i]
  <2> SUFFICES ASSUME NEW i \in 1..Len(b) PROVE s[Len(a) + 1 + i] = b[i] OBVIOUS
  <2>1. Len(c) + i \in Len(c) + 1..Len(c) + Len(b) /\ (Len(c) + i) - Len(c) = i BY <1>1
  <2>2. s[Len(c) + i] = b[i] BY <1>1, <2>1
  <2> QED BY <1>1, <2>2
<1>6. \A i \in 1..Len(a) : i \in 1..Len(a) + 1 BY <1>1
<1>7. Len(a) + 1 \in 1..Len(a) + 1 BY <1>1
<1> HIDE DEF s
<1> QED BY <1>2, <1>3, <1>4, <1>5, <1>6, <1>7 DEF s, c

\* RestoreDictionarySnapshot.
LEMMA RestoredOK ==
  ASSUME Good(dict), NEW f \in Files, Restorable(f)
  PROVE  LET u == Restored(f) IN
         Good(u) /\ Later(dict, u) /\ Personal(u.entries) = Personal(f.entries)
<1> DEFINE u == Restored(f)
           n == Len(dict.log)
           s == Records(f)
           N == Len(s)
           reset == dict.revision + 1
           first == reset + 1 + Cardinality(Personal(f.entries))
           w == [i \in DOMAIN s |-> [s[i] EXCEPT !.revision = first + i]]
           row(k) == CHOOSE i \in DOMAIN s : k \in DOMAIN s[i].replacement
<1>1. /\ dict \in Rows /\ LogOK(dict) /\ dict.revision \in Nat
      /\ dict.tables \in Tables /\ dict.log \in Seq(Change) /\ Follows(dict, Fresh)
  BY DEF Good, Rows
<1>2. f.entries \in [Keys -> Entry] /\ f.tables \in Tables BY DEF Files
<1>3. first \in Nat /\ first > reset
  <2>1. Personal(f.entries) \in SUBSET Keys BY DEF Personal
  <2>2. IsFiniteSet(Personal(f.entries)) BY <2>1, DictionaryAssumption, FS_Subset
  <2>3. Cardinality(Personal(f.entries)) \in Nat BY <2>2, FS_CardinalityType
  <2> QED BY <1>1, <2>3
<1>4. /\ u.revision = first + N /\ u.tables = f.tables
      /\ u.log = Append(dict.log, Reset(reset)) \o w
      /\ u.entries = [k \in Keys |->
           IF f.entries[k] = NoEntry THEN NoEntry
           ELSE [id |-> first + row(k), weight |-> f.entries[k].weight,
                 revision |-> first + row(k)]]
      /\ u = [revision |-> u.revision, entries |-> u.entries, tables |-> u.tables, log |-> u.log]
  BY DEF Restored, Reset
<1> HIDE DEF u
<1>5. s \in Seq(Change) /\ N \in Nat /\ DOMAIN s = 1..N /\ n \in Nat
  BY <1>1, RecordsTell
<1>6. (\A i \in DOMAIN s : Tells(f, s[i])) /\ TellAll(f, s) BY RecordsTell
<1> HIDE DEF s
<1>7. /\ DOMAIN w = 1..N
      /\ \A i \in 1..N : /\ Tells(f, w[i]) /\ w[i].revision = first + i
                         /\ w[i].replacement = s[i].replacement /\ w[i].previous = s[i].previous
                         /\ w[i].position = s[i].position /\ w[i].selection = s[i].selection
  <2>1. \A i \in 1..N : w[i] = [s[i] EXCEPT !.revision = first + i] BY <1>5
  <2>2. \A i \in 1..N : Tells(f, s[i]) /\ first + i \in Nat BY <1>3, <1>5, <1>6
  <2>3. DOMAIN w = 1..N BY <1>5
  <2> HIDE DEF w, first, N
  <2>4. ASSUME NEW i \in 1..N
        PROVE  /\ Tells(f, w[i]) /\ w[i].revision = first + i
               /\ w[i].replacement = s[i].replacement /\ w[i].previous = s[i].previous
               /\ w[i].position = s[i].position /\ w[i].selection = s[i].selection
    <3> DEFINE c == s[i]
               r == first + i
    <3>1. w[i] = [c EXCEPT !.revision = r] /\ Tells(f, c) /\ r \in Nat BY <2>1, <2>2
    <3> HIDE DEF c, r
    <3>2. LET d == [c EXCEPT !.revision = r] IN
          /\ Tells(f, d) /\ d.revision = r
          /\ d.replacement = c.replacement /\ d.previous = c.previous
          /\ d.position = c.position /\ d.selection = c.selection
      BY <3>1, RevisedTells
    <3> QED BY <3>1, <3>2 DEF c, r
  <2> QED BY <2>3, <2>4
<1> HIDE DEF w
<1>8. w \in Seq(Change) /\ Len(w) = N
  <2>1. \A i \in 1..N : w[i] \in Change BY <1>7 DEF Tells
  <2>2. w = [i \in 1..N |-> w[i]] BY <1>5 DEF w
  <2> HIDE DEF N
  <2> QED BY <1>5, <2>1, <2>2
<1>9. TellAll(f, w)
  <2> HIDE DEF N
  <2> SUFFICES ASSUME NEW k \in Keys
               PROVE  /\ f.tables.overlay[k] # Absent => \E i \in 1..N : Names(w[i], k)
                      /\ f.entries[k] # NoEntry => \E i \in 1..N : k \in DOMAIN w[i].replacement
                      /\ f.tables.position[k] > 0 => \E i \in 1..N : k \in DOMAIN w[i].position
                      /\ f.tables.selection[k] > 0 => \E i \in 1..N : k \in DOMAIN w[i].selection
    BY <1>7 DEF TellAll
  <2>1. f.tables.overlay[k] # Absent => \E i \in 1..N : Names(w[i], k)
    BY <1>5, <1>6, <1>7 DEF TellAll, Names
  <2>2. f.entries[k] # NoEntry => \E i \in 1..N : k \in DOMAIN w[i].replacement
    BY <1>5, <1>6, <1>7 DEF TellAll
  <2>3. f.tables.position[k] > 0 => \E i \in 1..N : k \in DOMAIN w[i].position
    BY <1>5, <1>6, <1>7 DEF TellAll
  <2>4. f.tables.selection[k] > 0 => \E i \in 1..N : k \in DOMAIN w[i].selection
    BY <1>5, <1>6, <1>7 DEF TellAll
  <2> QED BY <2>1, <2>2, <2>3, <2>4
<1>10. Reset(reset) \in Change /\ Reset(reset).revision = reset BY <1>1, ResetFacts
<1>11. /\ u.log \in Seq(Change) /\ Len(u.log) = n + 1 + N
       /\ \A i \in 1..n : u.log[i] = dict.log[i]
       /\ u.log[n + 1] = Reset(reset)
       /\ \A i \in 1..N : u.log[n + 1 + i] = w[i]
  <2>1. u.log = Append(dict.log, Reset(reset)) \o w BY <1>4
  <2>2. dict.log \in Seq(Change) /\ Reset(reset) \in Change /\ w \in Seq(Change)
    BY <1>1, <1>8, <1>10
  <2>3. LET a == Append(dict.log, Reset(reset)) \o w IN
        /\ a \in Seq(Change) /\ Len(a) = Len(dict.log) + 1 + Len(w)
        /\ \A i \in 1..Len(dict.log) : a[i] = dict.log[i]
        /\ a[Len(dict.log) + 1] = Reset(reset)
        /\ \A i \in 1..Len(w) : a[Len(dict.log) + 1 + i] = w[i]
    BY <2>2, LongSequence
  <2>4. Len(w) = N /\ Len(dict.log) = n BY <1>8
  <2> HIDE DEF n, N, reset
  <2> QED BY <2>1, <2>3, <2>4
<1> HIDE DEF n, N, reset, first
<1>r. reset = dict.revision + 1 BY DEF reset
<1>z. /\ dict.revision \in Nat /\ first \in Nat /\ N \in Nat /\ n \in Nat
      /\ first > reset /\ u.revision = first + N
  BY <1>1, <1>3, <1>4, <1>5
<1>12. \A k \in Keys : f.entries[k] # NoEntry =>
         row(k) \in 1..N /\ k \in DOMAIN s[row(k)].replacement
  BY <1>5, <1>6 DEF TellAll
<1> HIDE DEF row
<1>13. \A k \in Keys : f.entries[k] # NoEntry =>
         /\ u.entries[k].id = first + row(k) /\ u.entries[k].revision = first + row(k)
         /\ u.entries[k].weight = f.entries[k].weight /\ u.entries[k] # NoEntry
  <2> SUFFICES ASSUME NEW k \in Keys, f.entries[k] # NoEntry
               PROVE  /\ u.entries[k].id = first + row(k) /\ u.entries[k].revision = first + row(k)
                      /\ u.entries[k].weight = f.entries[k].weight /\ u.entries[k] # NoEntry
    OBVIOUS
  <2>1. u.entries[k] = [id |-> first + row(k), weight |-> f.entries[k].weight,
                        revision |-> first + row(k)]
    BY <1>4
  <2>2. /\ u.entries[k].id = first + row(k) /\ u.entries[k].revision = first + row(k)
        /\ u.entries[k].weight = f.entries[k].weight
    BY <2>1
  <2>3. row(k) \in 1..N BY <1>12
  <2>4. first + row(k) # 0 BY <1>3, <1>5, <2>3
  <2>5. NoEntry.id = 0 BY DEF NoEntry
  <2> QED BY <2>2, <2>4, <2>5
<1>14. \A k \in Keys : f.entries[k] = NoEntry => u.entries[k] = NoEntry BY <1>4
<1>15. \A k, l \in Keys : f.entries[k] # NoEntry /\ f.entries[l] # NoEntry /\ row(k) = row(l)
                            => k = l
  <2> SUFFICES ASSUME NEW k \in Keys, NEW l \in Keys, f.entries[k] # NoEntry,
                      f.entries[l] # NoEntry, row(k) = row(l)
               PROVE  k = l
    OBVIOUS
  <2>1. /\ row(k) \in 1..N /\ k \in DOMAIN s[row(k)].replacement
        /\ l \in DOMAIN s[row(k)].replacement
    BY <1>12
  <2>2. Tells(f, s[row(k)]) BY <1>5, <1>6, <2>1
  <2> QED BY <2>1, <2>2 DEF Tells
<1>16. u \in Rows
  <2>1. \A k \in Keys : u.entries[k] \in Entry
    <3> SUFFICES ASSUME NEW k \in Keys PROVE u.entries[k] \in Entry OBVIOUS
    <3>1. f.entries[k] \in Entry BY <1>2
    <3>2. CASE f.entries[k] = NoEntry BY <1>14, <3>2, RowTypes
    <3>3. CASE f.entries[k] # NoEntry
      <4>1. u.entries[k] = [id |-> first + row(k), weight |-> f.entries[k].weight,
                            revision |-> first + row(k)]
        BY <1>4, <3>3
      <4>2. first + row(k) \in Nat BY <1>3, <1>5, <1>12, <3>3
      <4>3. f.entries[k].weight \in Weights \cup {0} BY <3>1 DEF Entry
      <4> HIDE DEF row
      <4> QED BY <4>1, <4>2, <4>3 DEF Entry
    <3> QED BY <3>2, <3>3
  <2>2. u.entries \in [Keys -> Entry] BY <1>4, <2>1
  <2>3. u.revision \in Nat BY <1>3, <1>4, <1>5
  <2>4. u.tables \in Tables BY <1>2, <1>4
  <2> QED BY <1>4, <1>11, <2>2, <2>3, <2>4 DEF Rows
<1>17. LogOK(u)
  <2> SUFFICES ASSUME NEW i \in 1..n + 1 + N
               PROVE  /\ u.log[i].revision \in 1..u.revision
                      /\ \A j \in 1..i - 1 : u.log[j].revision < u.log[i].revision
                      /\ u.log[i].reset => /\ u.log[i].previous = {}
                                           /\ DOMAIN u.log[i].replacement = {}
                                           /\ DOMAIN u.log[i].ranking = {}
    BY <1>11 DEF LogOK
  <2>1. \A j \in 1..n : /\ u.log[j].revision \in 1..dict.revision
                        /\ \A h \in 1..j - 1 : u.log[h].revision < u.log[j].revision
    <3> SUFFICES ASSUME NEW j \in 1..n
                 PROVE  /\ u.log[j].revision \in 1..dict.revision
                        /\ \A h \in 1..j - 1 : u.log[h].revision < u.log[j].revision
      OBVIOUS
    <3>1. /\ dict.log[j].revision \in 1..dict.revision
          /\ \A h \in 1..j - 1 : dict.log[h].revision < dict.log[j].revision
      BY <1>1 DEF LogOK, n
    <3>2. \A h \in 1..j - 1 : h \in 1..n BY <1>5
    <3> QED BY <1>11, <3>1, <3>2
  <2>2. u.log[n + 1].revision = reset BY <1>10, <1>11
  <2>3. \A j \in n + 2..n + 1 + N : u.log[j].revision = first + (j - n - 1)
    <3> SUFFICES ASSUME NEW j \in n + 2..n + 1 + N
                 PROVE  u.log[j].revision = first + (j - n - 1)
      OBVIOUS
    <3>1. j - n - 1 \in 1..N /\ n + 1 + (j - n - 1) = j BY <1>5
    <3>2. u.log[n + 1 + (j - n - 1)] = w[j - n - 1] BY <1>11, <3>1
    <3>3. w[j - n - 1].revision = first + (j - n - 1) BY <1>7, <3>1
    <3> QED BY <3>1, <3>2, <3>3
  <2>4. CASE i \in 1..n
    <3>1. u.log[i].revision \in 1..u.revision BY <1>r, <1>z, <2>1, <2>4
    <3>2. \A j \in 1..i - 1 : u.log[j].revision < u.log[i].revision BY <2>1, <2>4
    <3>3. u.log[i].reset => /\ u.log[i].previous = {}
                            /\ DOMAIN u.log[i].replacement = {}
                            /\ DOMAIN u.log[i].ranking = {}
      BY <1>1, <1>11, <2>4 DEF LogOK, n
    <3> QED BY <3>1, <3>2, <3>3
  <2>5. CASE i = n + 1
    <3>1. u.log[i].revision \in 1..u.revision BY <1>r, <1>z, <2>2, <2>5
    <3>2. \A j \in 1..n : u.log[j].revision < reset BY <1>1, <1>r, <2>1
    <3>3. \A j \in 1..i - 1 : j \in 1..n BY <1>5, <2>5
    <3>4. u.log[i] = Reset(reset) BY <1>11, <2>5
    <3>5. /\ Reset(reset).previous = {} /\ DOMAIN Reset(reset).replacement = {}
          /\ DOMAIN Reset(reset).ranking = {}
      BY <1>1, <1>r, ResetFacts
    <3> QED BY <2>2, <2>5, <3>1, <3>2, <3>3, <3>4, <3>5
  <2>6. CASE i \in n + 2..n + 1 + N
    <3>1. u.log[i].revision = first + (i - n - 1) BY <2>3, <2>6
    <3>2. u.log[i].revision \in 1..u.revision BY <1>z, <2>6, <3>1
    <3>3. ASSUME NEW j \in 1..i - 1 PROVE u.log[j].revision < u.log[i].revision
      <4>1. CASE j \in 1..n BY <1>r, <1>z, <2>1, <2>6, <3>1, <4>1
      <4>2. CASE j = n + 1 BY <1>r, <1>z, <2>2, <2>6, <3>1, <4>2
      <4>3. CASE j \in n + 2..n + 1 + N
        <5>1. u.log[j].revision = first + (j - n - 1) BY <2>3, <4>3
        <5> QED BY <1>z, <2>6, <3>1, <4>3, <5>1
      <4>4. j \in 1..n \/ j = n + 1 \/ j \in n + 2..n + 1 + N BY <1>5, <2>6
      <4> QED BY <4>1, <4>2, <4>3, <4>4
    <3>4. u.log[i].reset = FALSE
      <4>1. i - n - 1 \in 1..N /\ n + 1 + (i - n - 1) = i BY <1>5, <2>6
      <4>2. u.log[n + 1 + (i - n - 1)] = w[i - n - 1] BY <1>11, <4>1
      <4>3. Tells(f, w[i - n - 1]) BY <1>7, <4>1
      <4> QED BY <4>1, <4>2, <4>3 DEF Tells
    <3> QED BY <3>2, <3>3, <3>4
  <2>7. i \in 1..n \/ i = n + 1 \/ i \in n + 2..n + 1 + N BY <1>5
  <2> QED BY <2>4, <2>5, <2>6, <2>7
<1>18. EntriesOK(u)
  <2> SUFFICES ASSUME NEW k \in Keys
               PROVE  /\ u.entries[k] = NoEntry => u.tables.overlay[k].state # "own"
                      /\ u.entries[k] # NoEntry =>
                           /\ u.entries[k].id \in 1..u.revision
                           /\ u.entries[k].revision \in 1..u.revision
                           /\ u.tables.overlay[k] = LiveRow(TRUE, u.entries[k].weight)
                           /\ \A l \in Keys : u.entries[l].id = u.entries[k].id => l = k
    BY DEF EntriesOK
  <2>1. CASE f.entries[k] = NoEntry
    <3>1. u.entries[k] = NoEntry BY <1>14, <2>1
    <3>2. f.tables.overlay[k].state # "own" BY <2>1 DEF Restorable
    <3> QED BY <1>4, <3>1, <3>2
  <2>2. CASE f.entries[k] # NoEntry
    <3>1. /\ u.entries[k].id = first + row(k) /\ u.entries[k].revision = first + row(k)
          /\ u.entries[k].weight = f.entries[k].weight
      BY <1>13, <2>2
    <3>2. row(k) \in 1..N BY <1>12, <2>2
    <3>3. first + row(k) \in 1..u.revision BY <1>z, <3>2
    <3>4. f.tables.overlay[k] = LiveRow(TRUE, f.entries[k].weight) BY <2>2 DEF Restorable
    <3>5. ASSUME NEW l \in Keys, u.entries[l].id = u.entries[k].id PROVE l = k
      <4>1. f.entries[l] # NoEntry
        <5>1. NoEntry.id = 0 BY DEF NoEntry
        <5>2. u.entries[l].id # 0 BY <1>z, <3>1, <3>2, <3>5
        <5> QED BY <1>14, <5>1, <5>2
      <4>2. u.entries[l].id = first + row(l) /\ row(l) \in 1..N BY <1>12, <1>13, <4>1
      <4>3. row(l) = row(k) BY <1>z, <3>1, <3>2, <3>5, <4>2
      <4> QED BY <1>15, <2>2, <4>1, <4>3
    <3>6. u.tables = f.tables BY <1>4
    <3>7. u.entries[k] # NoEntry BY <1>13, <2>2
    <3> QED BY <3>1, <3>3, <3>4, <3>5, <3>6, <3>7
  <2> QED BY <2>1, <2>2
<1>19. PlacesOK(u) BY <1>4 DEF PlacesOK, Restorable
<1>20. ASSUME NEW x \in [at: 0..dict.revision, tables: Tables], Follows(dict, x)
       PROVE  Follows(u, x)
  <2> DEFINE parts == [j \in 0..N |-> Part(f, w, j)]
             G == [i \in n..n + 1 + N |-> IF i = n THEN dict.tables ELSE parts[i - n - 1]]
  <2>p. \A j \in 0..N : parts[j] = Part(f, w, j) /\ parts[j] \in Tables BY PartType
  <2> HIDE DEF parts
  <2>h. \A i \in n..n + 1 + N : i # n => i - n - 1 \in 0..N BY <1>z
  <2>1. G \in [n..n + 1 + N -> Tables] BY <1>1, <2>p, <2>h
  <2>2. G[n] = dict.tables BY <1>5
  <2>g. ASSUME NEW j \in 0..N PROVE G[n + 1 + j] = Part(f, w, j)
    <3>1. n + 1 + j \in n..n + 1 + N /\ n + 1 + j # n /\ (n + 1 + j) - n - 1 = j BY <1>z
    <3>2. G[n + 1 + j] = parts[(n + 1 + j) - n - 1] BY <3>1
    <3> HIDE DEF G
    <3> QED BY <2>p, <3>1, <3>2
  <2> HIDE DEF G
  <2>3. G[n + 1] = Blank
    <3>1. 0 \in 0..N /\ n + 1 + 0 = n + 1 BY <1>z
    <3>2. G[n + 1 + 0] = Part(f, w, 0) BY <2>g, <3>1
    <3>3. Part(f, w, 0) = Blank BY PartFirst
    <3> QED BY <3>1, <3>2, <3>3
  <2>4. G[n + 1 + N] = f.tables
    <3>1. N \in 0..N BY <1>z
    <3>2. G[n + 1 + N] = Part(f, w, N) BY <2>g, <3>1
    <3>3. Part(f, w, Len(w)) = f.tables BY <1>8, <1>9, PartLast
    <3> QED BY <1>8, <3>2, <3>3
  <2>5. ASSUME NEW i \in n + 1..n + 1 + N
        PROVE  u.log[i].revision > dict.revision /\ G[i] = Followed(G[i - 1], u.log[i])
    <3>1. CASE i = n + 1
      <4>1. u.log[i] = Reset(reset) /\ u.log[i].revision = reset BY <1>10, <1>11, <3>1
      <4>2. G[i] = Blank /\ G[i - 1] = dict.tables BY <1>5, <2>2, <2>3, <3>1
      <4>3. Followed(dict.tables, Reset(reset)) = Blank BY <1>1, <1>r, ResetFacts
      <4>4. u.log[i].revision > dict.revision BY <1>1, <1>r, <4>1
      <4> QED BY <4>1, <4>2, <4>3, <4>4
    <3>2. CASE i \in n + 2..n + 1 + N
      <4> DEFINE j == i - n - 1
      <4>1. /\ j \in 1..N /\ n + 1 + j = i
            /\ j \in 0..N /\ j - 1 \in 0..N /\ n + 1 + (j - 1) = i - 1
        BY <1>z, <3>2
      <4>2. G[i] = Part(f, w, j) /\ G[i - 1] = Part(f, w, j - 1) BY <2>g, <4>1
      <4> HIDE DEF j
      <4>3. u.log[i] = w[j] BY <1>11, <4>1
      <4>4. Tells(f, w[j]) /\ w[j].revision = first + j BY <1>7, <4>1
      <4>5. Part(f, w, j) = Followed(Part(f, w, j - 1), w[j]) BY <1>5, <4>1, <4>4, PartStep
      <4>6. u.log[i].revision > dict.revision BY <1>r, <1>z, <4>1, <4>3, <4>4
      <4> QED BY <4>2, <4>3, <4>5, <4>6
    <3> QED BY <1>5, <3>1, <3>2
  <2>6. Len(dict.log) = n /\ Len(u.log) = n + 1 + N BY <1>11 DEF n
  <2>7. n <= n + 1 + N BY <1>5
  <2>8. /\ G \in [Len(dict.log)..Len(u.log) -> Tables]
        /\ G[Len(dict.log)] = dict.tables /\ G[Len(u.log)] = u.tables
        /\ \A i \in Len(dict.log) + 1..Len(u.log) :
             u.log[i].revision > dict.revision /\ G[i] = Followed(G[i - 1], u.log[i])
        /\ \A i \in 1..Len(dict.log) : u.log[i] = dict.log[i]
        /\ Len(dict.log) <= Len(u.log)
    BY <1>4, <1>11, <2>1, <2>2, <2>4, <2>5, <2>6, <2>7
  <2> QED BY <1>1, <1>16, <1>20, <2>8, LongerLog, Zenon
<1>21. Later(dict, u)
  <2>1. dict.revision <= u.revision BY <1>r, <1>z
  <2>2. ASSUME NEW k \in Keys
        PROVE  \/ u.entries[k] = dict.entries[k] \/ u.entries[k] = NoEntry
               \/ u.entries[k].revision > dict.revision
    <3>1. CASE f.entries[k] = NoEntry BY <1>14, <3>1
    <3>2. CASE f.entries[k] # NoEntry
      <4>1. u.entries[k].revision = first + row(k) /\ row(k) \in 1..N BY <1>12, <1>13, <3>2
      <4> QED BY <1>r, <1>z, <4>1
    <3> QED BY <3>1, <3>2
  <2> QED BY <1>20, <2>1, <2>2 DEF Later
<1>22. Good(u)
  <2>1. Fresh \in [at: 0..dict.revision, tables: Tables] BY <1>1, RowTypes DEF Fresh
  <2>2. Follows(u, Fresh) BY <1>1, <1>20, <2>1
  <2> QED BY <1>16, <1>17, <1>18, <1>19, <2>2 DEF Good
<1>23. Personal(u.entries) = Personal(f.entries) BY <1>13, <1>14 DEF Personal
<1> QED BY <1>21, <1>22, <1>23 DEF u

----------------------------------------------------------------------------
(* Packs and texts: one edit after another.                                *)

LEMMA LaterIsReflexive ==
  ASSUME NEW t \in Rows
  PROVE  Later(t, t)
<1>1. t.revision \in Nat BY DEF Rows
<1> QED BY <1>1 DEF Later

LEMMA SingleOnly ==
  ASSUME NEW k, NEW v
  PROVE  \A x, y \in DOMAIN Single(k, v) : x = y
BY DEF Single

LEMMA SingleWeight ==
  ASSUME NEW k \in Keys, NEW w \in Weights
  PROVE  /\ Single(k, w) \in Partial(Weights) /\ DOMAIN Single(k, w) = {k}
         /\ \A x, y \in DOMAIN Single(k, w) : x = y
<1>1. Single(k, w) \in Partial(Weights) /\ DOMAIN Single(k, w) = {k} BY SinglePartial
<1>2. \A x, y \in DOMAIN Single(k, w) : x = y BY SingleOnly
<1> QED BY <1>1, <1>2

LEMMA SingleOfEntry ==
  ASSUME NEW e \in Keys \X Weights
  PROVE  /\ Single(e[1], e[2]) \in Partial(Weights) /\ DOMAIN Single(e[1], e[2]) = {e[1]}
         /\ \A x, y \in DOMAIN Single(e[1], e[2]) : x = y
<1> DEFINE k == e[1]
           w == e[2]
<1>1. k \in Keys /\ w \in Weights OBVIOUS
<1> HIDE DEF k, w
<1>2. /\ Single(k, w) \in Partial(Weights) /\ DOMAIN Single(k, w) = {k}
      /\ \A x, y \in DOMAIN Single(k, w) : x = y
  BY <1>1, SingleWeight
<1> QED BY <1>2, Zenon DEF k, w

LEMMA MergedOK ==
  ASSUME NEW t, Good(t), NEW e \in Keys \X Weights
  PROVE  Good(Merged(t, e)) /\ Later(t, Merged(t, e))
<1> DEFINE old == {e[1]} \cap Personal(t.entries)
           new == Single(e[1], e[2])
<1>1. old \in SUBSET Personal(t.entries) /\ \A x, y \in old : x = y OBVIOUS
<1>2. new \in Partial(Weights) /\ \A x, y \in DOMAIN new : x = y
  BY SingleOfEntry
<1>3. Merged(t, e) = IF t.entries[e[1]].weight = e[2] THEN t ELSE Edited(t, old, new)
  BY DEF Merged
<1> HIDE DEF old, new
<1>4. Good(Edited(t, old, new)) /\ Later(t, Edited(t, old, new)) BY <1>1, <1>2, EditedOK
<1>5. Later(t, t) BY LaterIsReflexive DEF Good
<1>6. CASE t.entries[e[1]].weight = e[2] BY <1>3, <1>5, <1>6
<1>7. CASE t.entries[e[1]].weight # e[2] BY <1>3, <1>4, <1>7
<1> QED BY <1>6, <1>7

\* One entry of a text.
Added(t, e) == Edited(t, {}, Single(e[1], e[2]))

LEMMA AddedOK ==
  ASSUME NEW t, Good(t), NEW e \in Keys \X Weights
  PROVE  /\ Good(Added(t, e)) /\ Later(t, Added(t, e))
         /\ Personal(Added(t, e).entries) = Personal(t.entries) \cup {e[1]}
<1> DEFINE new == Single(e[1], e[2])
<1>1. new \in Partial(Weights) /\ DOMAIN new = {e[1]} /\ \A x, y \in DOMAIN new : x = y
  BY SingleOfEntry
<1> HIDE DEF new
<1>2. {} \in SUBSET Personal(t.entries) /\ \A x, y \in {} : x = y OBVIOUS
<1>3. LET u == Edited(t, {}, new) IN
      /\ Good(u) /\ Later(t, u)
      /\ Personal(u.entries) = (Personal(t.entries) \ {}) \cup DOMAIN new
  BY <1>1, <1>2, EditedOK
<1>4. Added(t, e) = Edited(t, {}, new) BY DEF Added, new
<1>5. Good(Added(t, e)) /\ Later(t, Added(t, e)) BY <1>3, <1>4
<1>6. Personal(Added(t, e).entries) = Personal(t.entries) \cup {e[1]} BY <1>1, <1>3, <1>4
<1> QED BY <1>5, <1>6

\* Steps that lead from b, one for each of the numbers up to n.
Steps(b, F, n, g) == g[0] = b /\ \A i \in 1..n : g[i] = F[<<g[i - 1], i>>]

LEMMA StepsExist ==
  ASSUME NEW T, NEW b \in T, NEW n \in Nat, NEW F \in [T \X (1..n) -> T]
  PROVE  \E g \in [0..n -> T] : Steps(b, F, n, g)
<1> DEFINE S == {m \in 0..n : \E g \in [0..m -> T] : Steps(b, F, m, g)}
<1>1. 0 \in S
  <2> DEFINE g == [i \in 0..0 |-> b]
  <2>1. g \in [0..0 -> T] /\ g[0] = b OBVIOUS
  <2>2. \A i \in 1..0 : g[i] = F[<<g[i - 1], i>>] OBVIOUS
  <2> HIDE DEF g
  <2>3. \E x \in [0..0 -> T] : Steps(b, F, 0, x) BY <2>1, <2>2 DEF Steps
  <2>4. 0 \in 0..n OBVIOUS
  <2> QED BY <2>3, <2>4
<1>2. ASSUME NEW m \in 0..n - 1, m \in S PROVE m + 1 \in S
  <2>1. PICK g \in [0..m -> T] : g[0] = b /\ \A i \in 1..m : g[i] = F[<<g[i - 1], i>>]
    BY <1>2 DEF Steps
  <2>2. m \in Nat /\ m + 1 \in 1..n /\ g[m] \in T /\ <<g[m], m + 1>> \in T \X (1..n) OBVIOUS
  <2> DEFINE v == F[<<g[m], m + 1>>]
             h == [i \in 0..m + 1 |-> IF i = m + 1 THEN v ELSE g[i]]
  <2>3. v \in T BY <2>2
  <2> HIDE DEF v
  <2>4. h \in [0..m + 1 -> T] BY <2>2, <2>3
  <2>5. h[m + 1] = v /\ \A i \in 0..m : h[i] = g[i] BY <2>2
  <2> HIDE DEF h
  <2>6. h[0] = b BY <2>1, <2>2, <2>5
  <2>7. ASSUME NEW i \in 1..m + 1 PROVE h[i] = F[<<h[i - 1], i>>]
    <3>1. CASE i = m + 1
      <4>1. i - 1 = m /\ h[m] = g[m] BY <2>2, <2>5, <3>1
      <4> QED BY <2>5, <3>1, <4>1 DEF v
    <3>2. CASE i \in 1..m
      <4>1. h[i] = g[i] /\ h[i - 1] = g[i - 1] BY <2>2, <2>5, <3>2
      <4>2. g[i] = F[<<g[i - 1], i>>] BY <2>1, <3>2
      <4> QED BY <4>1, <4>2
    <3> QED BY <2>2, <3>1, <3>2
  <2>8. m + 1 \in 0..n BY <2>2
  <2>9. Steps(b, F, m + 1, h) BY <2>6, <2>7 DEF Steps
  <2> QED BY <2>4, <2>8, <2>9
<1>3. n \in S
  <2> HIDE DEF S
  <2>1. \A m \in 0..n - 1 : m \in S => m + 1 \in S BY <1>2
  <2>2. 0..n \subseteq S BY <1>1, <2>1, Ascent
  <2> QED BY <2>2
<1> QED BY <1>3

GoodRows == {t \in Rows : Good(t)}

\* What a pack makes of the rows.
LEMMA MergedByOK ==
  ASSUME Good(dict), NEW pack \in Seq(Keys \X Weights)
  PROVE  Good(MergedBy(pack)) /\ Later(dict, MergedBy(pack))
<1> DEFINE n == Len(pack)
           F == [p \in GoodRows \X (1..n) |-> Merged(p[1], pack[p[2]])]
           Is(t) == t = [i \in 0..n |-> IF i = 0 THEN dict ELSE Merged(t[i - 1], pack[i])]
           h == CHOOSE t : Is(t)
<1>1. n \in Nat /\ \A i \in 1..n : pack[i] \in Keys \X Weights OBVIOUS
<1>2. \A t : t \in GoodRows <=> Good(t) BY DEF GoodRows, Good
<1>3. MergedBy(pack) = h[n] BY DEF MergedBy
<1> HIDE DEF n
<1>4. F \in [GoodRows \X (1..n) -> GoodRows]
  <2>1. ASSUME NEW p \in GoodRows \X (1..n) PROVE Merged(p[1], pack[p[2]]) \in GoodRows
    <3>1. Good(p[1]) /\ pack[p[2]] \in Keys \X Weights BY <1>1, <1>2
    <3> QED BY <1>2, <3>1, MergedOK
  <2> QED BY <2>1
<1>5. \A t \in GoodRows, i \in 1..n : F[<<t, i>>] = Merged(t, pack[i]) OBVIOUS
<1>6. dict \in GoodRows BY <1>2
<1> HIDE DEF F
<1>7. PICK g \in [0..n -> GoodRows] : g[0] = dict /\ \A i \in 1..n : g[i] = F[<<g[i - 1], i>>]
  <2>1. n \in Nat BY <1>1
  <2>2. \E g \in [0..n -> GoodRows] : Steps(dict, F, n, g)
    BY <1>4, <1>6, <2>1, StepsExist, Zenon
  <2> QED BY <2>2 DEF Steps
<1>8. Is(g)
  <2>1. \A i \in 1..n : g[i] = Merged(g[i - 1], pack[i])
    <3> SUFFICES ASSUME NEW i \in 1..n PROVE g[i] = Merged(g[i - 1], pack[i]) OBVIOUS
    <3>1. i - 1 \in 0..n BY <1>1
    <3>2. g[i - 1] \in GoodRows BY <3>1
    <3> QED BY <1>5, <1>7, <3>2
  <2>2. \A i \in 0..n : g[i] = IF i = 0 THEN dict ELSE Merged(g[i - 1], pack[i])
    <3> SUFFICES ASSUME NEW i \in 0..n
                 PROVE  g[i] = IF i = 0 THEN dict ELSE Merged(g[i - 1], pack[i])
      OBVIOUS
    <3>1. i = 0 \/ i \in 1..n BY <1>1
    <3> QED BY <1>7, <2>1, <3>1
  <2>3. g = [i \in 0..n |-> g[i]] OBVIOUS
  <2> QED BY <2>2, <2>3
<1>9. Is(h) BY <1>8
<1> HIDE DEF h
<1>10. h[0] = dict /\ \A i \in 1..n : h[i] = Merged(h[i - 1], pack[i])
  <2>1. \A i \in 0..n : h[i] = IF i = 0 THEN dict ELSE Merged(h[i - 1], pack[i]) BY <1>9
  <2>2. 0 \in 0..n /\ \A i \in 1..n : i \in 0..n /\ i # 0 BY <1>1
  <2> QED BY <2>1, <2>2
<1> HIDE DEF Is
<1> DEFINE S == {i \in 0..n : Good(h[i]) /\ Later(dict, h[i])}
<1>11. 0 \in S
  <2>1. Later(dict, dict) BY LaterIsReflexive DEF Good
  <2> QED BY <1>1, <1>10, <2>1
<1>12. ASSUME NEW i \in 0..n - 1, i \in S PROVE i + 1 \in S
  <2>1. i + 1 \in 1..n /\ i + 1 \in 0..n /\ (i + 1) - 1 = i BY <1>1
  <2>2. h[i + 1] = Merged(h[i], pack[i + 1]) BY <1>10, <2>1
  <2>3. Good(h[i]) /\ Later(dict, h[i]) BY <1>12
  <2>4. Good(h[i + 1]) /\ Later(h[i], h[i + 1]) BY <1>1, <2>1, <2>2, <2>3, MergedOK
  <2>5. dict \in Rows /\ h[i] \in Rows /\ h[i + 1] \in Rows BY <2>3, <2>4 DEF Good
  <2>6. Later(dict, h[i + 1]) BY <2>3, <2>4, <2>5, LaterIsTransitive
  <2> QED BY <2>1, <2>4, <2>6
<1>13. n \in S
  <2> HIDE DEF S
  <2>1. \A i \in 0..n - 1 : i \in S => i + 1 \in S BY <1>12
  <2>2. 0..n \subseteq S BY <1>1, <1>11, <2>1, Ascent
  <2> QED BY <1>1, <2>2
<1> QED BY <1>3, <1>13

\* One entry more than before at most.
LEMMA OneMore ==
  ASSUME NEW A \in SUBSET Keys, NEW x
  PROVE  Cardinality(A) \in Nat /\ Cardinality(A \cup {x}) <= Cardinality(A) + 1
<1>1. IsFiniteSet(A) BY DictionaryAssumption, FS_Subset
<1>2. Cardinality(A) \in Nat BY <1>1, FS_CardinalityType
<1>3. Cardinality(A \cup {x}) = IF x \in A THEN Cardinality(A) ELSE Cardinality(A) + 1
  BY <1>1, FS_AddElement
<1> QED BY <1>2, <1>3

\* What a text makes of the rows.
LEMMA ImportedOK ==
  ASSUME Good(dict), NEW pack \in Seq(Keys \X Weights)
  PROVE  /\ Good(Imported(pack)) /\ Later(dict, Imported(pack))
         /\ Cardinality(Personal(Imported(pack).entries))
              <= Cardinality(Personal(dict.entries)) + Len(pack)
<1> DEFINE n == Len(pack)
           F == [p \in GoodRows \X (1..n) |-> Added(p[1], pack[p[2]])]
           Is(t) == t = [i \in 0..n |-> IF i = 0 THEN dict ELSE Added(t[i - 1], pack[i])]
           h == CHOOSE t : Is(t)
           size(t) == Cardinality(Personal(t.entries))
<1>1. n \in Nat /\ \A i \in 1..n : pack[i] \in Keys \X Weights OBVIOUS
<1>2. \A t : t \in GoodRows <=> Good(t) BY DEF GoodRows, Good
<1>3. Imported(pack) = h[n] BY DEF Imported, Added
<1> HIDE DEF n
<1>4. F \in [GoodRows \X (1..n) -> GoodRows]
  <2>1. ASSUME NEW p \in GoodRows \X (1..n) PROVE Added(p[1], pack[p[2]]) \in GoodRows
    <3>1. Good(p[1]) /\ pack[p[2]] \in Keys \X Weights BY <1>1, <1>2
    <3> QED BY <1>2, <3>1, AddedOK
  <2> QED BY <2>1
<1>5. \A t \in GoodRows, i \in 1..n : F[<<t, i>>] = Added(t, pack[i]) OBVIOUS
<1>6. dict \in GoodRows BY <1>2
<1> HIDE DEF F
<1>7. PICK g \in [0..n -> GoodRows] : g[0] = dict /\ \A i \in 1..n : g[i] = F[<<g[i - 1], i>>]
  <2>1. n \in Nat BY <1>1
  <2>2. \E g \in [0..n -> GoodRows] : Steps(dict, F, n, g)
    BY <1>4, <1>6, <2>1, StepsExist, Zenon
  <2> QED BY <2>2 DEF Steps
<1>8. Is(g)
  <2>1. \A i \in 1..n : g[i] = Added(g[i - 1], pack[i])
    <3> SUFFICES ASSUME NEW i \in 1..n PROVE g[i] = Added(g[i - 1], pack[i]) OBVIOUS
    <3>1. i - 1 \in 0..n BY <1>1
    <3>2. g[i - 1] \in GoodRows BY <3>1
    <3> QED BY <1>5, <1>7, <3>2
  <2>2. \A i \in 0..n : g[i] = IF i = 0 THEN dict ELSE Added(g[i - 1], pack[i])
    <3> SUFFICES ASSUME NEW i \in 0..n
                 PROVE  g[i] = IF i = 0 THEN dict ELSE Added(g[i - 1], pack[i])
      OBVIOUS
    <3>1. i = 0 \/ i \in 1..n BY <1>1
    <3> QED BY <1>7, <2>1, <3>1
  <2>3. g = [i \in 0..n |-> g[i]] OBVIOUS
  <2> QED BY <2>2, <2>3
<1>9. Is(h) BY <1>8
<1> HIDE DEF h
<1>10. h[0] = dict /\ \A i \in 1..n : h[i] = Added(h[i - 1], pack[i])
  <2>1. \A i \in 0..n : h[i] = IF i = 0 THEN dict ELSE Added(h[i - 1], pack[i]) BY <1>9
  <2>2. 0 \in 0..n /\ \A i \in 1..n : i \in 0..n /\ i # 0 BY <1>1
  <2> QED BY <2>1, <2>2
<1> HIDE DEF Is
<1>p. \A t : Personal(t.entries) \in SUBSET Keys BY DEF Personal
<1> DEFINE S == {i \in 0..n : /\ Good(h[i]) /\ Later(dict, h[i])
                              /\ size(h[i]) <= size(dict) + i}
<1>11. 0 \in S
  <2>1. Later(dict, dict) BY LaterIsReflexive DEF Good
  <2>2. size(dict) \in Nat BY <1>p, OneMore
  <2>3. size(dict) <= size(dict) + 0 BY <2>2
  <2> HIDE DEF size
  <2> QED BY <1>1, <1>10, <2>1, <2>3
<1>12. ASSUME NEW i \in 0..n - 1, i \in S PROVE i + 1 \in S
  <2>1. i + 1 \in 1..n /\ i + 1 \in 0..n /\ (i + 1) - 1 = i BY <1>1
  <2>2. h[i + 1] = Added(h[i], pack[i + 1]) BY <1>10, <2>1
  <2>3. Good(h[i]) /\ Later(dict, h[i]) BY <1>12
  <2>4. /\ Good(h[i + 1]) /\ Later(h[i], h[i + 1])
        /\ Personal(h[i + 1].entries) = Personal(h[i].entries) \cup {pack[i + 1][1]}
    BY <1>1, <2>1, <2>2, <2>3, AddedOK
  <2>5. dict \in Rows /\ h[i] \in Rows /\ h[i + 1] \in Rows BY <2>3, <2>4 DEF Good
  <2>6. Later(dict, h[i + 1]) BY <2>3, <2>4, <2>5, LaterIsTransitive
  <2>7. size(h[i + 1]) <= size(h[i]) + 1 BY <1>p, <2>4, OneMore
  <2>8. size(h[i]) \in Nat /\ size(h[i + 1]) \in Nat /\ size(dict) \in Nat BY <1>p, OneMore
  <2>9. size(h[i]) <= size(dict) + i BY <1>12
  <2> HIDE DEF size
  <2>10. size(h[i + 1]) <= size(dict) + (i + 1) BY <2>7, <2>8, <2>9
  <2> QED BY <2>1, <2>4, <2>6, <2>10
<1>13. n \in S
  <2> HIDE DEF S
  <2>1. \A i \in 0..n - 1 : i \in S => i + 1 \in S BY <1>12
  <2>2. 0..n \subseteq S BY <1>1, <1>11, <2>1, Ascent
  <2> QED BY <1>1, <2>2
<1> QED BY <1>3, <1>13 DEF n

----------------------------------------------------------------------------
(* Every edit keeps the rows good and leads on from them.                  *)

Sound(u) ==
  Good(u) /\ Later(dict, u) /\ Cardinality(Personal(u.entries)) <= MaxEntries

\* A key for a key, or for none.
LEMMA Swapped ==
  ASSUME NEW A \in SUBSET Keys, NEW k \in A, NEW D \in SUBSET Keys, \A x, y \in D : x = y
  PROVE  Cardinality((A \ {k}) \cup D) <= Cardinality(A)
<1>1. IsFiniteSet(A) BY DictionaryAssumption, FS_Subset
<1>2. Cardinality(A) \in Nat BY <1>1, FS_CardinalityType
<1>3. Cardinality(A \ {k}) = Cardinality(A) - 1 BY <1>1, FS_RemoveElement
<1>4. CASE D = {}
  <2>1. (A \ {k}) \cup D = A \ {k} BY <1>4
  <2> QED BY <1>2, <1>3, <2>1
<1>5. CASE D # {}
  <2>1. PICK x \in D : D = {x} BY <1>5
  <2>2. A \ {k} \in SUBSET Keys OBVIOUS
  <2>3. Cardinality((A \ {k}) \cup {x}) <= Cardinality(A \ {k}) + 1
        /\ Cardinality(A \ {k}) \in Nat /\ Cardinality((A \ {k}) \cup {x}) \in Nat
    <3>1. (A \ {k}) \cup {x} \in SUBSET Keys OBVIOUS
    <3>2. IsFiniteSet((A \ {k}) \cup {x}) BY <3>1, DictionaryAssumption, FS_Subset
    <3>3. Cardinality((A \ {k}) \cup {x}) \in Nat BY <3>2, FS_CardinalityType
    <3> QED BY <2>2, <3>3, OneMore
  <2> QED BY <1>2, <1>3, <2>1, <2>3
<1> QED BY <1>4, <1>5

LEMMA Sizes ==
  \A e : Personal(e) \in SUBSET Keys /\ Cardinality(Personal(e)) \in Nat
<1> SUFFICES ASSUME NEW e PROVE Personal(e) \in SUBSET Keys /\ Cardinality(Personal(e)) \in Nat
  OBVIOUS
<1>1. Personal(e) \in SUBSET Keys BY DEF Personal
<1>2. IsFiniteSet(Personal(e)) BY <1>1, DictionaryAssumption, FS_Subset
<1>3. Cardinality(Personal(e)) \in Nat BY <1>2, FS_CardinalityType
<1> QED BY <1>1, <1>3

LEMMA InsertSound ==
  ASSUME IInv, NEW k \in Keys, NEW w \in Weights, Insert(k, w)
  PROVE  Sound(dict')
<1> DEFINE new == Single(k, w)
           u == Edited(dict, {}, new)
<1>1. Good(dict) BY DEF IInv
<1>2. dict' = u /\ Allowed(dict, {}, new) BY DEF Insert
<1>3. Cardinality(Personal(dict.entries)) < MaxEntries BY <1>2 DEF Allowed
<1>4. new \in Partial(Weights) /\ DOMAIN new = {k} /\ \A x, y \in DOMAIN new : x = y
  BY SingleWeight
<1>5. {} \in SUBSET Personal(dict.entries) /\ \A x, y \in {} : x = y OBVIOUS
<1> HIDE DEF new
<1>6. Good(u) /\ Later(dict, u) /\ Personal(u.entries) = (Personal(dict.entries) \ {}) \cup DOMAIN new
  BY <1>1, <1>4, <1>5, EditedOK
<1>7. Personal(u.entries) = Personal(dict.entries) \cup {k} BY <1>4, <1>6
<1>8. Cardinality(Personal(u.entries)) <= Cardinality(Personal(dict.entries)) + 1
  BY <1>7, OneMore, Sizes
<1>9. Cardinality(Personal(u.entries)) <= MaxEntries
  <2>1. Cardinality(Personal(u.entries)) \in Nat /\ Cardinality(Personal(dict.entries)) \in Nat
    BY Sizes
  <2>2. MaxEntries \in Nat BY DictionaryAssumption
  <2> QED BY <1>3, <1>8, <2>1, <2>2
<1> HIDE DEF u
<1> QED BY <1>2, <1>6, <1>9 DEF Sound

\* An edit of one personal entry, to one key or none.
LEMMA SwapSound ==
  ASSUME IInv, NEW k \in Personal(dict.entries), NEW new \in Partial(Weights),
         \A x, y \in DOMAIN new : x = y
  PROVE  Sound(Edited(dict, {k}, new))
<1> DEFINE u == Edited(dict, {k}, new)
<1>1. Good(dict) /\ Cardinality(Personal(dict.entries)) <= MaxEntries BY DEF IInv
<1>2. {k} \in SUBSET Personal(dict.entries) /\ \A x, y \in {k} : x = y OBVIOUS
<1>3. Good(u) /\ Later(dict, u)
      /\ Personal(u.entries) = (Personal(dict.entries) \ {k}) \cup DOMAIN new
  BY <1>1, <1>2, EditedOK
<1>4. DOMAIN new \in SUBSET Keys BY PartialIs
<1>5. Cardinality((Personal(dict.entries) \ {k}) \cup DOMAIN new)
        <= Cardinality(Personal(dict.entries))
  BY <1>4, Sizes, Swapped
<1>6. Cardinality(Personal(u.entries)) <= MaxEntries
  <2>1. Cardinality(Personal(u.entries)) \in Nat /\ Cardinality(Personal(dict.entries)) \in Nat
    BY Sizes
  <2>2. MaxEntries \in Nat BY DictionaryAssumption
  <2> QED BY <1>1, <1>3, <1>5, <2>1, <2>2
<1> HIDE DEF u
<1>7. Sound(u) BY <1>3, <1>6 DEF Sound
<1> QED BY <1>7 DEF u

LEMMA ManagedSound ==
  ASSUME IInv, NEW k \in Keys, NEW new \in Partial(Weights),
         \A x, y \in DOMAIN new : x = y, \A x \in DOMAIN new : x = k \/ ~Found(x)
  PROVE  Sound(Managed(k, new))
<1> DEFINE u == Managed(k, new)
<1>1. Good(dict) /\ Cardinality(Personal(dict.entries)) <= MaxEntries BY DEF IInv
<1>2. CASE dict.entries[k] # NoEntry
  <2>1. k \in Personal(dict.entries) BY <1>2 DEF Personal
  <2>2. Managed(k, new) = Edited(dict, {k}, new) BY <1>1, <1>2, ManagedOwn
  <2> QED BY <2>1, <2>2, SwapSound
<1>3. CASE dict.entries[k] = NoEntry
  <2>1. Good(u) /\ Later(dict, u) /\ u.entries = dict.entries BY <1>1, <1>3, ManagedOther
  <2> HIDE DEF u
  <2>2. Sound(u) BY <1>1, <2>1 DEF Sound
  <2> QED BY <2>2 DEF u
<1> QED BY <1>2, <1>3

LEMMA DeleteCandidateSound ==
  ASSUME IInv, NEW d, NEW k \in Keys, DeleteCandidate(d, k)
  PROVE  Sound(dict')
<1>1. Good(dict) BY DEF IInv
<1>2. None \in Partial(Weights) /\ \A x : x \notin DOMAIN None BY NonePartial
<1>3. Sound(Managed(k, None)) BY <1>2, ManagedSound
<1>4. dict' = Managed(k, None) BY <1>1, DeletedIsManaged DEF DeleteCandidate
<1> QED BY <1>3, <1>4

LEMMA ApplySound ==
  ASSUME IInv, NEW d, NEW pack \in Packs, Apply(d, pack)
  PROVE  Sound(dict')
<1>1. Good(dict) BY DEF IInv
<1>2. pack \in Seq(Keys \X Weights) BY DictionaryAssumption
<1>3. Good(MergedBy(pack)) /\ Later(dict, MergedBy(pack)) BY <1>1, <1>2, MergedByOK
<1>4. dict' = MergedBy(pack) /\ Cardinality(Personal(MergedBy(pack).entries)) <= MaxEntries
  BY DEF Apply
<1> QED BY <1>3, <1>4 DEF Sound

LEMMA ImportSound ==
  ASSUME IInv, NEW pack \in Packs, Import(pack)
  PROVE  Sound(dict')
<1> DEFINE u == Imported(pack)
<1>1. Good(dict) BY DEF IInv
<1>2. pack \in Seq(Keys \X Weights) BY DictionaryAssumption
<1>3. /\ Good(u) /\ Later(dict, u)
      /\ Cardinality(Personal(u.entries)) <= Cardinality(Personal(dict.entries)) + Len(pack)
  BY <1>1, <1>2, ImportedOK
<1>4. dict' = u /\ Cardinality(Personal(dict.entries)) + Len(pack) <= MaxEntries
  BY DEF Import
<1> HIDE DEF u
<1>5. Cardinality(Personal(u.entries)) <= MaxEntries
  <2>1. Cardinality(Personal(u.entries)) \in Nat /\ Cardinality(Personal(dict.entries)) \in Nat
    BY Sizes
  <2>2. MaxEntries \in Nat BY DictionaryAssumption
  <2>3. Len(pack) \in Nat BY <1>2
  <2>4. Cardinality(Personal(u.entries)) <= Cardinality(Personal(dict.entries)) + Len(pack)
    BY <1>3
  <2>5. Cardinality(Personal(dict.entries)) + Len(pack) <= MaxEntries BY <1>4
  <2> QED BY <2>1, <2>2, <2>3, <2>4, <2>5
<1> QED BY <1>3, <1>4, <1>5 DEF Sound

LEMMA SetPositionSound ==
  ASSUME IInv, NEW d, NEW k \in Keys, NEW p \in Positions \cup {0}, SetPosition(d, k, p)
  PROVE  Sound(dict')
<1>1. Good(dict) /\ Cardinality(Personal(dict.entries)) <= MaxEntries BY DEF IInv
<1>2. Good(dict') /\ Later(dict, dict') /\ dict'.entries = dict.entries
  BY <1>1, PlacedOK DEF SetPosition
<1> QED BY <1>1, <1>2 DEF Sound

LEMMA RankSound ==
  ASSUME IInv, NEW d, NEW k \in Keys, NEW count \in Counts \cup {0},
         NEW weights \in Partial(Weights), Rank(d, k, count, weights)
  PROVE  Sound(dict')
<1> DEFINE u == Ranked(k, count, weights)
<1>1. Good(dict) /\ Cardinality(Personal(dict.entries)) <= MaxEntries BY DEF IInv
<1>2. dict' = u BY DEF Rank, Ranked, RankedRows, RankedTables, Ranking
<1>3. Good(u) /\ Later(dict, u) /\ Personal(u.entries) = Personal(dict.entries)
  BY <1>1, RankedOK
<1> HIDE DEF u
<1> QED BY <1>1, <1>2, <1>3 DEF Sound

LEMMA RestoreSound ==
  ASSUME IInv, NEW d, Restore(d)
  PROVE  Sound(dict')
<1> DEFINE u == Restored(file)
<1>1. Good(dict) /\ file \in Files BY DEF IInv
<1>2. dict' = u /\ Restorable(file) BY DEF Restore
<1>3. Good(u) /\ Later(dict, u) /\ Personal(u.entries) = Personal(file.entries)
  BY <1>1, <1>2, RestoredOK
<1>4. Cardinality(Personal(file.entries)) <= MaxEntries BY <1>2 DEF Restorable
<1> HIDE DEF u
<1> QED BY <1>2, <1>3, <1>4 DEF Sound

LEMMA EditSound ==
  ASSUME IInv, NEW d \in Devices, Edit(d)
  PROVE  Sound(dict') /\ UNCHANGED <<file, device>>
<1>1. Good(dict) BY DEF IInv
<1>2. ASSUME NEW k \in Keys, NEW w \in Weights, Insert(k, w)
      PROVE  Sound(dict') /\ UNCHANGED <<file, device>>
  BY <1>2, InsertSound DEF Insert
<1>3. ASSUME NEW k \in Keys, NEW new \in Keys, NEW w \in Weights, Replace(k, new, w)
      PROVE  Sound(dict') /\ UNCHANGED <<file, device>>
  <2>1. Single(new, w) \in Partial(Weights) /\ \A x, y \in DOMAIN Single(new, w) : x = y
    BY SingleWeight
  <2>2. k \in Personal(dict.entries) /\ dict' = Edited(dict, {k}, Single(new, w))
        /\ UNCHANGED <<file, device>>
    BY <1>3 DEF Replace
  <2>3. Sound(Edited(dict, {k}, Single(new, w))) BY <2>1, <2>2, SwapSound
  <2> QED BY <2>2, <2>3
<1>4. ASSUME NEW k \in Keys, Delete(k) PROVE Sound(dict') /\ UNCHANGED <<file, device>>
  <2>1. None \in Partial(Weights) /\ \A x, y \in DOMAIN None : x = y BY NonePartial
  <2>2. k \in Personal(dict.entries) /\ dict' = Edited(dict, {k}, None)
        /\ UNCHANGED <<file, device>>
    BY <1>4 DEF Delete
  <2>3. Sound(Edited(dict, {k}, None)) BY <2>1, <2>2, SwapSound
  <2> QED BY <2>2, <2>3
<1>5. ASSUME NEW k \in Keys, DeleteCandidate(d, k)
      PROVE  Sound(dict') /\ UNCHANGED <<file, device>>
  <2>1. UNCHANGED <<file, device>> BY <1>5 DEF DeleteCandidate
  <2> QED BY <1>5, <2>1, DeleteCandidateSound
<1>6. ASSUME NEW pack \in Packs, Apply(d, pack)
      PROVE  Sound(dict') /\ UNCHANGED <<file, device>>
  <2>1. UNCHANGED <<file, device>> BY <1>6 DEF Apply
  <2> QED BY <1>6, <2>1, ApplySound
<1>7. ASSUME NEW pack \in Packs, Import(pack)
      PROVE  Sound(dict') /\ UNCHANGED <<file, device>>
  <2>1. UNCHANGED <<file, device>> BY <1>7 DEF Import
  <2> QED BY <1>7, <2>1, ImportSound
<1>8. ASSUME NEW k \in Keys, NEW new \in Partial(Weights), \A x, y \in DOMAIN new : x = y,
             Manage(d, k, new)
      PROVE  Sound(dict') /\ UNCHANGED <<file, device>>
  <2>1. /\ \A x \in DOMAIN new : x = k \/ ~Found(x)
        /\ dict' = Managed(k, new) /\ UNCHANGED <<file, device>>
    BY <1>8 DEF Manage
  <2>2. Sound(Managed(k, new)) BY <1>8, <2>1, ManagedSound
  <2> QED BY <2>1, <2>2
<1>9. ASSUME NEW k \in Keys, Manage(d, k, None)
      PROVE  Sound(dict') /\ UNCHANGED <<file, device>>
  <2>1. None \in Partial(Weights) /\ \A x, y \in DOMAIN None : x = y BY NonePartial
  <2> QED BY <1>8, <1>9, <2>1
<1>10. ASSUME NEW k \in Keys, NEW new \in Keys, NEW w \in Weights, Manage(d, k, Single(new, w))
       PROVE  Sound(dict') /\ UNCHANGED <<file, device>>
  <2>1. Single(new, w) \in Partial(Weights) /\ \A x, y \in DOMAIN Single(new, w) : x = y
    BY SingleWeight
  <2> QED BY <1>8, <1>10, <2>1
<1>11. ASSUME NEW k \in Keys, NEW p \in Positions \cup {0}, SetPosition(d, k, p)
       PROVE  Sound(dict') /\ UNCHANGED <<file, device>>
  <2>1. UNCHANGED <<file, device>> BY <1>11 DEF SetPosition
  <2> QED BY <1>11, <2>1, SetPositionSound
<1>12. ASSUME NEW k \in Keys, NEW count \in Counts \cup {0}, NEW weights \in Partial(Weights),
              Rank(d, k, count, weights)
       PROVE  Sound(dict') /\ UNCHANGED <<file, device>>
  <2>1. UNCHANGED <<file, device>> BY <1>12 DEF Rank
  <2> QED BY <1>12, <2>1, RankSound
<1>13. ASSUME Restore(d) PROVE Sound(dict') /\ UNCHANGED <<file, device>>
  <2>1. UNCHANGED <<file, device>> BY <1>13 DEF Restore
  <2> QED BY <1>13, <2>1, RestoreSound
<1> QED
  BY <1>2, <1>3, <1>4, <1>5, <1>6, <1>7, <1>9, <1>10, <1>11, <1>12, <1>13 DEF Edit

----------------------------------------------------------------------------
(* The copies of the devices, and the theorems.                            *)

\* A device that takes the next change is led on from where that change leads.
LEMMA PageFollows ==
  ASSUME Good(dict), NEW x \in [at: 0..dict.revision, tables: Tables], Follows(dict, x),
         NEW i \in DOMAIN dict.log, dict.log[i].revision > x.at,
         \A j \in 1..i - 1 : dict.log[j].revision <= x.at
  PROVE  LET y == [at |-> dict.log[i].revision, tables |-> Followed(x.tables, dict.log[i])]
         IN  y \in [at: 0..dict.revision, tables: Tables] /\ Follows(dict, y)
<1> DEFINE n == Len(dict.log)
           c == dict.log[i]
           y == [at |-> c.revision, tables |-> Followed(x.tables, c)]
<1>1. /\ dict.revision \in Nat /\ dict.log \in Seq(Change) /\ LogOK(dict)
      /\ n \in Nat /\ i \in 1..n /\ x.at \in Nat /\ x.tables \in Tables
  BY DEF Good, Rows
<1>2. \A j \in 1..n : /\ dict.log[j].revision \in 1..dict.revision
                      /\ \A h \in 1..j - 1 : dict.log[h].revision < dict.log[j].revision
  BY <1>1 DEF LogOK
<1>3. PICK m \in 0..n, H \in [0..n -> Tables] :
        /\ H[m] = x.tables /\ H[n] = dict.tables
        /\ \A j \in 1..m : dict.log[j].revision <= x.at
        /\ \A j \in m + 1..n :
             dict.log[j].revision > x.at /\ H[j] = Followed(H[j - 1], dict.log[j])
  BY DEF Follows
<1>z. n \in Nat /\ i \in 1..n /\ x.at \in Nat BY <1>1
<1>r. \A j \in 1..n : dict.log[j].revision \in Nat BY <1>1, <1>2
<1> HIDE DEF n
<1>4. i = m + 1
  <2>1. ~(i <= m)
    <3> SUFFICES ASSUME i <= m PROVE FALSE OBVIOUS
    <3>1. i \in 1..m BY <1>z
    <3>2. dict.log[i].revision <= x.at BY <1>3, <3>1
    <3>3. dict.log[i].revision \in Nat BY <1>r, <1>z
    <3> QED BY <1>z, <3>2, <3>3
  <2>2. ~(m + 1 < i)
    <3> SUFFICES ASSUME m + 1 < i PROVE FALSE OBVIOUS
    <3>1. m + 1 \in 1..i - 1 /\ m + 1 \in m + 1..n /\ m + 1 \in 1..n BY <1>z
    <3>2. dict.log[m + 1].revision <= x.at /\ dict.log[m + 1].revision > x.at BY <1>3, <3>1
    <3>3. dict.log[m + 1].revision \in Nat BY <1>r, <3>1
    <3> QED BY <1>z, <3>2, <3>3
  <2> QED BY <1>z, <2>1, <2>2
<1>5. H[i] = Followed(x.tables, c)
  <2>1. i \in m + 1..n /\ i - 1 = m BY <1>z, <1>4
  <2>2. H[i] = Followed(H[i - 1], dict.log[i]) BY <1>3, <2>1
  <2> QED BY <1>3, <2>1, <2>2
<1>6. c.revision \in 1..dict.revision /\ c \in Change
  <2>1. c.revision \in 1..dict.revision BY <1>2, <1>z
  <2>2. c \in Change BY <1>1
  <2> QED BY <2>1, <2>2
<1>7. \A j \in 1..i : dict.log[j].revision <= c.revision
  <2> SUFFICES ASSUME NEW j \in 1..i PROVE dict.log[j].revision <= c.revision OBVIOUS
  <2>1. CASE j = i BY <1>r, <1>z, <2>1
  <2>2. CASE j # i
    <3>1. j \in 1..i - 1 /\ j \in 1..n BY <1>z, <2>2
    <3>2. dict.log[j].revision < dict.log[i].revision BY <1>2, <1>z, <3>1
    <3> QED BY <1>r, <1>z, <3>1, <3>2
  <2> QED BY <2>1, <2>2
<1>8. \A j \in i + 1..n : dict.log[j].revision > c.revision
                          /\ H[j] = Followed(H[j - 1], dict.log[j])
  <2> SUFFICES ASSUME NEW j \in i + 1..n
               PROVE  /\ dict.log[j].revision > c.revision
                      /\ H[j] = Followed(H[j - 1], dict.log[j])
    OBVIOUS
  <2>1. j \in m + 1..n /\ i \in 1..j - 1 /\ j \in 1..n BY <1>z, <1>4
  <2>2. dict.log[i].revision < dict.log[j].revision BY <1>2, <2>1
  <2>3. dict.log[j].revision > c.revision BY <1>r, <1>z, <2>1, <2>2
  <2>4. H[j] = Followed(H[j - 1], dict.log[j]) BY <1>3, <2>1
  <2> QED BY <2>3, <2>4
<1>9. y.at = c.revision /\ y.tables = H[i] BY <1>5
<1>10. y \in [at: 0..dict.revision, tables: Tables]
  <2>1. c.revision \in 0..dict.revision BY <1>1, <1>6
  <2>2. Followed(x.tables, c) \in Tables BY <1>1, <1>6, FollowedFacts
  <2> QED BY <2>1, <2>2
<1> HIDE DEF c, y
<1>11. Follows(dict, y)
  <2>1. i \in 0..n BY <1>z
  <2>2. H[i] = y.tables /\ H[n] = dict.tables BY <1>3, <1>9
  <2>3. \A j \in 1..i : dict.log[j].revision <= y.at BY <1>7, <1>9
  <2>4. \A j \in i + 1..n : dict.log[j].revision > y.at /\ H[j] = Followed(H[j - 1], dict.log[j])
    BY <1>8, <1>9
  <2> QED BY <2>1, <2>2, <2>3, <2>4 DEF Follows, n
<1> QED BY <1>10, <1>11 DEF y, c

\* A copy of everything needs no change.
LEMMA WholeFollows ==
  ASSUME Good(dict)
  PROVE  LET y == [at |-> dict.revision, tables |-> dict.tables]
         IN  y \in [at: 0..dict.revision, tables: Tables] /\ Follows(dict, y)
<1> DEFINE n == Len(dict.log)
           H == [i \in 0..n |-> dict.tables]
           y == [at |-> dict.revision, tables |-> dict.tables]
<1>1. /\ dict.revision \in Nat /\ dict.tables \in Tables /\ n \in Nat /\ LogOK(dict)
  BY DEF Good, Rows
<1>2. \A j \in 1..n : dict.log[j].revision <= dict.revision BY <1>1 DEF LogOK
<1> HIDE DEF n
<1>3. n \in 0..n /\ H \in [0..n -> Tables] /\ H[n] = dict.tables BY <1>1
<1>4. \A j \in n + 1..n : FALSE BY <1>1
<1>5. y \in [at: 0..dict.revision, tables: Tables] /\ y.at = dict.revision
      /\ y.tables = dict.tables
  BY <1>1
<1> HIDE DEF H, y
<1>6. Follows(dict, y)
  <2>1. H[n] = y.tables /\ H[n] = dict.tables /\ \A j \in 1..n : dict.log[j].revision <= y.at
    BY <1>2, <1>3, <1>5
  <2> QED BY <1>3, <1>4, <2>1 DEF Follows, n
<1> QED BY <1>5, <1>6 DEF y

LEMMA InitIInv == Init => IInv
<1> SUFFICES ASSUME Init PROVE IInv OBVIOUS
<1>1. /\ dict = [revision |-> 0, entries |-> NoEntries, tables |-> Blank, log |-> <<>>]
      /\ file = [entries |-> NoEntries, tables |-> Blank]
      /\ device = [d \in Devices |-> [at |-> 0, tables |-> Blank]]
  BY DEF Init
<1>2. dict.revision = 0 /\ dict.entries = NoEntries /\ dict.tables = Blank /\ dict.log = <<>>
  BY <1>1
<1>3. NoEntries \in [Keys -> Entry] /\ Blank \in Tables /\ \A k \in Keys : NoEntries[k] = NoEntry
  BY RowTypes DEF NoEntries
<1>4. Len(dict.log) = 0 /\ dict.log \in Seq(Change) BY <1>2
<1>5. dict \in Rows
  <2>1. <<>> \in Seq(Change) OBVIOUS
  <2> QED BY <1>1, <1>3, <2>1 DEF Rows
<1>6. LogOK(dict) BY <1>4 DEF LogOK
<1>7. \A k \in Keys : dict.entries[k] = NoEntry /\ dict.tables.overlay[k] = Absent
                      /\ dict.tables.position[k] = 0
  BY <1>2, <1>3 DEF Blank
<1>8. EntriesOK(dict)
  <2>1. Absent.state # "own" BY DEF Absent
  <2> QED BY <1>7, <2>1 DEF EntriesOK
<1>9. PlacesOK(dict) BY <1>7 DEF PlacesOK
<1>10. Fresh.at = 0 /\ Fresh.tables = Blank /\ Fresh = [at |-> 0, tables |-> Blank] BY DEF Fresh
<1>11. Follows(dict, Fresh)
  <2> DEFINE H == [i \in 0..0 |-> Blank]
  <2>1. H \in [0..0 -> Tables] /\ H[0] = Blank BY <1>3
  <2>2. 0 \in 0..0 /\ \A i \in 1..0 : FALSE OBVIOUS
  <2>3. \A i \in 0 + 1..0 : FALSE OBVIOUS
  <2> HIDE DEF H
  <2> QED BY <1>2, <1>4, <1>10, <2>1, <2>2, <2>3 DEF Follows
<1>12. Good(dict) BY <1>5, <1>6, <1>8, <1>9, <1>11 DEF Good
<1>13. Cardinality(Personal(dict.entries)) <= MaxEntries
  <2>1. Personal(dict.entries) = {} BY <1>7 DEF Personal
  <2>2. Cardinality({}) = 0 BY FS_EmptySet
  <2>3. MaxEntries \in Nat BY DictionaryAssumption
  <2> QED BY <2>1, <2>2, <2>3
<1>14. file \in Files BY <1>1, <1>3 DEF Files
<1>15. \A d \in Devices : device[d] = Fresh BY <1>1, <1>10
<1>16. device \in [Devices -> [at: 0..dict.revision, tables: Tables]]
  <2>1. Fresh \in [at: 0..dict.revision, tables: Tables] BY <1>2, <1>3, <1>10
  <2>2. device = [d \in Devices |-> Fresh] BY <1>1, <1>10
  <2> QED BY <2>1, <2>2
<1> QED BY <1>11, <1>12, <1>13, <1>14, <1>15, <1>16 DEF IInv

\* A device that has a new copy, which leads to the tables.
LEMMA DeviceStep ==
  ASSUME IInv, NEW d \in Devices, NEW y \in [at: 0..dict.revision, tables: Tables],
         Follows(dict, y), device' = [device EXCEPT ![d] = y], UNCHANGED <<dict, file>>
  PROVE  IInv'
<1>1. /\ Good(dict) /\ Cardinality(Personal(dict.entries)) <= MaxEntries /\ file \in Files
      /\ device \in [Devices -> [at: 0..dict.revision, tables: Tables]]
      /\ \A e \in Devices : Follows(dict, device[e])
  BY DEF IInv
<1>2. device' \in [Devices -> [at: 0..dict.revision, tables: Tables]] BY <1>1
<1>3. \A e \in Devices : device'[e] = IF e = d THEN y ELSE device[e] BY <1>1
<1>4. \A e \in Devices : Follows(dict, device'[e])
  <2> SUFFICES ASSUME NEW e \in Devices PROVE Follows(dict, device'[e]) OBVIOUS
  <2>1. CASE e = d BY <1>3, <2>1
  <2>2. CASE e # d BY <1>1, <1>3, <2>2
  <2> QED BY <2>1, <2>2
<1>5. dict' = dict /\ file' = file OBVIOUS
<1>6. /\ Good(dict') /\ Cardinality(Personal(dict'.entries)) <= MaxEntries /\ file' \in Files
      /\ device' \in [Devices -> [at: 0..dict'.revision, tables: Tables]]
      /\ \A e \in Devices : Follows(dict', device'[e])
  BY <1>1, <1>2, <1>4, <1>5
<1> QED BY <1>6 DEF IInv

\* Sound rows keep every copy on its way.
LEMMA SoundStep ==
  ASSUME IInv, Sound(dict'), UNCHANGED <<file, device>>
  PROVE  IInv'
<1>1. /\ Good(dict) /\ file \in Files
      /\ device \in [Devices -> [at: 0..dict.revision, tables: Tables]]
      /\ \A e \in Devices : Follows(dict, device[e])
  BY DEF IInv
<1>2. Good(dict') /\ Later(dict, dict') /\ Cardinality(Personal(dict'.entries)) <= MaxEntries
  BY DEF Sound
<1>3. dict.revision \in Nat /\ dict'.revision \in Nat /\ dict.revision <= dict'.revision
  BY <1>1, <1>2 DEF Good, Rows, Later
<1>4. \A e \in Devices : device[e] \in [at: 0..dict.revision, tables: Tables] BY <1>1
<1>5. \A e \in Devices : Follows(dict', device[e]) BY <1>1, <1>2, <1>4 DEF Later
<1>6. device \in [Devices -> [at: 0..dict'.revision, tables: Tables]]
  <2>1. 0..dict.revision \subseteq 0..dict'.revision BY <1>3
  <2>2. \A e \in Devices : device[e] \in [at: 0..dict'.revision, tables: Tables]
    BY <1>4, <2>1
  <2> QED BY <1>1, <2>2
<1>7. file' = file /\ device' = device OBVIOUS
<1>8. /\ Good(dict') /\ Cardinality(Personal(dict'.entries)) <= MaxEntries /\ file' \in Files
      /\ device' \in [Devices -> [at: 0..dict'.revision, tables: Tables]]
      /\ \A e \in Devices : Follows(dict', device'[e])
  BY <1>1, <1>2, <1>5, <1>6, <1>7
<1> QED BY <1>8 DEF IInv

LEMMA NextIInv == IInv /\ [Next]_vars => IInv' /\ (dict' = dict \/ Sound(dict'))
<1> SUFFICES ASSUME IInv, [Next]_vars PROVE IInv' /\ (dict' = dict \/ Sound(dict'))
  OBVIOUS
<1>1. Good(dict) BY DEF IInv
<1>2. CASE Export
  <2>1. UNCHANGED <<dict, device>> /\ file' = [entries |-> dict.entries, tables |-> dict.tables]
    BY <1>2 DEF Export
  <2>2. dict.entries \in [Keys -> Entry] /\ dict.tables \in Tables BY <1>1 DEF Good, Rows
  <2>3. file' \in Files BY <2>1, <2>2 DEF Files
  <2>4. /\ Good(dict) /\ Cardinality(Personal(dict.entries)) <= MaxEntries
        /\ device \in [Devices -> [at: 0..dict.revision, tables: Tables]]
        /\ \A e \in Devices : Follows(dict, device[e])
    BY DEF IInv
  <2>5. dict' = dict /\ device' = device BY <2>1
  <2>6. /\ Good(dict') /\ Cardinality(Personal(dict'.entries)) <= MaxEntries
        /\ device' \in [Devices -> [at: 0..dict'.revision, tables: Tables]]
        /\ \A e \in Devices : Follows(dict', device'[e])
    BY <2>4, <2>5
  <2> QED BY <2>3, <2>5, <2>6 DEF IInv
<1>3. ASSUME NEW d \in Devices, Edit(d) PROVE IInv' /\ Sound(dict')
  <2>1. Sound(dict') /\ UNCHANGED <<file, device>> BY <1>3, EditSound
  <2> QED BY <2>1, SoundStep
<1>4. ASSUME NEW d \in Devices, FullSync(d) PROVE IInv' /\ dict' = dict
  <2> DEFINE y == [at |-> dict.revision, tables |-> dict.tables]
  <2>1. y \in [at: 0..dict.revision, tables: Tables] /\ Follows(dict, y)
    BY <1>1, WholeFollows
  <2>2. device' = [device EXCEPT ![d] = y] /\ UNCHANGED <<dict, file>> BY <1>4 DEF FullSync
  <2> HIDE DEF y
  <2>3. IInv' BY <2>1, <2>2, DeviceStep
  <2> QED BY <2>2, <2>3
<1>5. ASSUME NEW d \in Devices, Page(d) PROVE IInv' /\ dict' = dict
  <2>1. PICK i \in DOMAIN dict.log :
          /\ dict.log[i].revision > device[d].at
          /\ \A j \in 1..i - 1 : dict.log[j].revision <= device[d].at
          /\ device' = [device EXCEPT ![d] = [at |-> dict.log[i].revision,
                                              tables |-> Followed(@.tables, dict.log[i])]]
          /\ UNCHANGED <<dict, file>>
    BY <1>5 DEF Page
  <2>2. device[d] \in [at: 0..dict.revision, tables: Tables] /\ Follows(dict, device[d])
        /\ device \in [Devices -> [at: 0..dict.revision, tables: Tables]]
    BY DEF IInv
  <2> DEFINE y == [at |-> dict.log[i].revision, tables |-> Followed(device[d].tables, dict.log[i])]
  <2>3. y \in [at: 0..dict.revision, tables: Tables] /\ Follows(dict, y)
    BY <1>1, <2>1, <2>2, PageFollows
  <2>4. device' = [device EXCEPT ![d] = y] BY <2>1, <2>2
  <2>5. UNCHANGED <<dict, file>> BY <2>1
  <2> HIDE DEF y
  <2>6. IInv' BY <2>3, <2>4, <2>5, DeviceStep
  <2> QED BY <2>5, <2>6
<1>6. CASE UNCHANGED vars
  <2>1. dict' = dict /\ file' = file /\ device' = device BY <1>6 DEF vars
  <2>2. /\ Good(dict) /\ Cardinality(Personal(dict.entries)) <= MaxEntries /\ file \in Files
        /\ device \in [Devices -> [at: 0..dict.revision, tables: Tables]]
        /\ \A e \in Devices : Follows(dict, device[e])
    BY DEF IInv
  <2>3. /\ Good(dict') /\ Cardinality(Personal(dict'.entries)) <= MaxEntries /\ file' \in Files
        /\ device' \in [Devices -> [at: 0..dict'.revision, tables: Tables]]
        /\ \A e \in Devices : Follows(dict', device'[e])
    BY <2>1, <2>2
  <2> QED BY <2>1, <2>3 DEF IInv
<1> QED BY <1>2, <1>3, <1>4, <1>5, <1>6 DEF Next

LEMMA SpecIInv == Spec => []IInv
<1>1. IInv /\ [Next]_vars => IInv' BY NextIInv
<1> QED BY <1>1, InitIInv, PTL DEF Spec

\* Whatever is edited, merged, imported, ranked, moved or restored, the overlay is what
\* the change log says and the five tables are well-formed, for any keys, packs and devices.
THEOREM OverlayAlwaysFollowsLog == Spec => []OverlayFollowsLog
<1>1. IInv => OverlayFollowsLog
  <2> SUFFICES ASSUME IInv PROVE OverlayFollowsLog OBVIOUS
  <2>1. Good(dict) /\ file \in Files
        /\ device \in [Devices -> [at: 0..dict.revision, tables: Tables]]
    BY DEF IInv
  <2>2. OverlayIsProjection BY <2>1, GoodProjects
  <2>3. dict \in Rows /\ LogOK(dict) BY <2>1 DEF Good
  <2>4. /\ dict.revision \in Nat /\ dict.entries \in [Keys -> Entry] /\ dict.tables \in Tables
        /\ dict.log \in Seq(Change) /\ DOMAIN dict.log = 1..Len(dict.log)
    BY <2>3 DEF Rows
  <2>5. ASSUME NEW i \in DOMAIN dict.log
        PROVE  /\ dict.log[i] \in Change /\ dict.log[i].revision <= dict.revision
               /\ \A j \in 1..i - 1 : dict.log[j].revision < dict.log[i].revision
    <3>1. dict.log[i] \in Change BY <2>4
    <3>2. /\ dict.log[i].revision \in 1..dict.revision
          /\ \A j \in 1..i - 1 : dict.log[j].revision < dict.log[i].revision
      BY <2>3, <2>4 DEF LogOK
    <3>3. dict.log[i].revision <= dict.revision BY <2>4, <3>2
    <3> QED BY <3>1, <3>2, <3>3
  <2>6. TypeOK BY <2>1, <2>4, <2>5 DEF TypeOK, Files
  <2> QED BY <2>2, <2>6 DEF OverlayFollowsLog
<1> QED BY <1>1, SpecIInv, PTL

\* A device that has seen every change has the server's tables, wherever its snapshot
\* fell among the edits, the restores and its own pages of the log.
THEOREM DevicesAlwaysAgree == Spec => []CaughtUpDevicesAgree
<1>1. IInv => CaughtUpDevicesAgree
  <2> SUFFICES ASSUME IInv, NEW d \in Devices,
                      \A i \in DOMAIN dict.log : dict.log[i].revision <= device[d].at
               PROVE  device[d].tables = dict.tables
    BY DEF CaughtUpDevicesAgree
  <2> DEFINE n == Len(dict.log)
  <2>1. Good(dict) /\ Follows(dict, device[d]) /\ device[d].at \in 0..dict.revision
    BY DEF IInv
  <2>2. dict.revision \in Nat /\ dict.log \in Seq(Change) /\ LogOK(dict) /\ n \in Nat
        /\ DOMAIN dict.log = 1..n
    BY <2>1 DEF Good, Rows
  <2>3. PICK m \in 0..n, H \in [0..n -> Tables] :
          /\ H[m] = device[d].tables /\ H[n] = dict.tables
          /\ \A i \in m + 1..n : dict.log[i].revision > device[d].at
    BY <2>1 DEF Follows
  <2>4. dict.log[n].revision \in Nat \/ n = 0 BY <2>2 DEF LogOK
  <2>5. m = n
    <3> HIDE DEF n
    <3> SUFFICES ASSUME m # n PROVE FALSE OBVIOUS
    <3>1. n \in m + 1..n /\ n \in 1..n BY <2>2
    <3>2. dict.log[n].revision > device[d].at /\ dict.log[n].revision <= device[d].at
      BY <2>2, <2>3, <3>1
    <3>3. dict.log[n].revision \in Nat /\ device[d].at \in Nat BY <2>1, <2>4, <3>1
    <3> QED BY <3>2, <3>3
  <2> QED BY <2>3, <2>5
<1> QED BY <1>1, SpecIInv, PTL

\* A snapshot taken after any edits can be restored: what EditDictionary, the managed
\* words, the packs and the ranking write into the entries and the overlay agree.
THEOREM ExportAlwaysRestorable == Spec => []ExportIsRestorable
<1>1. IInv => ExportIsRestorable
  <2> SUFFICES ASSUME IInv PROVE ExportIsRestorable OBVIOUS
  <2> DEFINE f == [entries |-> dict.entries, tables |-> dict.tables]
  <2>1. /\ Cardinality(Personal(dict.entries)) <= MaxEntries
        /\ EntriesOK(dict) /\ PlacesOK(dict)
    BY DEF IInv, Good
  <2>2. f.entries = dict.entries /\ f.tables = dict.tables OBVIOUS
  <2> HIDE DEF f
  <2>3. Cardinality(Personal(f.entries)) <= MaxEntries BY <2>1, <2>2
  <2>4. \A k, l \in Keys : f.tables.position[k] = f.tables.position[l]
                           /\ f.tables.position[k] > 0 => k = l
    BY <2>1, <2>2 DEF PlacesOK
  <2>5. \A k \in Keys : IF f.entries[k] = NoEntry THEN f.tables.overlay[k].state # "own"
                        ELSE f.tables.overlay[k] = LiveRow(TRUE, f.entries[k].weight)
    BY <2>1, <2>2 DEF EntriesOK
  <2>6. Restorable(f) BY <2>3, <2>4, <2>5 DEF Restorable
  <2> QED BY <2>6 DEF ExportIsRestorable, f
<1> QED BY <1>1, SpecIInv, PTL

\* The id and revision an edit must give stand for one content: no edit, and no restore,
\* leaves an entry that another content had under them.
THEOREM RevisionAlwaysTellsContent == Spec => RevisionTellsContent
<1> DEFINE Tell == \A k, l \in Keys :
                     /\ dict.entries[k] # NoEntry
                     /\ dict'.entries[l].id = dict.entries[k].id
                     /\ dict'.entries[l].revision = dict.entries[k].revision
                     => k = l /\ dict'.entries[l] = dict.entries[k]
<1>1. IInv /\ [Next]_vars => [Tell]_vars
  <2> SUFFICES ASSUME IInv, [Next]_vars, NEW k \in Keys, NEW l \in Keys,
                      dict.entries[k] # NoEntry,
                      dict'.entries[l].id = dict.entries[k].id,
                      dict'.entries[l].revision = dict.entries[k].revision
               PROVE  k = l /\ dict'.entries[l] = dict.entries[k]
    OBVIOUS
  <2>1. dict \in Rows /\ EntriesOK(dict) BY DEF IInv, Good
  <2>2. /\ dict.entries[k].id \in 1..dict.revision /\ dict.entries[k].revision \in 1..dict.revision
        /\ \A x \in Keys : dict.entries[x].id = dict.entries[k].id => x = k
    BY <2>1 DEF EntriesOK
  <2>3. dict.revision \in Nat BY <2>1 DEF Rows
  <2>4. dict'.entries[l] = dict.entries[l]
    <3>1. CASE dict' = dict BY <3>1
    <3>2. CASE Sound(dict')
      <4>1. \/ dict'.entries[l] = dict.entries[l] \/ dict'.entries[l] = NoEntry
            \/ dict'.entries[l].revision > dict.revision
        BY <3>2 DEF Sound, Later
      <4>2. dict'.entries[l] # NoEntry
        <5>1. NoEntry.id = 0 BY DEF NoEntry
        <5> QED BY <2>2, <2>3, <5>1
      <4>3. ~(dict'.entries[l].revision > dict.revision) BY <2>2, <2>3
      <4> QED BY <4>1, <4>2, <4>3
    <3> QED BY <3>1, <3>2, NextIInv
  <2> QED BY <2>2, <2>4
<1> QED BY <1>1, SpecIInv, PTL DEF Spec, RevisionTellsContent
=============================================================================
