--------------------------- MODULE Catalog_proof ---------------------------
(***************************************************************************)
(* Theorems about Catalog, for every set of names, every directory of      *)
(* files, every set of topics, any number of sessions and of requests.     *)
(***************************************************************************)
EXTENDS Catalog, FiniteSetTheorems, WellFoundedInduction, TLAPS

USE DEF vars

-----------------------------------------------------------------------------
(* Numbers, finite sets, and sequences put together. *)

\* A set of numbers that is not empty has a least one.
LEMMA LeastNumber ==
  ASSUME NEW T, T \subseteq Nat, T # {}
  PROVE  \E m \in T : \A k \in T : m <= k
<1> DEFINE R == OpToRel(<, Nat)
<1>1. IsWellFoundedOn(R, Nat)
  BY NatLessThanWellFounded, Zenon
<1>2. R = {ss \in Nat \X Nat : ss[1] < ss[2]}
  BY Zenon DEF OpToRel
<1> HIDE DEF R
<1>3. PICK m \in T : \A k \in T : <<k, m>> \notin R
  BY <1>1, WFMin
<1>4. ASSUME NEW k \in T PROVE m <= k
  <2>1. <<k, m>> \in Nat \X Nat /\ <<k, m>>[1] = k /\ <<k, m>>[2] = m
    OBVIOUS
  <2>2. ~ (k < m)
    BY <1>2, <1>3, <2>1
  <2> QED
    BY <2>2
<1> QED
  BY <1>4

\* Induction, for a property that is stated as a set of numbers.
LEMMA NumberInduction ==
  ASSUME NEW S, 0 \in S, \A n \in Nat : n \in S => n + 1 \in S
  PROVE  \A n \in Nat : n \in S
<1> SUFFICES ASSUME NEW n \in Nat, n \notin S PROVE FALSE
  OBVIOUS
<1> DEFINE T == {k \in Nat : k \notin S}
<1>1. T \subseteq Nat /\ T # {}
  OBVIOUS
<1> HIDE DEF T
<1>2. PICK m \in T : \A k \in T : m <= k
  BY <1>1, LeastNumber
<1>3. m \in Nat /\ m \notin S
  BY <1>2 DEF T
<1>4. m # 0 /\ m - 1 \in Nat /\ m - 1 \notin S
  BY <1>3
<1>5. m - 1 \in T
  BY <1>4 DEF T
<1> QED
  BY <1>2, <1>3, <1>5

\* A property that some places of a sequence have holds at a last one.
LEMMA LastPlace ==
  ASSUME NEW n \in Nat, NEW T, T \subseteq 1 .. n, T # {}
  PROVE  \E i \in T : \A j \in T : j <= i
<1> DEFINE D == {m \in Nat : \E k \in T : m = n - k}
<1>1. D \subseteq Nat /\ D # {}
  <2>1. PICK k \in T : TRUE
    OBVIOUS
  <2>2. n - k \in Nat
    BY <2>1
  <2> QED
    BY <2>1, <2>2
<1> HIDE DEF D
<1>2. PICK m \in D : \A o \in D : m <= o
  BY <1>1, LeastNumber
<1>3. PICK i \in T : m = n - i
  BY <1>2 DEF D
<1>4. ASSUME NEW j \in T PROVE j <= i
  <2>1. n - j \in Nat /\ i \in Nat /\ j \in Nat
    BY <1>4
  <2>2. n - j \in D
    BY <1>4, <2>1 DEF D
  <2>3. n - i <= n - j
    BY <1>2, <1>3, <2>2
  <2> QED
    BY <2>1, <2>3
<1> QED
  BY <1>4

LEMMA Joined ==
  ASSUME NEW S, NEW s \in Seq(S), NEW t \in Seq(S)
  PROVE  /\ s \o t \in Seq(S) /\ DOMAIN (s \o t) = 1 .. Len(s) + Len(t)
         /\ \A i \in 1 .. Len(s) : i \in 1 .. Len(s) + Len(t) /\ (s \o t)[i] = s[i]
         /\ \A i \in 1 .. Len(t) : Len(s) + i \in 1 .. Len(s) + Len(t)
                                   /\ (s \o t)[Len(s) + i] = t[i]
         /\ \A i \in 1 .. Len(s) + Len(t) :
              i \in 1 .. Len(s) \/ \E j \in 1 .. Len(t) : i = Len(s) + j
<1>1. Len(s) \in Nat /\ Len(t) \in Nat
  OBVIOUS
<1>2. /\ s \o t \in Seq(S) /\ Len(s \o t) = Len(s) + Len(t)
      /\ \A i \in 1 .. Len(s) + Len(t) :
           (s \o t)[i] = IF i <= Len(s) THEN s[i] ELSE t[i - Len(s)]
  OBVIOUS
<1>3. DOMAIN (s \o t) = 1 .. Len(s) + Len(t)
  BY <1>2
<1>4. \A i \in 1 .. Len(t) : /\ Len(s) + i \in 1 .. Len(s) + Len(t)
                             /\ ~(Len(s) + i <= Len(s)) /\ (Len(s) + i) - Len(s) = i
  BY <1>1
<1>5. \A i \in 1 .. Len(s) : i \in 1 .. Len(s) + Len(t) /\ i <= Len(s)
  BY <1>1
<1>6. ASSUME NEW i \in 1 .. Len(s) + Len(t), i \notin 1 .. Len(s)
      PROVE  \E j \in 1 .. Len(t) : i = Len(s) + j
  <2>1. i - Len(s) \in 1 .. Len(t) /\ i = Len(s) + (i - Len(s))
    BY <1>1, <1>6
  <2> QED
    BY <2>1
<1> QED
  BY <1>2, <1>3, <1>4, <1>5, <1>6

\* The concatenation of a sequence of sequences: an induction over its length.
LEMMA FlattenIs ==
  ASSUME NEW S, NEW seqs \in Seq(Seq(S))
  PROVE  FlattenSeq(seqs) \in Seq(S)
<1> DEFINE N == Len(seqs)
           Is(f, m) == f = [i \in 1 .. m |->
                              IF i = 1 THEN seqs[i] ELSE f[i - 1] \o seqs[i]]
           flatten[i \in 1 .. N] == IF i = 1 THEN seqs[i] ELSE flatten[i - 1] \o seqs[i]
           M == {m \in Nat : \E f : Is(f, m + 1)}
<1>1. N \in Nat /\ DOMAIN seqs = 1 .. N /\ \A i \in 1 .. N : seqs[i] \in Seq(S)
  OBVIOUS
<1>2. CASE N = 0
  <2>1. FlattenSeq(seqs) = seqs /\ seqs = <<>>
    BY <1>2 DEF FlattenSeq
  <2> QED
    BY <2>1
<1>3. CASE N # 0
  <2>1. FlattenSeq(seqs) = flatten[N]
    BY <1>3 DEF FlattenSeq
  <2>2. flatten = CHOOSE f : Is(f, N)
    BY DEF flatten
  <2>3. 0 \in M
    <3>1. Is([i \in 1 .. 1 |-> seqs[1]], 0 + 1)
      OBVIOUS
    <3> HIDE DEF Is
    <3> QED
      BY <3>1
  <2>4. ASSUME NEW m \in Nat, m \in M PROVE m + 1 \in M
    <3>1. PICK f : Is(f, m + 1)
      BY <2>4
    <3> DEFINE g == [i \in 1 .. (m + 1) + 1 |->
                       IF i <= m + 1 THEN f[i] ELSE f[m + 1] \o seqs[i]]
               step(i) == IF i = 1 THEN seqs[i] ELSE g[i - 1] \o seqs[i]
    <3>2. ASSUME NEW i \in 1 .. (m + 1) + 1 PROVE g[i] = step(i)
      <4>1. CASE i <= m + 1
        <5>1. i \in 1 .. m + 1 /\ (i # 1 => i - 1 \in 1 .. (m + 1) + 1 /\ i - 1 <= m + 1)
          BY <4>1
        <5>2. i # 1 => g[i - 1] = f[i - 1]
          BY <5>1
        <5> QED
          BY <3>1, <4>1, <5>1, <5>2
      <4>2. CASE i = (m + 1) + 1
        <5>1. /\ ~(i <= m + 1) /\ i # 1 /\ i - 1 = m + 1 /\ m + 1 \in 1 .. (m + 1) + 1
              /\ m + 1 <= m + 1
          BY <4>2
        <5>2. g[m + 1] = f[m + 1] /\ g[i] = f[m + 1] \o seqs[i]
          BY <5>1
        <5> HIDE DEF g
        <5> QED
          BY <5>1, <5>2
      <4> QED
        BY <4>1, <4>2
    <3>3. Is(g, (m + 1) + 1)
      <4>1. g = [i \in 1 .. (m + 1) + 1 |-> g[i]]
        OBVIOUS
      <4> HIDE DEF g
      <4> QED
        BY <3>2, <4>1
    <3> HIDE DEF Is, g
    <3> QED
      BY <3>3
  <2> HIDE DEF M
  <2>5. \E f : Is(f, N)
    <3>1. N - 1 \in Nat /\ (N - 1) + 1 = N
      BY <1>1, <1>3
    <3>2. N - 1 \in M
      BY <2>3, <2>4, <3>1, NumberInduction
    <3> HIDE DEF Is, N
    <3>3. \E f : Is(f, (N - 1) + 1)
      BY <3>2 DEF M
    <3> QED
      BY <3>1, <3>3
  <2>6. Is(flatten, N)
    <3> HIDE DEF Is, flatten
    <3>1. Is(CHOOSE f : Is(f, N), N)
      BY <2>5, Zenon
    <3> QED
      BY <2>2, <3>1
  <2> HIDE DEF flatten
  <2> DEFINE T == {m \in Nat : m + 1 <= N => flatten[m + 1] \in Seq(S)}
  <2>7. 0 \in T
    <3>1. 1 \in 1 .. N
      BY <1>1, <1>3
    <3>2. flatten[1] = seqs[1]
      BY <2>6, <3>1
    <3> QED
      BY <1>1, <3>1, <3>2
  <2>8. ASSUME NEW m \in Nat, m \in T PROVE m + 1 \in T
    <3> SUFFICES ASSUME (m + 1) + 1 <= N PROVE flatten[(m + 1) + 1] \in Seq(S)
      OBVIOUS
    <3>1. (m + 1) + 1 \in 1 .. N /\ (m + 1) + 1 # 1 /\ ((m + 1) + 1) - 1 = m + 1 /\ m + 1 <= N
      BY <1>1
    <3>2. flatten[m + 1] \in Seq(S) /\ seqs[(m + 1) + 1] \in Seq(S)
      BY <1>1, <2>8, <3>1
    <3>3. flatten[(m + 1) + 1] = flatten[m + 1] \o seqs[(m + 1) + 1]
      BY <2>6, <3>1
    <3> QED
      BY <3>2, <3>3
  <2> HIDE DEF T
  <2>9. N - 1 \in T
    <3>1. N - 1 \in Nat
      BY <1>1, <1>3
    <3> QED
      BY <2>7, <2>8, <3>1, NumberInduction
  <2>10. flatten[N] \in Seq(S)
    <3>1. (N - 1) + 1 = N /\ N <= N
      BY <1>1
    <3> HIDE DEF N
    <3> QED
      BY <2>9, <3>1 DEF T
  <2> QED
    BY <2>1, <2>10
<1> QED
  BY <1>2, <1>3

\* A finite set is listed without gaps and without repetition.
LEMMA ListedSet ==
  ASSUME NEW T, IsFiniteSet(T)
  PROVE  /\ SetToSeq(T) \in Seq(T) /\ IsInjective(SetToSeq(T))
         /\ \A t \in T : \E i \in DOMAIN SetToSeq(T) : SetToSeq(T)[i] = t
<1> DEFINE D == 1 .. Cardinality(T)
           Lists(f) == f \in [D -> T] /\ IsInjective(f)
           list == SetToSeq(T)
<1>1. Cardinality(T) \in Nat /\ ExistsBijection(D, T)
  BY FS_CardinalityType
<1>2. PICK f : Lists(f)
  BY <1>1 DEF ExistsBijection, Bijection, Injection
<1>3. Lists(list)
  <2>1. list = CHOOSE g \in [D -> T] : IsInjective(g)
    BY DEF SetToSeq
  <2>2. \E g \in [D -> T] : IsInjective(g)
    BY <1>2
  <2> HIDE DEF D, list
  <2> QED
    BY <2>1, <2>2
<1> HIDE DEF list
<1>4. list \in Injection(D, T)
  BY <1>3 DEF Injection
<1>5. Cardinality(D) = Cardinality(T)
  BY <1>1, FS_Interval
<1>6. list \in Surjection(D, T)
  <2> HIDE DEF D
  <2> QED
    BY <1>4, <1>5, FS_Injection
<1>7. list \in Seq(T) /\ DOMAIN list = D
  BY <1>1, <1>3
<1> QED
  BY <1>3, <1>6, <1>7 DEF Surjection, list

-----------------------------------------------------------------------------
(* What the loaders, validate() and the syncs make of entries. *)

SoundEntries == [name : Names, settings : Sound]
SourceRows == [name : Names, settings : Settings, status : Statuses]
SubRows == [name : Names, settings : Settings, digest : Digests, status : Statuses]
Rows(kind) == IF kind = "source" THEN SourceRows ELSE SubRows

\* The entries of the files that load.
LEMMA LoadedIs ==
  ASSUME NEW files \in Seq(Seq(Entries)), NEW loaded,
         loaded = [i \in DOMAIN files |-> loaded[i]],
         \A i \in DOMAIN files : loaded[i] = files[i] \/ loaded[i] = <<>>
  PROVE  FlattenSeq(loaded) \in Seq(Entries)
<1>1. loaded \in Seq(Seq(Entries))
  <2>1. Len(files) \in Nat /\ DOMAIN files = 1 .. Len(files)
    OBVIOUS
  <2>2. ASSUME NEW i \in 1 .. Len(files) PROVE loaded[i] \in Seq(Entries)
    <3>1. files[i] \in Seq(Entries) /\ <<>> \in Seq(Entries)
      OBVIOUS
    <3>2. loaded[i] = files[i] \/ loaded[i] = <<>>
      BY <2>1
    <3> QED
      BY <3>1, <3>2
  <2>3. loaded \in [1 .. Len(files) -> Seq(Entries)]
    BY <2>1, <2>2
  <2> QED
    BY <2>1, <2>3
<1> QED
  BY <1>1, FlattenIs

LEMMA LoadSourcesIs ==
  ASSUME dirs["source"] \in Seq(Seq(Entries)) PROVE LoadSources \in Seq(Entries)
<1> DEFINE files == dirs["source"]
           loaded == [i \in DOMAIN files |->
                        IF SourceFileLoads(files[i]) THEN files[i] ELSE <<>>]
<1>1. /\ loaded = [i \in DOMAIN files |-> loaded[i]]
      /\ \A i \in DOMAIN files : loaded[i] = files[i] \/ loaded[i] = <<>>
  OBVIOUS
<1>2. LoadSources = FlattenSeq(loaded)
  BY DEF LoadSources
<1> HIDE DEF loaded
<1> QED
  BY <1>1, <1>2, LoadedIs

LEMMA LoadSubsIs ==
  ASSUME dirs["subscription"] \in Seq(Seq(Entries)) PROVE LoadSubs \in Seq(Entries)
<1> DEFINE files == dirs["subscription"]
           loaded == [i \in DOMAIN files |->
                        IF SubFileLoads(files[i]) THEN files[i] ELSE <<>>]
<1>1. /\ loaded = [i \in DOMAIN files |-> loaded[i]]
      /\ \A i \in DOMAIN files : loaded[i] = files[i] \/ loaded[i] = <<>>
  OBVIOUS
<1>2. LoadSubs = FlattenSeq(loaded)
  BY DEF LoadSubs
<1> HIDE DEF loaded
<1> QED
  BY <1>1, <1>2, LoadedIs

\* Only what validate() accepts is synced.
LEMMA ValidatedIs ==
  ASSUME NEW entries \in Seq(Entries) PROVE Validated(entries) \in Seq(SoundEntries)
<1> DEFINE kept == [i \in DOMAIN entries |->
                      IF entries[i].settings \in Sound THEN <<entries[i]>> ELSE <<>>]
<1>1. Len(entries) \in Nat /\ DOMAIN entries = 1 .. Len(entries)
  OBVIOUS
<1>2. ASSUME NEW i \in 1 .. Len(entries), entries[i].settings \in Sound
      PROVE  entries[i] \in SoundEntries
  <2>1. entries[i] \in Entries
    BY <1>1
  <2> QED
    BY <1>2, <2>1 DEF Entries, SoundEntries
<1>3. \A i \in 1 .. Len(entries) : kept[i] \in Seq(SoundEntries)
  <2> HIDE DEF SoundEntries, Entries, Sound
  <2> QED
    BY <1>1, <1>2
<1>4. kept \in Seq(Seq(SoundEntries))
  <2>1. kept \in [1 .. Len(entries) -> Seq(SoundEntries)]
    BY <1>1, <1>3
  <2> QED
    BY <1>1, <2>1
<1> HIDE DEF kept
<1>5. FlattenSeq(kept) \in Seq(SoundEntries)
  BY <1>4, FlattenIs
<1> QED
  BY <1>5 DEF Validated, kept

\* What is wanted of each name is the sound settings of one of the entries.
LEMMA WantedIs ==
  ASSUME NEW entries \in Seq(SoundEntries)
  PROVE  /\ DOMAIN Wanted(entries) = NamesOf(entries)
         /\ NamesOf(entries) \subseteq Names /\ IsFiniteSet(NamesOf(entries))
         /\ \A n \in NamesOf(entries) : Wanted(entries)[n] \in Sound
<1>1. Len(entries) \in Nat /\ DOMAIN entries = 1 .. Len(entries)
  OBVIOUS
<1>2. ASSUME NEW i \in 1 .. Len(entries)
      PROVE  entries[i].name \in Names /\ entries[i].settings \in Sound
  <2>1. entries[i] \in SoundEntries
    BY <1>1
  <2> QED
    BY <2>1 DEF SoundEntries
<1>3. DOMAIN Wanted(entries) = NamesOf(entries)
  BY DEF Wanted
<1>4. NamesOf(entries) \subseteq Names
  BY <1>1, <1>2 DEF NamesOf
<1>5. IsFiniteSet(NamesOf(entries))
  <2> DEFINE f == [i \in 1 .. Len(entries) |-> entries[i].name]
  <2>1. f \in Surjection(1 .. Len(entries), NamesOf(entries))
    BY <1>1 DEF Surjection, NamesOf
  <2>2. IsFiniteSet(1 .. Len(entries))
    BY <1>1, FS_Interval
  <2> HIDE DEF f
  <2> QED
    BY <2>1, <2>2, FS_Surjection
<1>6. ASSUME NEW n \in NamesOf(entries) PROVE Wanted(entries)[n] \in Sound
  <2> DEFINE last(i) == /\ entries[i].name = n
                        /\ \A j \in DOMAIN entries : entries[j].name = n => j <= i
             places == {i \in 1 .. Len(entries) : entries[i].name = n}
  <2>1. places \subseteq 1 .. Len(entries) /\ places # {}
    BY <1>1, <1>6 DEF NamesOf
  <2>2. \E i \in places : \A j \in places : j <= i
    <3> HIDE DEF places
    <3> QED
      BY <1>1, <2>1, LastPlace
  <2>3. \E i \in DOMAIN entries : last(i)
    BY <1>1, <2>2
  <2>4. Wanted(entries)[n] = entries[CHOOSE i \in DOMAIN entries : last(i)].settings
    BY <1>6 DEF Wanted
  <2> HIDE DEF last
  <2>5. (CHOOSE i \in DOMAIN entries : last(i)) \in DOMAIN entries
    BY <2>3
  <2> QED
    BY <1>1, <1>2, <2>4, <2>5
<1> QED
  BY <1>3, <1>4, <1>5, <1>6

-----------------------------------------------------------------------------
(* What a transaction writes into rows. *)

\* The columns of a table, but for the name, which no transaction changes.
ColumnNames(kind) ==
  IF kind = "source" THEN {"settings", "status"} ELSE {"settings", "digest", "status"}

ColumnsOK(kind, columns) ==
  /\ DOMAIN columns \subseteq ColumnNames(kind)
  /\ "settings" \in DOMAIN columns => columns["settings"] \in Settings
  /\ "digest" \in DOMAIN columns => columns["digest"] \in Digests
  /\ "status" \in DOMAIN columns => columns["status"] \in Statuses

\* A row that is written is a row, of the same name.
LEMMA WrittenIs ==
  ASSUME NEW kind \in Kinds, NEW row \in Rows(kind), NEW columns, ColumnsOK(kind, columns)
  PROVE  /\ Written(row, columns) \in Rows(kind)
         /\ Written(row, columns).name = row.name
         /\ "settings" \in DOMAIN columns => Written(row, columns).settings = columns["settings"]
         /\ "settings" \notin DOMAIN columns => Written(row, columns).settings = row.settings
         /\ "status" \in DOMAIN columns => Written(row, columns).status = columns["status"]
         /\ "status" \notin DOMAIN columns => Written(row, columns).status = row.status
<1> DEFINE w == Written(row, columns)
           value(f) == IF f \in DOMAIN columns THEN columns[f] ELSE row[f]
<1>1. w = [f \in DOMAIN row |-> value(f)]
  BY DEF Written
<1>2. CASE kind = "source"
  <2>1. row \in SourceRows
    BY <1>2 DEF Rows
  <2>2. DOMAIN row = {"name", "settings", "status"}
    BY <2>1 DEF SourceRows
  <2>3. w = [name |-> value("name"), settings |-> value("settings"), status |-> value("status")]
    BY <1>1, <2>2
  <2>4. /\ value("name") = row.name /\ row.name \in Names
        /\ value("settings") \in Settings /\ value("status") \in Statuses
    BY <1>2, <2>1 DEF ColumnsOK, ColumnNames, SourceRows
  <2> HIDE DEF w
  <2>5. w \in SourceRows
    BY <2>3, <2>4 DEF SourceRows
  <2> QED
    BY <1>2, <2>3, <2>4, <2>5 DEF Rows, w
<1>3. CASE kind = "subscription"
  <2>1. row \in SubRows
    BY <1>3 DEF Rows
  <2>2. DOMAIN row = {"name", "settings", "digest", "status"}
    BY <2>1 DEF SubRows
  <2>3. w = [name |-> value("name"), settings |-> value("settings"),
             digest |-> value("digest"), status |-> value("status")]
    BY <1>1, <2>2
  <2>4. /\ value("name") = row.name /\ row.name \in Names
        /\ value("settings") \in Settings /\ value("status") \in Statuses
        /\ value("digest") \in Digests
    BY <1>3, <2>1 DEF ColumnsOK, ColumnNames, SubRows
  <2> HIDE DEF w
  <2>5. w \in SubRows
    BY <2>3, <2>4 DEF SubRows
  <2> QED
    BY <1>3, <2>3, <2>4, <2>5 DEF Rows, w
<1> QED
  BY <1>2, <1>3 DEF Kinds

\* What is assigned is what the row holds afterwards.
LEMMA DirtyIs ==
  ASSUME NEW kind \in Kinds, NEW row \in Rows(kind), NEW columns, ColumnsOK(kind, columns)
  PROVE  /\ ColumnsOK(kind, Dirty(row, columns))
         /\ DOMAIN Dirty(row, columns) \subseteq DOMAIN columns
         /\ \A f \in DOMAIN columns : f \in DOMAIN row => Written(row, Dirty(row, columns))[f] = columns[f]
<1> DEFINE d == Dirty(row, columns)
<1>1. d = [f \in {g \in DOMAIN columns : columns[g] # row[g]} |-> columns[f]]
  BY DEF Dirty
<1>2. DOMAIN d \subseteq DOMAIN columns /\ \A f \in DOMAIN d : d[f] = columns[f]
  BY <1>1
<1>3. \A f \in DOMAIN columns : f \notin DOMAIN d => columns[f] = row[f]
  BY <1>1
<1> HIDE DEF d
<1>4. ColumnsOK(kind, d)
  BY <1>2 DEF ColumnsOK
<1>5. \A f \in DOMAIN columns : f \in DOMAIN row => Written(row, d)[f] = columns[f]
  BY <1>2, <1>3 DEF Written
<1> QED
  BY <1>2, <1>4, <1>5 DEF d

\* What a sync of a whole table assigns.
LEMMA SyncColumnsOK ==
  ASSUME NEW kind \in Kinds, NEW row \in Rows(kind), NEW settings \in Sound
  PROVE  /\ ColumnsOK(kind, SyncColumns(kind, row, settings))
         /\ ColumnsOK(kind, [status |-> "paused"])
<1>1. row.status \in Statuses
  BY DEF Rows, SourceRows, SubRows, Kinds
<1>2. settings \in Settings /\ "paused" \in Statuses /\ "active" \in Statuses /\ "code" \in Digests
  BY DEF Settings, Statuses, Digests
<1>3. CASE kind = "source"
  <2>1. SyncColumns(kind, row, settings) = [settings |-> settings, status |-> "active"]
    BY <1>3 DEF SyncColumns
  <2> QED
    BY <1>2, <1>3, <2>1 DEF ColumnsOK, ColumnNames
<1>4. CASE kind = "subscription"
  <2> DEFINE status == IF row.status = "paused" THEN "active" ELSE row.status
  <2>1. SyncColumns(kind, row, settings) = [settings |-> settings, digest |-> "code", status |-> status]
    BY <1>4 DEF SyncColumns
  <2>2. status \in Statuses
    BY <1>1, <1>2
  <2> HIDE DEF status
  <2> QED
    BY <1>2, <1>4, <2>1, <2>2 DEF ColumnsOK, ColumnNames
<1> QED
  BY <1>3, <1>4 DEF Kinds

-----------------------------------------------------------------------------
(* Transactions. *)

\* The columns an upsert may assign: never the status.
Plain(s) == \A i \in DOMAIN s.changes : DOMAIN s.changes[i] \subseteq {"settings"}

\* A sync of a whole table is the one that its SELECT calls for.
Whole(s) ==
  /\ s.read \in Seq(Rows(s.kind)) /\ s.todo = <<>>
  /\ \E pick \in Picks(s.read) :
       s.changes = SyncChanges(s.kind, s.read, Wanted(s.entries), pick)
  /\ DOMAIN s.adds = DOMAIN Wanted(s.entries) \ NamesOf(s.read)
  /\ \A n \in DOMAIN s.adds : s.adds[n] = Wanted(s.entries)[n]

WholeTable(s) == s.kind = "subscription" \/ s.op = "rollback"

IsTx(s) ==
  s = [op |-> s.op, kind |-> s.kind, label |-> s.label, entries |-> s.entries,
       refused |-> s.refused, todo |-> s.todo, read |-> s.read, changes |-> s.changes,
       adds |-> s.adds, sub |-> s.sub]

WritesOK(s) ==
  /\ s.kind \in Kinds
  /\ IsFiniteSet(DOMAIN s.adds)
  /\ \A n \in DOMAIN s.adds : n \in Names /\ s.adds[n] \in Sound
  /\ \A i \in DOMAIN s.changes : ColumnsOK(s.kind, s.changes[i])

TxOK(s) ==
  /\ IsTx(s) /\ WritesOK(s)
  /\ s.entries \in Seq(SoundEntries) /\ s.todo \in Seq(SoundEntries)
  /\ s.sub = NoTopic \/ s.sub \in [name : Names, settings : Settings]
  /\ WholeTable(s) => Whole(s)
  /\ ~ WholeTable(s) => Plain(s)

LEMMA IdleOK == TxOK(Idle)
<1>1. IsTx(Idle)
  BY DEF IsTx, Idle
<1>2. WritesOK(Idle)
  <2>1. DOMAIN Idle.adds = {} /\ DOMAIN Idle.changes = {} /\ Idle.kind = "source"
    BY DEF Idle
  <2> QED
    BY <2>1, FS_EmptySet DEF WritesOK, Kinds
<1>3. ~ WholeTable(Idle) /\ Plain(Idle)
  BY DEF WholeTable, Plain, Idle
<1> QED
  BY <1>1, <1>2, <1>3 DEF TxOK, Idle

\* A row that is inserted is a row.
LEMMA NewOK ==
  ASSUME NEW kind \in Kinds, NEW n \in Names, NEW settings \in Sound
  PROVE  New(kind, n, settings) \in Rows(kind) /\ New(kind, n, settings).name = n
         /\ New(kind, n, settings).settings = settings
         /\ New(kind, n, settings).status = "active"
BY DEF New, Source, Sub, Rows, SourceRows, SubRows, Kinds, Settings, Statuses, Digests

\* Where a commit leaves the rows: those that were there keep their places,
\* those inserted follow, one of each name.
LEMMA FlushedIs ==
  ASSUME NEW s, WritesOK(s), NEW rows \in Seq(Rows(s.kind))
  PROVE  LET out == Flushed(rows, s)
         IN  /\ out \in Seq(Rows(s.kind)) /\ DOMAIN rows \subseteq DOMAIN out
             /\ \A i \in DOMAIN rows :
                  out[i] = IF i \in DOMAIN s.changes THEN Written(rows[i], s.changes[i]) ELSE rows[i]
             /\ \A n \in DOMAIN s.adds :
                  \E i \in DOMAIN out \ DOMAIN rows : out[i] = New(s.kind, n, s.adds[n])
             /\ \A i \in DOMAIN out \ DOMAIN rows : out[i].name \in DOMAIN s.adds
             /\ \A i, j \in DOMAIN out \ DOMAIN rows : out[i].name = out[j].name => i = j
<1> DEFINE R == Rows(s.kind)
           kept == Updated(rows, s.changes)
           made == Inserted(s.kind, s.adds)
           names == SetToSeq(DOMAIN s.adds)
           out == Flushed(rows, s)
<1>1. out = kept \o made
  BY DEF Flushed
<1>2. rows \in Seq(R) /\ Len(rows) \in Nat /\ DOMAIN rows = 1 .. Len(rows)
      /\ \A i \in 1 .. Len(rows) : rows[i] \in R
  OBVIOUS
<1>3. \A i \in 1 .. Len(rows) :
        kept[i] = IF i \in DOMAIN s.changes THEN Written(rows[i], s.changes[i]) ELSE rows[i]
  BY <1>2 DEF Updated
<1>4. kept \in Seq(R) /\ Len(kept) = Len(rows)
  <2>1. ASSUME NEW i \in 1 .. Len(rows) PROVE kept[i] \in R
    BY <1>2, <1>3, WrittenIs DEF WritesOK
  <2>2. kept \in [1 .. Len(rows) -> R]
    BY <1>2, <2>1 DEF Updated
  <2> HIDE DEF kept, R
  <2> QED
    BY <1>2, <2>2
<1>5. /\ names \in Seq(DOMAIN s.adds) /\ IsInjective(names)
      /\ \A n \in DOMAIN s.adds : \E i \in DOMAIN names : names[i] = n
  BY ListedSet DEF WritesOK
<1> HIDE DEF names
<1>6. /\ Len(names) \in Nat /\ DOMAIN names = 1 .. Len(names)
      /\ \A i \in 1 .. Len(names) : names[i] \in DOMAIN s.adds
      /\ \A i, j \in 1 .. Len(names) : names[i] = names[j] => i = j
  BY <1>5 DEF IsInjective
<1>7. made = [i \in 1 .. Len(names) |-> New(s.kind, names[i], s.adds[names[i]])]
  BY <1>6 DEF Inserted, names
<1>8. ASSUME NEW i \in 1 .. Len(names) PROVE made[i] \in R /\ made[i].name = names[i]
  BY <1>6, <1>7, NewOK DEF WritesOK
<1>9. made \in Seq(R) /\ Len(made) = Len(names)
  <2>1. made \in [1 .. Len(names) -> R]
    BY <1>7, <1>8
  <2> HIDE DEF made, R
  <2> QED
    BY <1>6, <2>1
<1> HIDE DEF made, kept, out, R
<1>10. /\ out \in Seq(R) /\ DOMAIN out = 1 .. Len(rows) + Len(names)
       /\ \A i \in 1 .. Len(rows) : i \in DOMAIN out /\ out[i] = kept[i]
       /\ \A i \in 1 .. Len(names) : Len(rows) + i \in DOMAIN out /\ out[Len(rows) + i] = made[i]
       /\ \A i \in DOMAIN out :
            i \in 1 .. Len(rows) \/ \E j \in 1 .. Len(names) : i = Len(rows) + j
  <2>1. /\ kept \o made \in Seq(R) /\ DOMAIN (kept \o made) = 1 .. Len(kept) + Len(made)
        /\ \A i \in 1 .. Len(kept) : i \in 1 .. Len(kept) + Len(made)
                                     /\ (kept \o made)[i] = kept[i]
        /\ \A i \in 1 .. Len(made) : Len(kept) + i \in 1 .. Len(kept) + Len(made)
                                     /\ (kept \o made)[Len(kept) + i] = made[i]
        /\ \A i \in 1 .. Len(kept) + Len(made) :
             i \in 1 .. Len(kept) \/ \E j \in 1 .. Len(made) : i = Len(kept) + j
    BY <1>4, <1>9, Joined
  <2> QED
    BY <1>1, <1>4, <1>9, <2>1
<1>11. ASSUME NEW i \in DOMAIN out \ DOMAIN rows
       PROVE  \E j \in 1 .. Len(names) : i = Len(rows) + j /\ out[i].name = names[j]
  BY <1>2, <1>8, <1>10
<1>12. ASSUME NEW n \in DOMAIN s.adds
       PROVE  \E i \in DOMAIN out \ DOMAIN rows : out[i] = New(s.kind, n, s.adds[n])
  <2>1. PICK j \in 1 .. Len(names) : names[j] = n
    BY <1>5, <1>6
  <2>2. Len(rows) + j \in DOMAIN out /\ out[Len(rows) + j] = New(s.kind, n, s.adds[n])
    BY <1>7, <1>10, <2>1
  <2>3. Len(rows) + j \notin 1 .. Len(rows)
    BY <1>2, <1>6
  <2> QED
    BY <1>2, <2>2, <2>3
<1>13. \A i, j \in DOMAIN out \ DOMAIN rows : out[i].name = out[j].name => i = j
  BY <1>6, <1>11
<1>14. \A i \in DOMAIN out \ DOMAIN rows : out[i].name \in DOMAIN s.adds
  BY <1>6, <1>11
<1> QED
  BY <1>2, <1>3, <1>10, <1>12, <1>13, <1>14 DEF out, R

\* What a sync of a whole table leaves active, but for stale rows and for twins.
ExactRows(kind, rows, wanted, stale) ==
  /\ \A n \in DOMAIN wanted \ stale : \E i \in DOMAIN rows :
       /\ rows[i].name = n /\ rows[i].settings = wanted[n]
       /\ kind = "source" => rows[i].status = "active"
       /\ kind = "subscription" => rows[i].digest = "code" /\ rows[i].status # "paused"
  /\ \A i \in DOMAIN rows : rows[i].status = "active" =>
       rows[i].name \in DOMAIN wanted \union stale
       \/ \E j \in DOMAIN rows : j # i /\ rows[j].name = rows[i].name

\* A name that is not stale belongs to the rows that were read, as they were read.
LEMMA SettledIs ==
  ASSUME NEW rows, NEW s, DOMAIN s.read \subseteq DOMAIN rows
  PROVE  /\ \A i \in DOMAIN s.read : s.read[i].name \notin Stale(rows, s) => rows[i] = s.read[i]
         /\ \A i \in DOMAIN rows : rows[i].name \notin Stale(rows, s) =>
              i \in DOMAIN s.read /\ rows[i] = s.read[i]
<1> DEFINE moved == {i \in DOMAIN rows : i \notin DOMAIN s.read \/ rows[i] # s.read[i]}
<1>1. Stale(rows, s) = {rows[i].name : i \in moved}
                       \union {s.read[i].name : i \in moved \intersect DOMAIN s.read}
  BY DEF Stale
<1>2. \A i \in DOMAIN s.read : rows[i] # s.read[i] => i \in moved \intersect DOMAIN s.read
  OBVIOUS
<1>3. \A i \in DOMAIN rows : i \notin DOMAIN s.read \/ rows[i] # s.read[i] => i \in moved
  OBVIOUS
<1> HIDE DEF moved
<1> QED
  BY <1>1, <1>2, <1>3

LEMMA ExactFlush ==
  ASSUME NEW s, WritesOK(s), Whole(s), s.entries \in Seq(SoundEntries),
         NEW rows \in Seq(Rows(s.kind)), DOMAIN s.read \subseteq DOMAIN rows
  PROVE  ExactRows(s.kind, Flushed(rows, s), Wanted(s.entries), Stale(rows, s))
<1> DEFINE out == Flushed(rows, s)
           wanted == Wanted(s.entries)
           stale == Stale(rows, s)
<1>1. /\ DOMAIN rows \subseteq DOMAIN out
      /\ \A i \in DOMAIN rows :
           out[i] = IF i \in DOMAIN s.changes THEN Written(rows[i], s.changes[i]) ELSE rows[i]
      /\ \A n \in DOMAIN s.adds : \E i \in DOMAIN out : out[i] = New(s.kind, n, s.adds[n])
      /\ \A i \in DOMAIN out \ DOMAIN rows : out[i].name \in DOMAIN s.adds
  BY FlushedIs
<1>2. PICK pick \in Picks(s.read) : s.changes = SyncChanges(s.kind, s.read, wanted, pick)
  BY DEF Whole
<1>3. /\ s.read \in Seq(Rows(s.kind)) /\ DOMAIN s.adds = DOMAIN wanted \ NamesOf(s.read)
      /\ \A n \in DOMAIN s.adds : s.adds[n] = wanted[n]
  BY DEF Whole
<1>4. \A i \in DOMAIN s.read : s.read[i] \in Rows(s.kind)
  BY <1>3
<1>5. s.kind \in Kinds
  BY DEF WritesOK
<1>6. \A n \in DOMAIN wanted : wanted[n] \in Sound /\ n \in Names
  BY WantedIs
<1>7. /\ \A i \in DOMAIN s.read : s.read[i].name \notin stale => rows[i] = s.read[i]
      /\ \A i \in DOMAIN rows : rows[i].name \notin stale =>
           i \in DOMAIN s.read /\ rows[i] = s.read[i]
  BY SettledIs
<1>8. \A n \in NamesOf(s.read) : pick[n] \in DOMAIN s.read /\ s.read[pick[n]].name = n
  BY <1>2 DEF Picks
<1>9. \A i \in DOMAIN s.read : s.read[i].name \in NamesOf(s.read)
  BY DEF NamesOf
<1>10. \A i \in DOMAIN rows : out[i].name = rows[i].name
  <2>1. \A i \in DOMAIN rows : rows[i] \in Rows(s.kind)
    OBVIOUS
  <2> HIDE DEF out
  <2> QED
    BY <1>1, <1>5, <2>1, WrittenIs DEF WritesOK
<1> HIDE DEF out, wanted, stale
<1>11. ASSUME NEW i \in DOMAIN s.read, pick[s.read[i].name] = i
       PROVE  i \in DOMAIN s.changes /\ s.changes[i] =
                Dirty(s.read[i], IF s.read[i].name \in DOMAIN wanted
                                   THEN SyncColumns(s.kind, s.read[i], wanted[s.read[i].name])
                                   ELSE [status |-> "paused"])
  BY <1>2, <1>11 DEF SyncChanges
<1>12. ASSUME NEW n \in DOMAIN wanted, n \notin stale
       PROVE  \E i \in DOMAIN out :
                /\ out[i].name = n /\ out[i].settings = wanted[n]
                /\ s.kind = "source" => out[i].status = "active"
                /\ s.kind = "subscription" => out[i].digest = "code" /\ out[i].status # "paused"
  <2>1. CASE n \in NamesOf(s.read)
    <3> DEFINE i == pick[n]
               row == s.read[i]
               columns == SyncColumns(s.kind, row, wanted[n])
    <3>1. i \in DOMAIN s.read /\ row.name = n /\ rows[i] = row /\ row \in Rows(s.kind)
      BY <1>4, <1>7, <1>8, <1>12, <2>1
    <3>2. i \in DOMAIN rows /\ i \in DOMAIN out
      BY <1>1, <3>1
    <3>3. i \in DOMAIN s.changes /\ s.changes[i] = Dirty(row, columns)
      BY <1>11, <3>1
    <3> HIDE DEF i, row, columns
    <3>4. out[i] = Written(row, Dirty(row, columns)) /\ out[i].name = n
      BY <1>1, <1>10, <3>1, <3>2, <3>3
    <3>5. ColumnsOK(s.kind, columns)
      BY <1>5, <1>6, <3>1, SyncColumnsOK DEF columns
    <3>6. \A f \in DOMAIN columns : f \in DOMAIN row => out[i][f] = columns[f]
      BY <1>5, <3>1, <3>4, <3>5, DirtyIs
    <3>7. CASE s.kind = "source"
      <4>1. columns = [settings |-> wanted[n], status |-> "active"]
        BY <3>7 DEF columns, SyncColumns
      <4>2. DOMAIN row = {"name", "settings", "status"}
        BY <3>1, <3>7 DEF Rows, SourceRows
      <4> QED
        BY <3>2, <3>4, <3>6, <3>7, <4>1, <4>2
    <3>8. CASE s.kind = "subscription"
      <4> DEFINE status == IF row.status = "paused" THEN "active" ELSE row.status
      <4>1. columns = [settings |-> wanted[n], digest |-> "code", status |-> status]
        BY <3>8 DEF columns, SyncColumns
      <4>2. DOMAIN row = {"name", "settings", "digest", "status"}
        BY <3>1, <3>8 DEF Rows, SubRows
      <4>3. status # "paused"
        OBVIOUS
      <4> HIDE DEF status
      <4> QED
        BY <3>2, <3>4, <3>6, <3>8, <4>1, <4>2, <4>3
    <3> QED
      BY <1>5, <3>7, <3>8 DEF Kinds
  <2>2. CASE n \notin NamesOf(s.read)
    <3>1. n \in DOMAIN s.adds /\ s.adds[n] = wanted[n]
      BY <1>3, <1>12, <2>2 DEF wanted
    <3>2. PICK i \in DOMAIN out : out[i] = New(s.kind, n, wanted[n])
      BY <1>1, <3>1
    <3>3. n \in Names /\ wanted[n] \in Sound
      BY <1>6
    <3>4. New(s.kind, n, wanted[n]).name = n /\ New(s.kind, n, wanted[n]).settings = wanted[n]
          /\ New(s.kind, n, wanted[n]).status = "active"
      BY <1>5, <3>3, NewOK
    <3>5. s.kind = "subscription" => New(s.kind, n, wanted[n]).digest = "code"
      BY DEF New, Sub
    <3> QED
      BY <3>2, <3>4, <3>5
  <2> QED
    BY <2>1, <2>2
<1>13. ASSUME NEW i \in DOMAIN out, out[i].status = "active",
              out[i].name \notin DOMAIN wanted \union stale
       PROVE  \E j \in DOMAIN out : j # i /\ out[j].name = out[i].name
  <2>1. i \in DOMAIN rows
    BY <1>1, <1>3, <1>13 DEF wanted
  <2>2. out[i].name = rows[i].name /\ i \in DOMAIN s.read /\ rows[i] = s.read[i]
    BY <1>7, <1>10, <1>13, <2>1
  <2> DEFINE j == pick[s.read[i].name]
  <2>3. j # i
    <3> SUFFICES ASSUME j = i PROVE FALSE
      OBVIOUS
    <3>1. i \in DOMAIN s.changes /\ s.changes[i] = Dirty(s.read[i], [status |-> "paused"])
      BY <1>11, <1>13, <2>2
    <3>2. out[i] = Written(s.read[i], Dirty(s.read[i], [status |-> "paused"]))
      BY <1>1, <2>1, <2>2, <3>1
    <3>3. s.read[i] \in Rows(s.kind) /\ "status" \in DOMAIN s.read[i]
      BY <1>4, <1>5, <2>2 DEF Rows, SourceRows, SubRows
    <3>4. ColumnsOK(s.kind, [status |-> "paused"])
      BY DEF ColumnsOK, ColumnNames, Statuses
    <3>5. out[i].status = "paused"
      BY <1>5, <3>2, <3>3, <3>4, DirtyIs
    <3> QED
      BY <1>13, <3>5
  <2>4. j \in DOMAIN s.read /\ s.read[j].name = s.read[i].name
    BY <1>8, <1>9, <2>2
  <2> HIDE DEF j
  <2>5. j \in DOMAIN rows /\ rows[j] = s.read[j]
    BY <1>7, <1>13, <2>2, <2>4
  <2> QED
    BY <1>1, <1>10, <2>2, <2>3, <2>4, <2>5
<1> QED
  BY <1>12, <1>13 DEF ExactRows, out, wanted, stale

-----------------------------------------------------------------------------
(* What begins a transaction, and what it SELECTs. *)

LEMMA UpsertingOK ==
  ASSUME NEW op, op # "rollback", NEW entries \in Seq(SoundEntries),
         NEW sub, sub = NoTopic \/ sub \in [name : Names, settings : Settings]
  PROVE  LET s == Upserting(op, entries, sub)
         IN  TxOK(s) /\ s.read = <<>> /\ s.kind = "source"
<1> DEFINE s == Upserting(op, entries, sub)
<1>1. s = [op |-> op, kind |-> "source", label |-> Label, entries |-> entries,
           refused |-> {}, todo |-> entries, read |-> <<>>, changes |-> <<>>,
           adds |-> <<>>, sub |-> sub]
  BY DEF Upserting
<1> HIDE DEF s
<1>2. DOMAIN s.adds = {} /\ DOMAIN s.changes = {} /\ s.kind = "source"
  BY <1>1
<1>3. WritesOK(s) /\ Plain(s)
  BY <1>2, FS_EmptySet DEF WritesOK, Kinds, Plain
<1>4. ~ WholeTable(s) /\ IsTx(s)
  BY <1>1 DEF WholeTable, IsTx
<1> QED
  BY <1>1, <1>3, <1>4 DEF TxOK, s

LEMMA SyncingOK ==
  ASSUME NEW op, NEW kind \in Kinds, kind = "subscription" \/ op = "rollback", NEW label,
         NEW entries \in Seq(SoundEntries), NEW rows \in Seq(Rows(kind)),
         NEW pick \in Picks(rows), NEW refused
  PROVE  LET s == Syncing(op, kind, label, entries, refused, rows, pick)
         IN  TxOK(s) /\ s.read = rows /\ s.kind = kind
<1> DEFINE wanted == Wanted(entries)
           changes == SyncChanges(kind, rows, wanted, pick)
           adds == [n \in DOMAIN wanted \ NamesOf(rows) |-> wanted[n]]
           s == Syncing(op, kind, label, entries, refused, rows, pick)
<1>1. s = [op |-> op, kind |-> kind, label |-> label, entries |-> entries,
           refused |-> refused, todo |-> <<>>, read |-> rows, changes |-> changes,
           adds |-> adds, sub |-> NoTopic]
  BY DEF Syncing
<1> HIDE DEF s
<1>2. /\ DOMAIN wanted = NamesOf(entries) /\ IsFiniteSet(NamesOf(entries))
      /\ \A n \in DOMAIN wanted : n \in Names /\ wanted[n] \in Sound
  BY WantedIs
<1>3. IsFiniteSet(DOMAIN adds) /\ \A n \in DOMAIN adds : n \in Names /\ adds[n] \in Sound
  <2>1. IsFiniteSet(DOMAIN wanted \ NamesOf(rows))
    BY <1>2, FS_Difference
  <2> QED
    BY <1>2, <2>1
<1>4. ASSUME NEW i \in DOMAIN changes PROVE ColumnsOK(kind, changes[i])
  <2> DEFINE columns == IF rows[i].name \in DOMAIN wanted
                          THEN SyncColumns(kind, rows[i], wanted[rows[i].name])
                          ELSE [status |-> "paused"]
  <2>1. i \in DOMAIN rows /\ changes[i] = Dirty(rows[i], columns)
    BY DEF SyncChanges
  <2>2. rows[i] \in Rows(kind)
    BY <2>1
  <2>3. ColumnsOK(kind, columns)
    <3>1. ColumnsOK(kind, [status |-> "paused"])
      BY DEF ColumnsOK, ColumnNames, Statuses
    <3> HIDE DEF wanted
    <3> QED
      BY <1>2, <2>2, <3>1, SyncColumnsOK
  <2> HIDE DEF columns, changes
  <2> QED
    BY <2>1, <2>2, <2>3, DirtyIs
<1>5. \E p \in Picks(rows) : changes = SyncChanges(kind, rows, Wanted(entries), p)
  OBVIOUS
<1> HIDE DEF changes
<1>6. DOMAIN adds = DOMAIN Wanted(entries) \ NamesOf(rows)
      /\ \A n \in DOMAIN adds : adds[n] = Wanted(entries)[n]
  OBVIOUS
<1> HIDE DEF adds, wanted
<1>7. WritesOK(s)
  BY <1>1, <1>3, <1>4 DEF WritesOK
<1>8. Whole(s)
  BY <1>1, <1>5, <1>6 DEF Whole
<1>9. IsTx(s) /\ WholeTable(s)
  BY <1>1 DEF IsTx, WholeTable
<1> QED
  BY <1>1, <1>7, <1>8, <1>9 DEF TxOK, s

\* One entry less to SELECT.
LEMMA RestOK ==
  ASSUME NEW s, TxOK(s), s.todo # <<>>
  PROVE  LET rest == [s EXCEPT !.todo = Tail(@)]
         IN  TxOK(rest) /\ ~ WholeTable(rest) /\ Head(s.todo) \in SoundEntries
             /\ rest.read = s.read /\ rest.kind = "source"
<1> DEFINE rest == [s EXCEPT !.todo = Tail(@)]
<1>1. ~ WholeTable(s) /\ Plain(s) /\ s.kind = "source"
  BY DEF TxOK, Whole, WritesOK, WholeTable, Kinds
<1>2. Tail(s.todo) \in Seq(SoundEntries) /\ Head(s.todo) \in SoundEntries
  BY DEF TxOK
<1>3. /\ IsTx(rest) /\ rest.todo = Tail(s.todo) /\ rest.kind = s.kind /\ rest.op = s.op
      /\ rest.entries = s.entries /\ rest.changes = s.changes /\ rest.adds = s.adds
      /\ rest.sub = s.sub /\ rest.read = s.read
  BY DEF TxOK, IsTx
<1> HIDE DEF rest
<1>4. TxOK(rest) /\ ~ WholeTable(rest)
  BY <1>1, <1>2, <1>3 DEF TxOK, WritesOK, WholeTable, Plain
<1> QED
  BY <1>1, <1>2, <1>3, <1>4 DEF rest

\* A SELECT that finds the row of a name.
LEMMA UpsertOK ==
  ASSUME NEW s, TxOK(s), ~ WholeTable(s), NEW i, NEW entry \in SoundEntries
  PROVE  LET t == Upsert(s, i, entry)
         IN  TxOK(t) /\ t.kind = s.kind /\ DOMAIN t.read = DOMAIN s.read \union {i}
<1> DEFINE set == IF i \in DOMAIN s.changes THEN s.changes[i] ELSE <<>>
           more == Dirty(Written(sources[i], set), UpsertColumns(entry))
           both == Over(more, set)
           changes == Over([j \in {i} |-> both], s.changes)
           read == Over(s.read, [j \in {i} |-> sources[i]])
           t == Upsert(s, i, entry)
<1>1. t = [s EXCEPT !.read = read, !.changes = changes]
  BY DEF Upsert
<1>2. s.kind = "source" /\ Plain(s)
  BY DEF TxOK, WritesOK, WholeTable, Kinds
<1>3. entry.settings \in Settings
  BY DEF SoundEntries, Settings
<1>4. DOMAIN set \subseteq {"settings"} /\ ("settings" \in DOMAIN set => set["settings"] \in Settings)
  BY DEF Plain, TxOK, WritesOK, ColumnsOK
<1>5. DOMAIN more \subseteq {"settings"} /\ \A f \in DOMAIN more : more[f] = entry.settings
  BY DEF Dirty, UpsertColumns
<1> HIDE DEF set, more
<1>6. DOMAIN both \subseteq {"settings"} /\ ("settings" \in DOMAIN both => both["settings"] \in Settings)
  BY <1>3, <1>4, <1>5 DEF Over
<1> HIDE DEF both
<1>7. /\ DOMAIN changes = DOMAIN s.changes \union {i}
      /\ \A j \in DOMAIN changes : changes[j] = both \/ (j \in DOMAIN s.changes /\ changes[j] = s.changes[j])
      /\ DOMAIN read = DOMAIN s.read \union {i}
  BY DEF Over
<1> HIDE DEF changes, read
<1>8. /\ IsTx(t) /\ t.todo = s.todo /\ t.kind = s.kind /\ t.op = s.op
      /\ t.entries = s.entries /\ t.changes = changes /\ t.adds = s.adds
      /\ t.sub = s.sub /\ t.read = read
  BY <1>1 DEF TxOK, IsTx
<1> HIDE DEF t
<1>9. \A j \in DOMAIN t.changes : ColumnsOK(t.kind, t.changes[j])
                                  /\ DOMAIN t.changes[j] \subseteq {"settings"}
  <2>1. ColumnsOK("source", both)
    BY <1>6 DEF ColumnsOK, ColumnNames
  <2>2. \A j \in DOMAIN s.changes : ColumnsOK("source", s.changes[j])
                                    /\ DOMAIN s.changes[j] \subseteq {"settings"}
    BY <1>2 DEF TxOK, WritesOK, Plain
  <2> QED
    BY <1>2, <1>6, <1>7, <1>8, <2>1, <2>2
<1>10. TxOK(t)
  BY <1>8, <1>9 DEF TxOK, WritesOK, WholeTable, Plain
<1> QED
  BY <1>7, <1>8, <1>10 DEF t

\* A SELECT that finds none.
LEMMA InsertOK ==
  ASSUME NEW s, TxOK(s), ~ WholeTable(s), NEW entry \in SoundEntries
  PROVE  LET t == Insert(s, entry)
         IN  TxOK(t) /\ t.kind = s.kind /\ t.read = s.read
<1> DEFINE adds == Over([n \in {entry.name} |-> entry.settings], s.adds)
           t == Insert(s, entry)
<1>1. t = [s EXCEPT !.adds = adds]
  BY DEF Insert
<1>2. entry.settings \in Sound /\ entry.name \in Names
  BY DEF SoundEntries
<1>3. /\ DOMAIN adds = DOMAIN s.adds \union {entry.name}
      /\ \A n \in DOMAIN adds : adds[n] = entry.settings \/ (n \in DOMAIN s.adds /\ adds[n] = s.adds[n])
  BY DEF Over
<1> HIDE DEF adds
<1>4. IsFiniteSet(DOMAIN adds)
  <2>1. IsFiniteSet(DOMAIN s.adds)
    BY DEF TxOK, WritesOK
  <2> QED
    BY <1>3, <2>1, FS_AddElement
<1>5. /\ IsTx(t) /\ t.todo = s.todo /\ t.kind = s.kind /\ t.op = s.op
      /\ t.entries = s.entries /\ t.changes = s.changes /\ t.adds = adds
      /\ t.sub = s.sub /\ t.read = s.read
  BY <1>1 DEF TxOK, IsTx
<1> HIDE DEF t
<1>6. \A n \in DOMAIN adds : n \in Names /\ adds[n] \in Sound
  BY <1>2, <1>3 DEF TxOK, WritesOK
<1>7. TxOK(t)
  BY <1>4, <1>5, <1>6 DEF TxOK, WritesOK, WholeTable, Plain
<1> QED
  BY <1>5, <1>7 DEF t

-----------------------------------------------------------------------------
(* The invariant: the tables hold rows, those of sources of distinct names; *)
(* a transaction is the one its request calls for, about rows that are      *)
(* still in their places; the snapshots hold only what validate() accepted; *)
(* and what a sync answered is so.                                          *)

Distinct(rows) == \A i, j \in DOMAIN rows : rows[i].name = rows[j].name => i = j

SourcesOK == sources \in Seq(SourceRows) /\ Distinct(sources)

SubsOK == subs \in Seq(SubRows)

DirsOK == dirs \in [Kinds -> Seq(Seq(Entries))]

VersionsOK ==
  /\ versions = [k \in Kinds |-> versions[k]]
  /\ \A k \in Kinds : \A l \in DOMAIN versions[k] : versions[k][l] \in Seq(SoundEntries)

HeldOK == watched \in Seq(SoundEntries) /\ (cli = NoCli \/ cli.settings \in Settings)

Table(kind) == IF kind = "source" THEN sources ELSE subs

SyncOK ==
  /\ sync = [c \in Clients |-> sync[c]]
  /\ \A c \in Clients : TxOK(sync[c]) /\ DOMAIN sync[c].read \subseteq DOMAIN Table(sync[c].kind)

\* The statement of SyncIsExact.
Exact ==
  /\ reply.op # "none" /\ reply.kind = "subscription" =>
       ExactRows("subscription", subs, Wanted(reply.entries), reply.stale)
  /\ reply.op = "rollback" /\ reply.kind = "source" =>
       ExactRows("source", sources, Wanted(reply.entries), reply.stale)

CatalogInv == SourcesOK /\ SubsOK /\ DirsOK /\ VersionsOK /\ HeldOK /\ SyncOK /\ Exact

\* A directory holds files of entries.
LEMMA DirIsFiles ==
  ASSUME NEW k \in Kinds, NEW dir \in Dirs[k] PROVE dir \in Seq(Seq(Entries))
BY CatalogAssumption

LEMMA CatalogInit == Init => CatalogInv
<1> SUFFICES ASSUME Init PROVE CatalogInv
  OBVIOUS
<1>1. SourcesOK /\ SubsOK /\ HeldOK /\ Exact
  BY DEF Init, SourcesOK, Distinct, SubsOK, HeldOK, Exact, NoReply
<1>2. DirsOK
  <2>1. /\ dirs = [k \in Kinds |-> dirs[k]]
        /\ dirs["source"] \in Dirs["source"] /\ dirs["subscription"] \in Dirs["subscription"]
    BY DEF Init, Dirs, Kinds
  <2>2. \A k \in Kinds : dirs[k] \in Seq(Seq(Entries))
    BY <2>1, DirIsFiles DEF Kinds
  <2> QED
    BY <2>1, <2>2 DEF DirsOK
<1>3. VersionsOK
  BY DEF Init, VersionsOK
<1>4. SyncOK
  <2>1. DOMAIN Idle.read = {}
    BY DEF Idle
  <2> QED
    BY <2>1, IdleOK DEF Init, SyncOK
<1> QED
  BY <1>1, <1>2, <1>3, <1>4 DEF CatalogInv

\* What a version table holds once a version is recorded.
LEMMA RecordedIs ==
  ASSUME NEW table, \A l \in DOMAIN table : table[l] \in Seq(SoundEntries),
         NEW label, NEW entries \in Seq(SoundEntries)
  PROVE  \A l \in DOMAIN Recorded(table, label, entries) :
           Recorded(table, label, entries)[l] \in Seq(SoundEntries)
<1> DEFINE R == Seq(SoundEntries)
<1>1. entries \in R /\ \A l \in DOMAIN table : table[l] \in R
  OBVIOUS
<1> HIDE DEF R
<1>2. \A l \in DOMAIN Recorded(table, label, entries) :
        Recorded(table, label, entries)[l] \in R
  BY <1>1 DEF Recorded
<1> QED
  BY <1>2 DEF R

LEMMA RecordOK ==
  ASSUME VersionsOK, NEW k \in Kinds, NEW label, NEW entries \in Seq(SoundEntries),
         versions' = [versions EXCEPT ![k] = Recorded(@, label, entries)]
  PROVE  VersionsOK'
<1> DEFINE table == Recorded(versions[k], label, entries)
           R == Seq(SoundEntries)
<1>1. \A l \in DOMAIN table : table[l] \in R
  <2>1. \A l \in DOMAIN versions[k] : versions[k][l] \in Seq(SoundEntries)
    BY DEF VersionsOK
  <2> QED
    BY <2>1, RecordedIs
<1>2. versions' = [versions EXCEPT ![k] = table]
  OBVIOUS
<1> HIDE DEF table
<1>3. /\ versions = [j \in Kinds |-> versions[j]]
      /\ \A j \in Kinds : \A l \in DOMAIN versions[j] : versions[j][l] \in R
  BY DEF VersionsOK
<1> HIDE DEF R
<1>4. /\ versions' = [j \in Kinds |-> versions'[j]]
      /\ \A j \in Kinds : \A l \in DOMAIN versions'[j] : versions'[j][l] \in R
  BY <1>1, <1>2, <1>3
<1> QED
  BY <1>4 DEF VersionsOK, R

\* A table whose rows are changed in place.
LEMMA EditedRows ==
  ASSUME NEW R, NEW rows \in Seq(R), NEW i \in DOMAIN rows, NEW row \in R,
         NEW edited, edited = [rows EXCEPT ![i] = row]
  PROVE  edited \in Seq(R) /\ DOMAIN edited = DOMAIN rows
<1>1. Len(rows) \in Nat /\ DOMAIN rows = 1 .. Len(rows)
      /\ \A j \in 1 .. Len(rows) : rows[j] \in R
  OBVIOUS
<1>2. edited \in [1 .. Len(rows) -> R]
  BY <1>1
<1> QED
  BY <1>1, <1>2

\* What is synced has passed validate().
LEMMA SyncedSound ==
  ASSUME DirsOK, VersionsOK
  PROVE  /\ Validated(LoadSources) \in Seq(SoundEntries)
         /\ Validated(LoadSubs) \in Seq(SoundEntries)
         /\ \A p \in Packs : Validated(p.sources) \in Seq(SoundEntries)
         /\ \A k \in Kinds : \A l \in DOMAIN versions[k] :
              Snapshot(k, l) \in Seq(SoundEntries)
<1>1. dirs["source"] \in Seq(Seq(Entries)) /\ dirs["subscription"] \in Seq(Seq(Entries))
  BY DEF DirsOK, Kinds
<1>2. Validated(LoadSources) \in Seq(SoundEntries)
  BY <1>1, LoadSourcesIs, ValidatedIs
<1>3. Validated(LoadSubs) \in Seq(SoundEntries)
  BY <1>1, LoadSubsIs, ValidatedIs
<1>4. ASSUME NEW p \in Packs PROVE Validated(p.sources) \in Seq(SoundEntries)
  <2>1. p.sources \in Seq([name : Names, settings : Sound])
    BY CatalogAssumption
  <2>2. [name : Names, settings : Sound] \subseteq Entries
    BY DEF Entries, Settings
  <2> DEFINE R == [name : Names, settings : Sound]
  <2> HIDE DEF R
  <2>3. p.sources \in Seq(R) /\ R \subseteq Entries
    BY <2>1, <2>2 DEF R
  <2>4. p.sources \in Seq(Entries)
    BY <2>3
  <2> QED
    BY <2>4, ValidatedIs
<1>5. \A k \in Kinds : \A l \in DOMAIN versions[k] : Snapshot(k, l) \in Seq(SoundEntries)
  BY DEF VersionsOK, Snapshot
<1> QED
  BY <1>2, <1>3, <1>4, <1>5

-----------------------------------------------------------------------------
(* What the steps do to the tables. *)

\* Rows stay in their places.
Stay(rows, later) == DOMAIN rows \subseteq DOMAIN later

\* What an edit of sources does: it pauses, it edits settings or the name, or it
\* is a PATCH of a status.
Unpaused(later) ==
  \A i \in DOMAIN sources : sources[i].status = "paused" => later[i].status # "active"

LEMMA EditSources ==
  ASSUME SourcesOK, NEW i \in DOMAIN sources, PatchSource(i) \/ DeleteSource(i)
  PROVE  /\ SourcesOK' /\ Stay(sources, sources')
         /\ Unpaused(sources') \/ sources' = [sources EXCEPT ![i].status = "active"]
<1>1. sources \in Seq(SourceRows) /\ sources[i] \in SourceRows /\ Distinct(sources)
  BY DEF SourcesOK
<1>2. /\ sources[i] = [name |-> sources[i].name, settings |-> sources[i].settings,
                       status |-> sources[i].status]
      /\ sources[i].name \in Names /\ sources[i].settings \in Settings
      /\ sources[i].status \in Statuses
  BY <1>1 DEF SourceRows
<1>3. ASSUME NEW row \in SourceRows, sources' = [sources EXCEPT ![i] = row],
             row.name = sources[i].name \/ row.name \notin NamesOf(sources),
             row.status = sources[i].status \/ row.status # "active"
      PROVE  SourcesOK' /\ Stay(sources, sources') /\ Unpaused(sources')
  <2>1. sources' \in Seq(SourceRows) /\ DOMAIN sources' = DOMAIN sources
    BY <1>1, <1>3, EditedRows
  <2>2. sources'[i] = row /\ \A j \in DOMAIN sources : j # i => sources'[j] = sources[j]
    BY <1>1, <1>3
  <2>3. \A j \in DOMAIN sources : sources[j].name \in NamesOf(sources)
    BY DEF NamesOf
  <2>4. Distinct(sources')
    BY <1>1, <1>3, <2>1, <2>2, <2>3 DEF Distinct
  <2>5. Unpaused(sources')
    BY <1>3, <2>2 DEF Unpaused
  <2> QED
    BY <2>1, <2>4, <2>5 DEF SourcesOK, Stay
<1>4. ASSUME NEW status \in Statuses, sources' = [sources EXCEPT ![i].status = status]
      PROVE  /\ SourcesOK' /\ Stay(sources, sources')
             /\ Unpaused(sources') \/ sources' = [sources EXCEPT ![i].status = "active"]
  <2> DEFINE row == [name |-> sources[i].name, settings |-> sources[i].settings,
                     status |-> status]
  <2>1. [sources[i] EXCEPT !.status = status] = row /\ row \in SourceRows
        /\ row.name = sources[i].name /\ row.status = status
    BY <1>2 DEF SourceRows
  <2>2. sources' = [sources EXCEPT ![i] = row]
    BY <1>4, <2>1
  <2> HIDE DEF row
  <2>3. CASE status = "active"
    <3>1. sources' \in Seq(SourceRows) /\ DOMAIN sources' = DOMAIN sources
      BY <1>1, <2>1, <2>2, EditedRows
    <3>2. \A j \in DOMAIN sources : sources'[j].name = sources[j].name
      BY <1>1, <2>1, <2>2
    <3>3. Distinct(sources')
      BY <1>1, <3>1, <3>2 DEF Distinct
    <3> QED
      BY <1>4, <2>3, <3>1, <3>3 DEF SourcesOK, Stay
  <2>4. CASE status # "active"
    BY <1>3, <2>1, <2>2, <2>4
  <2> QED
    BY <2>3, <2>4
<1>5. ASSUME NEW settings \in Settings, sources' = [sources EXCEPT ![i].settings = settings]
      PROVE  SourcesOK' /\ Stay(sources, sources') /\ Unpaused(sources')
  <2> DEFINE row == [name |-> sources[i].name, settings |-> settings,
                     status |-> sources[i].status]
  <2>1. [sources[i] EXCEPT !.settings = settings] = row /\ row \in SourceRows
        /\ row.name = sources[i].name /\ row.status = sources[i].status
    BY <1>2 DEF SourceRows
  <2>2. sources' = [sources EXCEPT ![i] = row]
    BY <1>5, <2>1
  <2> HIDE DEF row
  <2> QED
    BY <1>3, <2>1, <2>2
<1>6. ASSUME NEW n \in Names \ NamesOf(sources), sources' = [sources EXCEPT ![i].name = n]
      PROVE  SourcesOK' /\ Stay(sources, sources') /\ Unpaused(sources')
  <2> DEFINE row == [name |-> n, settings |-> sources[i].settings,
                     status |-> sources[i].status]
  <2>1. [sources[i] EXCEPT !.name = n] = row /\ row \in SourceRows
        /\ row.name = n /\ row.status = sources[i].status
    BY <1>2 DEF SourceRows
  <2>2. sources' = [sources EXCEPT ![i] = row]
    BY <1>6, <2>1
  <2> HIDE DEF row
  <2> QED
    BY <1>3, <1>6, <2>1, <2>2
<1>7. CASE DeleteSource(i)
  <2>1. "paused" \in Statuses /\ "paused" # "active"
    BY DEF Statuses
  <2> QED
    BY <1>4, <1>7, <2>1 DEF DeleteSource
<1>8. CASE PatchSource(i)
  BY <1>4, <1>5, <1>6, <1>8 DEF PatchSource
<1> QED
  BY <1>7, <1>8

LEMMA SubRowEdits ==
  ASSUME NEW row \in SubRows, NEW settings \in Settings, NEW digest \in Digests
  PROVE  [row EXCEPT !.settings = settings, !.digest = digest] \in SubRows
BY DEF SubRows

LEMMA EditSubs ==
  ASSUME SubsOK,
         \/ \E i \in DOMAIN subs : PatchSub(i) \/ DeleteSub(i)
         \/ CliPatch /\ HeldOK
  PROVE  SubsOK' /\ Stay(subs, subs')
<1>1. subs \in Seq(SubRows) /\ subs = [j \in DOMAIN subs |-> subs[j]]
  BY DEF SubsOK
<1>2. ASSUME NEW i \in DOMAIN subs
      PROVE  /\ subs[i] = [name |-> subs[i].name, settings |-> subs[i].settings,
                           digest |-> subs[i].digest, status |-> subs[i].status]
             /\ subs[i].name \in Names /\ subs[i].settings \in Settings
             /\ subs[i].digest \in Digests /\ subs[i].status \in Statuses
  <2>1. subs[i] \in SubRows
    BY <1>1
  <2> QED
    BY <2>1 DEF SubRows
<1>3. ASSUME NEW i \in DOMAIN subs, NEW row \in SubRows, subs' = [subs EXCEPT ![i] = row]
      PROVE  SubsOK' /\ Stay(subs, subs')
  BY <1>1, <1>3, EditedRows DEF SubsOK, Stay
<1>4. ASSUME NEW i \in DOMAIN subs, NEW settings \in Settings, NEW digest \in Digests
      PROVE  [subs[i] EXCEPT !.settings = settings, !.digest = digest] \in SubRows
  <2>1. subs[i] \in SubRows
    BY <1>1
  <2> QED
    BY <2>1, SubRowEdits
<1>5. ASSUME NEW i, NEW settings, NEW digest,
             subs' = [subs EXCEPT ![i].settings = settings, ![i].digest = digest]
      PROVE  subs' = IF i \in DOMAIN subs
                       THEN [subs EXCEPT ![i] = [subs[i] EXCEPT !.settings = settings,
                                                                !.digest = digest]]
                       ELSE subs
  BY <1>1, <1>5
<1>6. CASE \E i \in DOMAIN subs : PatchSub(i) \/ DeleteSub(i)
  <2>1. PICK i \in DOMAIN subs : PatchSub(i) \/ DeleteSub(i)
    BY <1>6
  <2>2. \A status \in Statuses : [subs[i] EXCEPT !.status = status] \in SubRows
    BY <1>2 DEF SubRows
  <2>3. \A n \in Names : [subs[i] EXCEPT !.name = n] \in SubRows
    BY <1>2 DEF SubRows
  <2>4. "paused" \in Statuses
    BY DEF Statuses
  <2>5. CASE DeleteSub(i)
    BY <1>3, <2>2, <2>4, <2>5 DEF DeleteSub
  <2>6. ASSUME NEW settings \in Settings, NEW digest \in Digests,
               subs' = [subs EXCEPT ![i].settings = settings, ![i].digest = digest]
        PROVE  SubsOK' /\ Stay(subs, subs')
    BY <1>3, <1>4, <1>5, <2>6
  <2>7. CASE PatchSub(i)
    BY <1>3, <2>2, <2>3, <2>6, <2>7 DEF PatchSub
  <2> QED
    BY <2>1, <2>5, <2>7
<1>7. CASE CliPatch /\ HeldOK
  <2>1. cli.settings \in Settings
    BY <1>7 DEF HeldOK, CliPatch
  <2>2. PICK digest \in Digests :
          subs' = [subs EXCEPT ![cli.row].settings = cli.settings, ![cli.row].digest = digest]
    BY <1>7 DEF CliPatch
  <2>3. CASE cli.row \in DOMAIN subs
    <3> DEFINE row == [subs[cli.row] EXCEPT !.settings = cli.settings, !.digest = digest]
    <3>1. row \in SubRows
      BY <1>4, <2>1, <2>3
    <3>2. subs' = [subs EXCEPT ![cli.row] = row]
      BY <1>5, <2>2, <2>3
    <3> HIDE DEF row
    <3> QED
      BY <1>3, <2>3, <3>1, <3>2
  <2>4. CASE cli.row \notin DOMAIN subs
    <3>1. subs' = subs
      BY <1>5, <2>2, <2>4
    <3> QED
      BY <3>1 DEF SubsOK, Stay
  <2> QED
    BY <2>3, <2>4
<1> QED
  BY <1>6, <1>7

\* A row that is inserted by itself.
LEMMA AppendedSub ==
  ASSUME SubsOK, NEW n \in Names, NEW settings \in Sound,
         subs' = Append(subs, Sub(n, settings))
  PROVE  SubsOK' /\ Stay(subs, subs')
<1>1. Sub(n, settings) \in SubRows
  BY DEF Sub, SubRows, Settings, Digests, Statuses
<1> HIDE DEF SubRows
<1> QED
  BY <1>1 DEF SubsOK, Stay

\* A commit of sources.
LEMMA FlushSources ==
  ASSUME SourcesOK, SyncOK, NEW c \in Clients, CommitSources(c)
  PROVE  /\ SourcesOK' /\ Stay(sources, sources')
         /\ sync[c].op # "rollback" => Unpaused(sources')
         /\ sync[c].op = "rollback" =>
              ExactRows("source", sources', Wanted(sync[c].entries), Stale(sources, sync[c]))
<1> DEFINE s == sync[c]
<1>1. /\ TxOK(s) /\ WritesOK(s) /\ s.kind = "source" /\ s.entries \in Seq(SoundEntries)
      /\ DOMAIN s.read \subseteq DOMAIN sources
  BY DEF SyncOK, TxOK, CommitSources, Table
<1>2. sources \in Seq(Rows(s.kind)) /\ Rows(s.kind) = SourceRows /\ Distinct(sources)
  BY <1>1 DEF SourcesOK, Rows
<1>3. sources' = Flushed(sources, s) /\ DOMAIN s.adds \intersect NamesOf(sources) = {}
  BY DEF CommitSources
<1> HIDE DEF s
<1>4. /\ sources' \in Seq(SourceRows) /\ DOMAIN sources \subseteq DOMAIN sources'
      /\ \A i \in DOMAIN sources :
           sources'[i] = IF i \in DOMAIN s.changes THEN Written(sources[i], s.changes[i])
                           ELSE sources[i]
      /\ \A i \in DOMAIN sources' \ DOMAIN sources : sources'[i].name \in DOMAIN s.adds
      /\ \A i, j \in DOMAIN sources' \ DOMAIN sources :
           sources'[i].name = sources'[j].name => i = j
  BY <1>1, <1>2, <1>3, FlushedIs
<1>5. ASSUME NEW i \in DOMAIN sources
      PROVE  /\ sources'[i].name = sources[i].name /\ sources[i].name \in NamesOf(sources)
             /\ Plain(s) => sources'[i].status = sources[i].status
  <2>1. sources[i] \in Rows(s.kind) /\ sources[i].name \in NamesOf(sources)
    BY <1>2 DEF NamesOf
  <2>2. CASE i \in DOMAIN s.changes
    <3>1. ColumnsOK(s.kind, s.changes[i]) /\ s.kind \in Kinds
      BY <1>1, <2>2 DEF WritesOK
    <3>2. Plain(s) => "status" \notin DOMAIN s.changes[i]
      BY <2>2 DEF Plain
    <3> QED
      BY <1>4, <2>1, <2>2, <3>1, <3>2, WrittenIs
  <2> QED
    BY <1>4, <2>1, <2>2
<1>6. Distinct(sources')
  BY <1>2, <1>3, <1>4, <1>5 DEF Distinct
<1>7. ASSUME s.op # "rollback" PROVE Unpaused(sources')
  <2>1. Plain(s)
    BY <1>1, <1>7 DEF TxOK, WholeTable
  <2> QED
    BY <1>5, <2>1 DEF Unpaused
<1>8. ASSUME s.op = "rollback"
      PROVE  ExactRows("source", sources', Wanted(s.entries), Stale(sources, s))
  <2>1. Whole(s)
    BY <1>1, <1>8 DEF TxOK, WholeTable
  <2>2. ExactRows(s.kind, Flushed(sources, s), Wanted(s.entries), Stale(sources, s))
    BY <1>1, <1>2, <2>1, ExactFlush
  <2> QED
    BY <1>1, <1>3, <2>2
<1> QED
  BY <1>4, <1>6, <1>7, <1>8 DEF SourcesOK, Stay, s

\* A commit of subscriptions.
LEMMA FlushSubs ==
  ASSUME SubsOK, SyncOK, NEW c \in Clients, CommitSubs(c)
  PROVE  /\ SubsOK' /\ Stay(subs, subs')
         /\ ExactRows("subscription", subs', Wanted(sync[c].entries), Stale(subs, sync[c]))
<1> DEFINE s == sync[c]
<1>1. /\ TxOK(s) /\ WritesOK(s) /\ s.kind = "subscription" /\ s.entries \in Seq(SoundEntries)
      /\ Whole(s) /\ DOMAIN s.read \subseteq DOMAIN subs
  BY DEF SyncOK, TxOK, WholeTable, CommitSubs, Table
<1>2. subs \in Seq(Rows(s.kind)) /\ Rows(s.kind) = SubRows
  BY <1>1 DEF SubsOK, Rows
<1>3. subs' = Flushed(subs, s)
  BY DEF CommitSubs
<1> HIDE DEF s
<1>4. subs' \in Seq(SubRows) /\ DOMAIN subs \subseteq DOMAIN subs'
  BY <1>1, <1>2, <1>3, FlushedIs
<1>5. ExactRows(s.kind, Flushed(subs, s), Wanted(s.entries), Stale(subs, s))
  BY <1>1, <1>2, ExactFlush
<1> QED
  BY <1>1, <1>3, <1>4, <1>5 DEF SubsOK, Stay, s

-----------------------------------------------------------------------------
(* What the steps do to the transactions, and the invariant. *)

\* Where the tables are after a step.
TablesOK ==
  /\ SourcesOK' /\ Stay(sources, sources')
  /\ SubsOK' /\ Stay(subs, subs')

LEMMA TablesKept ==
  /\ SourcesOK /\ UNCHANGED sources => SourcesOK' /\ Stay(sources, sources')
  /\ SubsOK /\ UNCHANGED subs => SubsOK' /\ Stay(subs, subs')
BY DEF SourcesOK, Distinct, SubsOK, Stay

\* Reads stay within the tables, as those only grow.
LEMMA SyncStep ==
  ASSUME SyncOK, TablesOK,
         \/ UNCHANGED sync
         \/ \E c \in Clients : \E s : /\ sync' = [sync EXCEPT ![c] = s]
                                      /\ TxOK(s)
                                      /\ DOMAIN s.read \subseteq DOMAIN Table(s.kind)
  PROVE  SyncOK'
<1>1. \A kind : DOMAIN Table(kind) \subseteq DOMAIN Table(kind)'
  BY DEF Table, TablesOK, Stay
<1>2. \A c \in Clients : TxOK(sync'[c]) /\ DOMAIN sync'[c].read \subseteq DOMAIN Table(sync'[c].kind)
  BY DEF SyncOK
<1>3. sync' = [c \in Clients |-> sync'[c]]
  BY DEF SyncOK
<1> QED
  BY <1>1, <1>2, <1>3 DEF SyncOK, Table

LEMMA IdleStep ==
  ASSUME SyncOK, TablesOK, NEW c \in Clients, sync' = [sync EXCEPT ![c] = Idle]
  PROVE  SyncOK'
<1>1. DOMAIN Idle.read = {}
  BY DEF Idle
<1> QED
  BY <1>1, IdleOK, SyncStep

\* What is begun is a transaction.
LEMMA BeginStep ==
  ASSUME CatalogInv, NEW c \in Clients, Begins(c)
  PROVE  SyncOK' /\ HeldOK' /\ TablesOK /\ UNCHANGED <<sources, subs, dirs, versions>>
         /\ reply' = NoReply
<1>1. SourcesOK /\ SubsOK /\ SyncOK /\ HeldOK /\ DirsOK /\ VersionsOK
  BY DEF CatalogInv
<1>2. /\ Validated(LoadSources) \in Seq(SoundEntries)
      /\ Validated(LoadSubs) \in Seq(SoundEntries)
      /\ \A p \in Packs : Validated(p.sources) \in Seq(SoundEntries)
      /\ \A k \in Kinds : \A l \in DOMAIN versions[k] : Snapshot(k, l) \in Seq(SoundEntries)
  BY <1>1, SyncedSound
<1>3. ASSUME NEW s, Begin(c, s), TxOK(s), DOMAIN s.read \subseteq DOMAIN Table(s.kind)
      PROVE  SyncOK' /\ TablesOK /\ UNCHANGED <<sources, subs, dirs, versions, cli>>
             /\ reply' = NoReply
  <2>1. TablesOK
    BY <1>1, <1>3, TablesKept DEF Begin, TablesOK
  <2>2. SyncOK'
    BY <1>1, <1>3, <2>1, SyncStep DEF Begin
  <2> QED
    BY <1>3, <2>1, <2>2 DEF Begin
<1>4. ASSUME NEW op, op # "rollback", NEW entries \in Seq(SoundEntries),
             NEW sub, sub = NoTopic \/ sub \in [name : Names, settings : Settings],
             Begin(c, Upserting(op, entries, sub))
      PROVE  SyncOK' /\ TablesOK /\ UNCHANGED <<sources, subs, dirs, versions, cli>>
             /\ reply' = NoReply
  BY <1>3, <1>4, UpsertingOK
<1>5. UNCHANGED <<watched, cli>> => HeldOK'
  BY <1>1 DEF HeldOK
<1>6. ASSUME NEW n \in Names, NEW settings \in Settings, CreateSource(c, n, settings)
      PROVE  SyncOK' /\ HeldOK' /\ TablesOK /\ UNCHANGED <<sources, subs, dirs, versions>>
             /\ reply' = NoReply
  <2>1. [name |-> n, settings |-> settings] \in SoundEntries
    BY <1>6 DEF CreateSource, SoundEntries
  <2>2. <<[name |-> n, settings |-> settings]>> \in Seq(SoundEntries)
    <3> HIDE DEF SoundEntries
    <3> QED
      BY <2>1
  <2> QED
    BY <1>4, <1>5, <1>6, <2>2 DEF CreateSource
<1>7. CASE ReloadSources(c)
  BY <1>2, <1>4, <1>5, <1>7 DEF ReloadSources
<1>8. ASSUME NEW p \in Packs, EnableTopic(c, p)
      PROVE  SyncOK' /\ HeldOK' /\ TablesOK /\ UNCHANGED <<sources, subs, dirs, versions>>
             /\ reply' = NoReply
  <2>1. p.sub \in [name : Names, settings : Settings]
    BY CatalogAssumption
  <2>2. PICK sub \in {p.sub, NoTopic} : Begin(c, Upserting("topic", Validated(p.sources), sub))
    BY <1>8 DEF EnableTopic
  <2> QED
    BY <1>2, <1>4, <1>5, <1>8, <2>1, <2>2 DEF EnableTopic
<1>9. CASE WatchEntry(c)
  <2>1. watched \in Seq(SoundEntries) /\ watched # <<>>
    BY <1>1, <1>9 DEF HeldOK, WatchEntry
  <2>2. <<Head(watched)>> \in Seq(SoundEntries) /\ Tail(watched) \in Seq(SoundEntries)
    <3> HIDE DEF SoundEntries
    <3> QED
      BY <2>1
  <2>3. Begin(c, Upserting("watch", <<Head(watched)>>, NoTopic)) /\ watched' = Tail(watched)
    BY <1>9 DEF WatchEntry
  <2>4. SyncOK' /\ TablesOK /\ UNCHANGED <<sources, subs, dirs, versions, cli>>
        /\ reply' = NoReply
    BY <1>4, <2>2, <2>3
  <2> QED
    BY <1>1, <2>2, <2>3, <2>4 DEF HeldOK
<1>10. subs \in Seq(Rows("subscription")) /\ sources \in Seq(Rows("source"))
  BY <1>1 DEF SubsOK, SourcesOK, Rows
<1>11. CASE ReloadSubs(c)
  <2>1. PICK pick \in Picks(subs) :
          Begin(c, Syncing("reload", "subscription", Label, Validated(LoadSubs), Refused, subs, pick))
    BY <1>11 DEF ReloadSubs
  <2> DEFINE s == Syncing("reload", "subscription", Label, Validated(LoadSubs), Refused, subs, pick)
  <2>2. TxOK(s) /\ s.read = subs /\ s.kind = "subscription"
    BY <1>2, <1>10, <2>1, SyncingOK DEF Kinds
  <2> HIDE DEF s
  <2>3. DOMAIN s.read \subseteq DOMAIN Table(s.kind)
    BY <2>2 DEF Table
  <2> QED
    BY <1>3, <1>5, <1>11, <2>1, <2>2, <2>3 DEF ReloadSubs, s
<1>12. CASE RollbackSources(c)
  <2>1. PICK l \in DOMAIN versions["source"], pick \in Picks(sources) :
          Begin(c, Syncing("rollback", "source", l, Snapshot("source", l), {}, sources, pick))
    BY <1>12 DEF RollbackSources
  <2> DEFINE entries == Snapshot("source", l)
             s == Syncing("rollback", "source", l, entries, {}, sources, pick)
  <2>2. TxOK(s) /\ s.read = sources /\ s.kind = "source"
    <3>1. "source" \in Kinds
      BY DEF Kinds
    <3>2. entries \in Seq(SoundEntries)
      BY <1>2, <2>1, <3>1
    <3>3. pick \in Picks(sources)
      BY <2>1
    <3> HIDE DEF entries, s
    <3>4. LET t == Syncing("rollback", "source", l, entries, {}, sources, pick)
          IN  TxOK(t) /\ t.read = sources /\ t.kind = "source"
      BY <1>10, <3>1, <3>2, <3>3, SyncingOK
    <3> QED
      BY <3>4 DEF s
  <2> HIDE DEF s
  <2>3. DOMAIN s.read \subseteq DOMAIN Table(s.kind)
    BY <2>2 DEF Table
  <2> QED
    BY <1>3, <1>5, <1>12, <2>1, <2>2, <2>3 DEF RollbackSources, s
<1>13. CASE RollbackSubs(c)
  <2>1. PICK l \in DOMAIN versions["subscription"], pick \in Picks(subs) :
          Begin(c, Syncing("rollback", "subscription", l, Snapshot("subscription", l), {}, subs, pick))
    BY <1>13 DEF RollbackSubs
  <2> DEFINE entries == Snapshot("subscription", l)
             s == Syncing("rollback", "subscription", l, entries, {}, subs, pick)
  <2>2. TxOK(s) /\ s.read = subs /\ s.kind = "subscription"
    <3>1. "subscription" \in Kinds
      BY DEF Kinds
    <3>2. entries \in Seq(SoundEntries)
      BY <1>2, <2>1, <3>1
    <3>3. pick \in Picks(subs)
      BY <2>1
    <3> HIDE DEF entries, s
    <3>4. LET t == Syncing("rollback", "subscription", l, entries, {}, subs, pick)
          IN  TxOK(t) /\ t.read = subs /\ t.kind = "subscription"
      BY <1>10, <3>1, <3>2, <3>3, SyncingOK
    <3> QED
      BY <3>4 DEF s
  <2> HIDE DEF s
  <2>3. DOMAIN s.read \subseteq DOMAIN Table(s.kind)
    BY <2>2 DEF Table
  <2> QED
    BY <1>3, <1>5, <1>13, <2>1, <2>2, <2>3 DEF RollbackSubs, s
<1> QED
  BY <1>6, <1>7, <1>8, <1>9, <1>11, <1>12, <1>13 DEF Begins

\* A SELECT of an upsert.
LEMMA SelectStep ==
  ASSUME CatalogInv, NEW c \in Clients, Select(c)
  PROVE  SyncOK' /\ TablesOK
<1> DEFINE s == sync[c]
           entry == Head(s.todo)
           rest == [s EXCEPT !.todo = Tail(@)]
<1>1. TxOK(s) /\ s.todo # <<>> /\ DOMAIN s.read \subseteq DOMAIN Table(s.kind)
  BY DEF CatalogInv, SyncOK, Select
<1>2. TxOK(rest) /\ ~ WholeTable(rest) /\ entry \in SoundEntries
      /\ rest.read = s.read /\ rest.kind = "source"
  BY <1>1, RestOK
<1>3. s.kind = "source"
  BY <1>1, RestOK DEF TxOK, Whole, WholeTable, WritesOK, Kinds
<1>4. DOMAIN rest.read \subseteq DOMAIN sources
  BY <1>1, <1>2, <1>3 DEF Table
<1>5. TablesOK
  BY TablesKept DEF CatalogInv, Select, TablesOK
<1>6. \/ \E i \in DOMAIN sources : sync' = [sync EXCEPT ![c] = Upsert(rest, i, entry)]
      \/ sync' = [sync EXCEPT ![c] = Insert(rest, entry)]
  BY DEF Select
<1> HIDE DEF s, rest, entry
<1>7. ASSUME NEW i \in DOMAIN sources
      PROVE  TxOK(Upsert(rest, i, entry))
             /\ DOMAIN Upsert(rest, i, entry).read \subseteq DOMAIN Table(Upsert(rest, i, entry).kind)
  BY <1>2, <1>4, UpsertOK DEF Table
<1>8. TxOK(Insert(rest, entry))
      /\ DOMAIN Insert(rest, entry).read \subseteq DOMAIN Table(Insert(rest, entry).kind)
  BY <1>2, <1>4, InsertOK DEF Table
<1> QED
  BY <1>5, <1>6, <1>7, <1>8, SyncStep DEF CatalogInv

\* What a commit records.
LEMMA RecordStep ==
  ASSUME VersionsOK, NEW s, TxOK(s), Record(s) PROVE VersionsOK'
<1>1. s.entries \in Seq(SoundEntries) /\ s.kind \in Kinds
  BY DEF TxOK, WritesOK
<1>2. CASE versions' = versions
  BY <1>2 DEF VersionsOK
<1>3. CASE versions' = [versions EXCEPT ![s.kind] = Recorded(@, s.label, s.entries)]
  <2> DEFINE k == s.kind
             entries == s.entries
  <2>1. k \in Kinds /\ entries \in Seq(SoundEntries)
    BY <1>1
  <2>2. versions' = [versions EXCEPT ![k] = Recorded(@, s.label, entries)]
    BY <1>3
  <2> HIDE DEF k, entries
  <2> QED
    BY <2>1, <2>2, RecordOK
<1> QED
  BY <1>2, <1>3 DEF Record

LEMMA CommitSourcesStep ==
  ASSUME CatalogInv, NEW c \in Clients, CommitSources(c)
  PROVE  CatalogInv' /\ (reply'.op = "rollback" \/ Unpaused(sources'))
<1> DEFINE s == sync[c]
<1>1. SourcesOK /\ SubsOK /\ SyncOK /\ HeldOK /\ DirsOK /\ VersionsOK
  BY DEF CatalogInv
<1>2. TxOK(s) /\ s.kind = "source"
  BY <1>1 DEF SyncOK, CommitSources
<1>3. /\ SourcesOK' /\ Stay(sources, sources')
      /\ s.op # "rollback" => Unpaused(sources')
      /\ s.op = "rollback" =>
           ExactRows("source", sources', Wanted(s.entries), Stale(sources, s))
  BY <1>1, FlushSources
<1>4. /\ Record(s) /\ Reply(sources, s) /\ UNCHANGED <<subs, dirs, watched, cli, writes>>
      /\ sync' = [sync EXCEPT ![c] = IF @.sub = NoTopic THEN Idle ELSE Subscribing(@.sub)]
  BY DEF CommitSources
<1>5. TablesOK
  BY <1>1, <1>3, <1>4, TablesKept DEF TablesOK
<1>6. SyncOK'
  <2> DEFINE t == Subscribing(s.sub)
  <2>1. s.sub = NoTopic \/ s.sub \in [name : Names, settings : Settings]
    BY <1>2 DEF TxOK
  <2>2. t = [op |-> "subscribe", kind |-> "source", label |-> 0, entries |-> <<>>,
             refused |-> {}, todo |-> <<>>, read |-> <<>>, changes |-> <<>>, adds |-> <<>>,
             sub |-> s.sub]
    BY DEF Subscribing
  <2> HIDE DEF t
  <2>3. DOMAIN t.adds = {} /\ DOMAIN t.changes = {} /\ DOMAIN t.read = {} /\ IsTx(t)
    BY <2>2 DEF IsTx
  <2>4. WritesOK(t) /\ Plain(t)
    BY <2>2, <2>3, FS_EmptySet DEF WritesOK, Plain, Kinds
  <2>5. TxOK(t)
    BY <2>1, <2>2, <2>3, <2>4 DEF TxOK, WholeTable
  <2>6. sync' = [sync EXCEPT ![c] = Idle] \/ sync' = [sync EXCEPT ![c] = t]
    BY <1>4 DEF t
  <2> HIDE DEF s
  <2>7. CASE sync' = [sync EXCEPT ![c] = Idle]
    BY <1>1, <1>5, <2>7, IdleStep
  <2>8. CASE sync' = [sync EXCEPT ![c] = t]
    BY <1>1, <1>5, <2>3, <2>5, <2>8, SyncStep
  <2> QED
    BY <2>6, <2>7, <2>8
<1> HIDE DEF s
<1>7. VersionsOK'
  BY <1>1, <1>2, <1>4, RecordStep
<1>8. /\ s.op \notin {"reload", "rollback"} => reply' = NoReply
      /\ s.op \in {"reload", "rollback"} => reply' = Answer(sources, s)
  BY <1>4 DEF Reply
<1>9. Exact'
  <2>1. CASE s.op \notin {"reload", "rollback"}
    BY <1>8, <2>1 DEF Exact, NoReply
  <2>2. CASE s.op \in {"reload", "rollback"}
    BY <1>2, <1>3, <1>8, <2>2 DEF Exact, Answer
  <2> QED
    BY <2>1, <2>2
<1>10. reply'.op = "rollback" \/ Unpaused(sources')
  <2>1. CASE s.op = "rollback"
    BY <1>8, <2>1 DEF Answer
  <2>2. CASE s.op # "rollback"
    BY <1>3, <2>2
  <2> QED
    BY <2>1, <2>2
<1>11. HeldOK' /\ DirsOK'
  BY <1>1, <1>4 DEF HeldOK, DirsOK
<1> QED
  BY <1>5, <1>6, <1>7, <1>9, <1>10, <1>11 DEF CatalogInv, TablesOK

LEMMA CommitSubsStep ==
  ASSUME CatalogInv, NEW c \in Clients, CommitSubs(c) PROVE CatalogInv'
<1> DEFINE s == sync[c]
<1>1. SourcesOK /\ SubsOK /\ SyncOK /\ HeldOK /\ DirsOK /\ VersionsOK
  BY DEF CatalogInv
<1>2. TxOK(s) /\ s.kind = "subscription"
  BY <1>1 DEF SyncOK, CommitSubs
<1>3. /\ SubsOK' /\ Stay(subs, subs')
      /\ ExactRows("subscription", subs', Wanted(s.entries), Stale(subs, s))
  BY <1>1, FlushSubs
<1>4. /\ Record(s) /\ Reply(subs, s) /\ UNCHANGED <<sources, dirs, watched, cli, writes>>
      /\ sync' = [sync EXCEPT ![c] = Idle]
  BY DEF CommitSubs
<1>5. TablesOK
  BY <1>1, <1>3, <1>4, TablesKept DEF TablesOK
<1>6. SyncOK'
  BY <1>1, <1>4, <1>5, IdleStep
<1> HIDE DEF s
<1>7. VersionsOK'
  BY <1>1, <1>2, <1>4, RecordStep
<1>8. reply' = NoReply \/ reply' = Answer(subs, s)
  BY <1>4 DEF Reply
<1>9. Exact'
  BY <1>2, <1>3, <1>8 DEF Exact, NoReply, Answer
<1>10. HeldOK' /\ DirsOK'
  BY <1>1, <1>4 DEF HeldOK, DirsOK
<1> QED
  BY <1>5, <1>6, <1>7, <1>9, <1>10 DEF CatalogInv, TablesOK

\* A step keeps the invariant, and what it may do to a paused source.
StaysPaused ==
  \A i \in DOMAIN sources :
    sources[i].status = "paused" /\ sources'[i].status = "active" =>
      \/ reply'.op = "rollback"
      \/ sources' = [sources EXCEPT ![i].status = "active"]

LEMMA CatalogStep ==
  ASSUME CatalogInv, [Next]_vars PROVE CatalogInv' /\ StaysPaused
<1>1. SourcesOK /\ SubsOK /\ SyncOK /\ HeldOK /\ DirsOK /\ VersionsOK /\ Exact
  BY DEF CatalogInv
<1>2. Unpaused(sources') => StaysPaused
  BY DEF Unpaused, StaysPaused
<1>3. UNCHANGED sources => Unpaused(sources')
  BY DEF Unpaused
<1>4. reply' = NoReply => Exact'
  BY DEF Exact, NoReply
<1>5. UNCHANGED <<watched, cli>> => HeldOK'
  BY <1>1 DEF HeldOK
<1>6. UNCHANGED dirs => DirsOK'
  BY <1>1 DEF DirsOK
<1>7. UNCHANGED versions => VersionsOK'
  BY <1>1 DEF VersionsOK
<1>8. UNCHANGED sync /\ TablesOK => SyncOK'
  BY <1>1, SyncStep
<1>9. UNCHANGED <<sources, subs, reply>> => Exact'
  BY <1>1 DEF Exact
<1>10. UNCHANGED <<sources, subs>> => TablesOK
  BY <1>1, TablesKept DEF TablesOK
<1>11. UNCHANGED sources => SourcesOK' /\ Stay(sources, sources')
  BY <1>1, TablesKept
<1>12. UNCHANGED subs => SubsOK' /\ Stay(subs, subs')
  BY <1>1, TablesKept
<1>13. CASE UNCHANGED vars
  BY <1>2, <1>3, <1>5, <1>6, <1>7, <1>8, <1>9, <1>10, <1>13 DEF CatalogInv, TablesOK
<1>14. ASSUME NEW i \in DOMAIN sources, PatchSource(i) \/ DeleteSource(i)
       PROVE  CatalogInv' /\ StaysPaused
  <2>1. /\ SourcesOK' /\ Stay(sources, sources')
        /\ Unpaused(sources') \/ sources' = [sources EXCEPT ![i].status = "active"]
    BY <1>1, <1>14, EditSources
  <2>2. StaysPaused
    <3>1. ASSUME sources' = [sources EXCEPT ![i].status = "active"] PROVE StaysPaused
      BY <1>1, <3>1 DEF StaysPaused, SourcesOK
    <3> QED
      BY <1>2, <2>1, <3>1
  <2>3. reply' = NoReply /\ UNCHANGED <<subs, dirs, versions, sync, watched, cli>>
    BY <1>14 DEF PatchSource, DeleteSource
  <2>4. TablesOK
    BY <1>12, <2>1, <2>3 DEF TablesOK
  <2> QED
    BY <1>4, <1>5, <1>6, <1>7, <1>8, <2>2, <2>3, <2>4 DEF CatalogInv, TablesOK
<1>15. ASSUME \/ \E i \in DOMAIN subs : PatchSub(i) \/ DeleteSub(i)
              \/ CliPatch
       PROVE  CatalogInv' /\ StaysPaused
  <2>1. SubsOK' /\ Stay(subs, subs')
    BY <1>1, <1>15, EditSubs
  <2>2. /\ reply' = NoReply /\ UNCHANGED <<sources, dirs, versions, sync, watched>>
        /\ cli' = cli \/ cli' = NoCli
    BY <1>15 DEF PatchSub, DeleteSub, CliPatch
  <2>3. TablesOK
    BY <1>11, <2>1, <2>2 DEF TablesOK
  <2>4. HeldOK'
    BY <1>1, <2>2 DEF HeldOK
  <2> QED
    BY <1>2, <1>3, <1>4, <1>6, <1>7, <1>8, <2>2, <2>3, <2>4 DEF CatalogInv, TablesOK
<1>16. ASSUME NEW n \in Names, NEW settings \in Settings, CreateSub(n, settings)
       PROVE  CatalogInv' /\ StaysPaused
  <2>1. SubsOK' /\ Stay(subs, subs')
    BY <1>1, <1>16, AppendedSub DEF CreateSub
  <2>2. reply' = NoReply /\ UNCHANGED <<sources, dirs, versions, sync, watched, cli>>
    BY <1>16 DEF CreateSub
  <2>3. TablesOK
    BY <1>11, <2>1, <2>2 DEF TablesOK
  <2> QED
    BY <1>2, <1>3, <1>4, <1>5, <1>6, <1>7, <1>8, <2>2, <2>3 DEF CatalogInv, TablesOK
<1>17. ASSUME NEW i \in DOMAIN subs, CliFetch(i) PROVE CatalogInv' /\ StaysPaused
  <2>1. subs[i].settings \in Settings
    <3>1. subs[i] \in SubRows
      BY <1>1 DEF SubsOK
    <3> QED
      BY <3>1 DEF SubRows
  <2>2. HeldOK'
    BY <1>1, <1>17, <2>1 DEF CliFetch, HeldOK
  <2>3. UNCHANGED <<sources, subs, dirs, versions, sync, reply>>
    BY <1>17 DEF CliFetch
  <2> QED
    BY <1>2, <1>3, <1>6, <1>7, <1>8, <1>9, <1>10, <2>2, <2>3 DEF CatalogInv, TablesOK
<1>18. ASSUME NEW c \in Clients, Begins(c) PROVE CatalogInv' /\ StaysPaused
  <2>1. SyncOK' /\ HeldOK' /\ TablesOK /\ UNCHANGED <<sources, subs, dirs, versions>>
        /\ reply' = NoReply
    BY <1>18, BeginStep
  <2> QED
    BY <1>2, <1>3, <1>4, <1>6, <1>7, <2>1 DEF CatalogInv, TablesOK
<1>19. ASSUME NEW c \in Clients, Select(c) PROVE CatalogInv' /\ StaysPaused
  <2>1. SyncOK' /\ TablesOK
    BY <1>19, SelectStep
  <2>2. reply' = NoReply /\ UNCHANGED <<sources, subs, dirs, versions, watched, cli>>
    BY <1>19 DEF Select
  <2> QED
    BY <1>2, <1>3, <1>4, <1>5, <1>6, <1>7, <2>1, <2>2 DEF CatalogInv, TablesOK
<1>20. ASSUME NEW c \in Clients, CommitSources(c) PROVE CatalogInv' /\ StaysPaused
  BY <1>2, <1>20, CommitSourcesStep DEF StaysPaused
<1>21. ASSUME NEW c \in Clients, CommitSubs(c) PROVE CatalogInv' /\ StaysPaused
  <2>1. UNCHANGED sources
    BY <1>21 DEF CommitSubs
  <2> QED
    BY <1>2, <1>3, <1>21, <2>1, CommitSubsStep
<1>22. ASSUME NEW c \in Clients, SubscribeTopic(c) PROVE CatalogInv' /\ StaysPaused
  <2> DEFINE sub == sync[c].sub
  <2>1. reply' = NoReply /\ UNCHANGED <<sources, dirs, versions, watched, cli>>
        /\ sync' = [sync EXCEPT ![c] = Idle]
        /\ subs' = IF sub.settings \in Sound THEN Append(subs, Sub(sub.name, sub.settings)) ELSE subs
    BY <1>22 DEF SubscribeTopic
  <2>2. sub.settings \in Sound => sub.name \in Names
    <3>1. sub = NoTopic \/ sub \in [name : Names, settings : Settings]
      BY <1>1 DEF SyncOK, TxOK
    <3>2. NoTopic.settings \notin Sound
      BY DEF NoTopic, Sound, SoundSource, SoundSub
    <3> QED
      BY <3>1, <3>2
  <2> HIDE DEF sub
  <2>3. SubsOK' /\ Stay(subs, subs')
    BY <1>1, <1>12, <2>1, <2>2, AppendedSub
  <2>4. TablesOK
    BY <1>11, <2>1, <2>3 DEF TablesOK
  <2>5. SyncOK'
    BY <1>1, <2>1, <2>4, IdleStep
  <2> QED
    BY <1>2, <1>3, <1>4, <1>5, <1>6, <1>7, <2>1, <2>4, <2>5 DEF CatalogInv, TablesOK
<1>23. ASSUME NEW c \in Clients, Fail(c) PROVE CatalogInv' /\ StaysPaused
  <2>1. reply' = NoReply /\ UNCHANGED <<sources, subs, dirs, versions, watched, cli>>
        /\ sync' = [sync EXCEPT ![c] = Idle]
    BY <1>23 DEF Fail
  <2>2. SyncOK'
    BY <1>1, <1>10, <2>1, IdleStep
  <2> QED
    BY <1>2, <1>3, <1>4, <1>5, <1>6, <1>7, <1>10, <2>1, <2>2 DEF CatalogInv, TablesOK
<1>24. ASSUME EditFiles PROVE CatalogInv' /\ StaysPaused
  <2>1. PICK k \in Kinds : \E dir \in Dirs[k] : dirs' = [dirs EXCEPT ![k] = dir]
    BY <1>24 DEF EditFiles
  <2>2. PICK dir \in Dirs[k] : dirs' = [dirs EXCEPT ![k] = dir]
    BY <2>1
  <2>3. dir \in Seq(Seq(Entries))
    BY DirIsFiles
  <2>4. DirsOK'
    BY <1>1, <2>2, <2>3 DEF DirsOK
  <2>5. reply' = NoReply /\ UNCHANGED <<sources, subs, versions, sync, watched, cli>>
    BY <1>24 DEF EditFiles
  <2> QED
    BY <1>2, <1>3, <1>4, <1>5, <1>7, <1>8, <1>10, <2>4, <2>5 DEF CatalogInv, TablesOK
<1>25. ASSUME NEW i \in DOMAIN dirs["source"], FileChanged(i) PROVE CatalogInv' /\ StaysPaused
  <2>1. reply' = NoReply /\ UNCHANGED <<sources, subs, dirs, versions, sync, cli>>
        /\ watched' = Validated(dirs["source"][i])
    BY <1>25 DEF FileChanged
  <2>2. dirs["source"] \in Seq(Seq(Entries))
    BY <1>1 DEF DirsOK, Kinds
  <2>3. dirs["source"][i] \in Seq(Entries)
    BY <2>2
  <2>4. watched' \in Seq(SoundEntries)
    BY <2>1, <2>3, ValidatedIs
  <2>5. HeldOK'
    BY <1>1, <2>1, <2>4 DEF HeldOK
  <2> QED
    BY <1>2, <1>3, <1>4, <1>6, <1>7, <1>8, <1>10, <2>1, <2>5 DEF CatalogInv, TablesOK
<1> QED
  BY <1>13, <1>14, <1>15, <1>16, <1>17, <1>18, <1>19, <1>20, <1>21, <1>22, <1>23, <1>24, <1>25
  DEF Next, Edits

LEMMA CatalogInvAlways == Spec => []CatalogInv
<1>1. CatalogInv /\ [Next]_vars => CatalogInv'
  BY CatalogStep
<1> QED
  BY <1>1, CatalogInit, PTL DEF Spec

-----------------------------------------------------------------------------

\* A paused or deleted source is active again only after a PATCH of its status
\* or a rollback, whatever is reloaded, enabled, created or edited on disk, and
\* whatever commits between the SELECT and the UPDATE of any of these.
THEOREM PausedStaysPaused == Spec => PausedStays
<1>1. CatalogInv /\ [Next]_vars => StaysPaused
  BY CatalogStep
<1>2. Spec => [][StaysPaused]_vars
  BY <1>1, CatalogInvAlways, PTL DEF Spec
<1> QED
  BY <1>2 DEF PausedStays, StaysPaused

\* A sync of subscriptions and a rollback of sources leave active exactly what
\* they name, with its settings, twins and the rows that others changed since
\* the SELECT aside: for any configuration, any number of rows of one name,
\* whichever of them the sync looks at, and any transactions beside it.
THEOREM SyncsAreExact == Spec => []SyncIsExact
<1>1. ASSUME CatalogInv PROVE SyncIsExact
  <2> DEFINE wanted == Wanted(reply.entries)
             stale == reply.stale
  <2>1. ASSUME reply.op # "none", reply.kind = "subscription"
        PROVE  /\ \A n \in DOMAIN wanted \ stale : \E i \in DOMAIN subs :
                    /\ subs[i].name = n /\ subs[i].settings = wanted[n]
                    /\ subs[i].digest = "code" /\ subs[i].status # "paused"
               /\ \A i \in DOMAIN subs : subs[i].status = "active" =>
                    subs[i].name \in DOMAIN wanted \union stale \/ Twin(i)
    <3>1. ExactRows("subscription", subs, wanted, stale)
      BY <1>1, <2>1 DEF CatalogInv, Exact
    <3> HIDE DEF wanted, stale
    <3> QED
      BY <3>1 DEF ExactRows, Twin
  <2>2. ASSUME reply.op = "rollback", reply.kind = "source"
        PROVE  /\ \A n \in DOMAIN wanted \ stale : \E i \in DOMAIN sources :
                    sources[i] = Source(n, wanted[n])
               /\ \A i \in DOMAIN sources : sources[i].status = "active" =>
                    sources[i].name \in DOMAIN wanted \union stale
    <3>1. ExactRows("source", sources, wanted, stale)
      BY <1>1, <2>2 DEF CatalogInv, Exact
    <3> HIDE DEF wanted, stale
    <3>2. Distinct(sources) /\ \A i \in DOMAIN sources : sources[i] \in SourceRows
      BY <1>1 DEF CatalogInv, SourcesOK
    <3>3. \A i \in DOMAIN sources : sources[i].status = "active" =>
            sources[i] = Source(sources[i].name, sources[i].settings)
      BY <3>2 DEF SourceRows, Source
    <3>4. \A n \in DOMAIN wanted \ stale : \E i \in DOMAIN sources :
            sources[i] = Source(n, wanted[n])
      BY <3>1, <3>3 DEF ExactRows
    <3>5. \A i \in DOMAIN sources : sources[i].status = "active" =>
            sources[i].name \in DOMAIN wanted \union stale
      BY <3>1, <3>2 DEF ExactRows, Distinct
    <3> QED
      BY <3>4, <3>5
  <2> QED
    BY <2>1, <2>2 DEF SyncIsExact
<1> QED
  BY <1>1, CatalogInvAlways, PTL

\* Whatever the API, the CLI, the agent, the watcher and the topics do to the
\* tables and to the files, a snapshot holds only what passed validate().
THEOREM SnapshotsStaySound == Spec => []SnapshotsSound
<1>1. CatalogInv => SnapshotsSound
  <2> SUFFICES ASSUME CatalogInv, NEW k \in Kinds, NEW l \in DOMAIN versions[k],
                      NEW i \in DOMAIN versions[k][l]
               PROVE  versions[k][l][i].settings \in Sound
    BY DEF SnapshotsSound
  <2>1. versions[k][l] \in Seq(SoundEntries)
    BY DEF CatalogInv, VersionsOK
  <2>2. versions[k][l][i] \in SoundEntries
    BY <2>1
  <2> QED
    BY <2>2 DEF SoundEntries
<1> QED
  BY <1>1, CatalogInvAlways, PTL
=============================================================================
