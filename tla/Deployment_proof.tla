-------------------------- MODULE Deployment_proof --------------------------
(***************************************************************************)
(* Theorems about Deployment, for every set of pipelines and templates,    *)
(* every choice of revisions to migrate to and any number of changes.      *)
(***************************************************************************)
EXTENDS Deployment, WellFoundedInduction, TLAPS

USE DEF vars, rows

-----------------------------------------------------------------------------
(* Numbers. *)

\* A set of numbers that is not empty has a least one.
LEMMA LeastNumber ==
  ASSUME NEW T, T \subseteq Nat, T # {}
  PROVE  \E m \in T : \A k \in T : m <= k
<1> DEFINE R == OpToRel(<, Nat)
<1>1. IsWellFoundedOn(R, Nat)
  BY NatLessThanWellFounded, Zenon
<1>2. R = {ss \in Nat \X Nat : ss[1] < ss[2]}
  BY Zenon DEF OpToRel
<1> HIDE DEF R
<1>3. PICK m \in T : \A k \in T : <<k, m>> \notin R
  BY <1>1, WFMin
<1>4. ASSUME NEW k \in T PROVE m <= k
  <2>1. <<k, m>> \in Nat \X Nat /\ <<k, m>>[1] = k /\ <<k, m>>[2] = m
    OBVIOUS
  <2>2. ~ (k < m)
    BY <1>2, <1>3, <2>1
  <2> QED
    BY <2>2
<1> QED
  BY <1>4

\* Induction, for a property that is stated as a set of numbers.
LEMMA NumberInduction ==
  ASSUME NEW S, 0 \in S, \A n \in Nat : n \in S => n + 1 \in S
  PROVE  \A n \in Nat : n \in S
<1> SUFFICES ASSUME NEW n \in Nat, n \notin S PROVE FALSE
  OBVIOUS
<1> DEFINE T == {k \in Nat : k \notin S}
<1>1. T \subseteq Nat /\ T # {}
  OBVIOUS
<1> HIDE DEF T
<1>2. PICK m \in T : \A k \in T : m <= k
  BY <1>1, LeastNumber
<1>3. m \in Nat /\ m \notin S
  BY <1>2 DEF T
<1>4. m # 0 /\ m - 1 \in Nat /\ m - 1 \notin S
  BY <1>3
<1>5. m - 1 \in T
  BY <1>4 DEF T
<1> QED
  BY <1>2, <1>3, <1>5

-----------------------------------------------------------------------------
(* Migrations one after the other. *)

\* The way up: an induction over its length.
LEMMA UpPath ==
  ASSUME NEW s, NEW from \in 0 .. Latest
  PROVE  /\ Migrated(s, from, from) = s
         /\ \A r \in from + 1 .. Latest :
              Migrated(s, from, r) = Up(Migrated(s, from, r - 1), r)
<1> DEFINE Is(f, m) == f = [r \in from .. from + m |-> IF r = from THEN s ELSE Up(f[r - 1], r)]
           N == Latest - from
           upgraded[r \in from .. Latest] == IF r = from THEN s ELSE Up(upgraded[r - 1], r)
           M == {m \in Nat : \E f : Is(f, m)}
<1>1. N \in Nat /\ from + N = Latest /\ from \in Nat /\ Latest \in Nat
  BY DEF Latest
<1>2. upgraded = CHOOSE f : Is(f, N)
  BY <1>1, Zenon DEF upgraded
<1>3. 0 \in M
  <2>1. Is([r \in from .. from + 0 |-> s], 0)
    BY <1>1
  <2> HIDE DEF Is
  <2> QED
    BY <2>1
<1>4. ASSUME NEW m \in Nat, m \in M PROVE m + 1 \in M
  <2>1. PICK f : Is(f, m)
    BY <1>4
  <2> DEFINE g == [r \in from .. from + (m + 1) |->
                     IF r <= from + m THEN f[r] ELSE Up(f[from + m], r)]
             step(r) == IF r = from THEN s ELSE Up(g[r - 1], r)
  <2>2. ASSUME NEW r \in from .. from + (m + 1) PROVE g[r] = step(r)
    <3>1. CASE r <= from + m
      <4>1. r \in from .. from + m
            /\ (r # from => r - 1 \in from .. from + (m + 1) /\ r - 1 <= from + m)
        BY <1>1, <3>1
      <4>2. r # from => g[r - 1] = f[r - 1]
        BY <4>1
      <4> QED
        BY <2>1, <3>1, <4>1, <4>2
    <3>2. CASE r = from + (m + 1)
      <4>1. /\ ~(r <= from + m) /\ r # from /\ r - 1 = from + m
            /\ from + m \in from .. from + (m + 1) /\ from + m <= from + m
        BY <1>1, <3>2
      <4>2. g[from + m] = f[from + m] /\ g[r] = Up(f[from + m], r)
        BY <4>1
      <4> HIDE DEF g
      <4> QED
        BY <4>1, <4>2
    <3> QED
      BY <1>1, <3>1, <3>2
  <2>3. Is(g, m + 1)
    <3>1. g = [r \in from .. from + (m + 1) |-> g[r]]
      OBVIOUS
    <3> HIDE DEF g
    <3> QED
      BY <2>2, <3>1
  <2> HIDE DEF Is, g
  <2> QED
    BY <2>3
<1> HIDE DEF M
<1>5. N \in M
  BY <1>1, <1>3, <1>4, NumberInduction
<1>6. \E f : Is(f, N)
  <2> HIDE DEF Is, N
  <2> QED
    BY <1>5 DEF M
<1>7. Is(upgraded, N)
  <2> HIDE DEF Is, upgraded
  <2> QED
    BY <1>2, <1>6, Zenon
<1> HIDE DEF upgraded
<1>8. \A r \in from .. Latest :
        upgraded[r] = IF r = from THEN s ELSE Up(upgraded[r - 1], r)
  BY <1>1, <1>7
<1>9. ASSUME NEW r \in from .. Latest PROVE Migrated(s, from, r) = upgraded[r]
  <2>1. from <= r
    BY <1>1
  <2> QED
    BY <2>1, Zenon DEF Migrated, upgraded
<1>10. from \in from .. Latest
  BY <1>1
<1>11. \A r \in from + 1 .. Latest :
         r \in from .. Latest /\ r # from /\ r - 1 \in from .. Latest
  BY <1>1
<1>12. Migrated(s, from, from) = s
  BY <1>8, <1>9, <1>10
<1>13. ASSUME NEW r \in from + 1 .. Latest
       PROVE  Migrated(s, from, r) = Up(Migrated(s, from, r - 1), r)
  <2>1. Migrated(s, from, r) = upgraded[r] /\ Migrated(s, from, r - 1) = upgraded[r - 1]
    BY <1>9, <1>11
  <2>2. upgraded[r] = Up(upgraded[r - 1], r)
    BY <1>8, <1>11
  <2> QED
    BY <2>1, <2>2
<1> QED
  BY <1>12, <1>13

\* The way down.
LEMMA DownPath ==
  ASSUME NEW s, NEW from \in 0 .. Latest
  PROVE  \A r \in 0 .. from - 1 :
           Migrated(s, from, r) =
             Down(IF r = from - 1 THEN s ELSE Migrated(s, from, r + 1), r + 1)
<1> DEFINE Is(f, m) ==
             f = [r \in from - m .. from |-> IF r = from THEN s ELSE Down(f[r + 1], r + 1)]
           downgraded[r \in 0 .. from] ==
             IF r = from THEN s ELSE Down(downgraded[r + 1], r + 1)
           M == {m \in Nat : \E f : Is(f, m)}
<1>1. from \in Nat /\ from - from = 0 /\ Latest \in Nat
  BY DEF Latest
<1>2. downgraded = CHOOSE f : Is(f, from)
  BY <1>1, Zenon DEF downgraded
<1>3. 0 \in M
  <2>1. Is([r \in from - 0 .. from |-> s], 0)
    BY <1>1
  <2> HIDE DEF Is
  <2> QED
    BY <2>1
<1>4. ASSUME NEW m \in Nat, m \in M PROVE m + 1 \in M
  <2>1. PICK f : Is(f, m)
    BY <1>4
  <2> DEFINE g == [r \in from - (m + 1) .. from |->
                     IF r >= from - m THEN f[r] ELSE Down(f[from - m], r + 1)]
             step(r) == IF r = from THEN s ELSE Down(g[r + 1], r + 1)
  <2>2. ASSUME NEW r \in from - (m + 1) .. from PROVE g[r] = step(r)
    <3>1. CASE r >= from - m
      <4>1. r \in from - m .. from
            /\ (r # from => r + 1 \in from - (m + 1) .. from /\ r + 1 >= from - m)
        BY <1>1, <3>1
      <4>2. r # from => g[r + 1] = f[r + 1]
        BY <4>1
      <4> QED
        BY <2>1, <3>1, <4>1, <4>2
    <3>2. CASE r = from - (m + 1)
      <4>1. /\ ~(r >= from - m) /\ r # from /\ r + 1 = from - m
            /\ from - m \in from - (m + 1) .. from /\ from - m >= from - m
        BY <1>1, <3>2
      <4>2. g[from - m] = f[from - m] /\ g[r] = Down(f[from - m], r + 1)
        BY <4>1
      <4> HIDE DEF g
      <4> QED
        BY <4>1, <4>2
    <3> QED
      BY <1>1, <3>1, <3>2
  <2>3. Is(g, m + 1)
    <3>1. g = [r \in from - (m + 1) .. from |-> g[r]]
      OBVIOUS
    <3> HIDE DEF g
    <3> QED
      BY <2>2, <3>1
  <2> HIDE DEF Is, g
  <2> QED
    BY <2>3
<1> HIDE DEF M
<1>5. from \in M
  BY <1>1, <1>3, <1>4, NumberInduction
<1>6. \E f : Is(f, from)
  <2> HIDE DEF Is
  <2> QED
    BY <1>5 DEF M
<1>7. Is(downgraded, from)
  <2> HIDE DEF Is, downgraded
  <2> QED
    BY <1>2, <1>6, Zenon
<1> HIDE DEF downgraded
<1>8. \A r \in 0 .. from :
        downgraded[r] = IF r = from THEN s ELSE Down(downgraded[r + 1], r + 1)
  BY <1>1, <1>7
<1>9. ASSUME NEW r \in 0 .. from - 1 PROVE Migrated(s, from, r) = downgraded[r]
  <2>1. ~(from <= r)
    BY <1>1
  <2> QED
    BY <2>1, Zenon DEF Migrated, downgraded
<1>10. downgraded[from] = s
  BY <1>1, <1>8
<1> SUFFICES ASSUME NEW r \in 0 .. from - 1
             PROVE  Migrated(s, from, r) =
               Down(IF r = from - 1 THEN s ELSE Migrated(s, from, r + 1), r + 1)
  OBVIOUS
<1>11. /\ r \in 0 .. from /\ r # from
       /\ r = from - 1 => r + 1 = from
       /\ r # from - 1 => r + 1 \in 0 .. from - 1
  BY <1>1
<1>12. downgraded[r + 1] = IF r = from - 1 THEN s ELSE Migrated(s, from, r + 1)
  BY <1>9, <1>10, <1>11
<1> QED
  BY <1>8, <1>9, <1>11, <1>12

\* The tables of a revision come from those of the one before it.
LEMMA SchemaAtUp ==
  /\ SchemaAt[0] = NoSchema
  /\ \A r \in 1 .. Latest : SchemaAt[r] = Up(SchemaAt[r - 1], r)
<1>1. 0 \in 0 .. Latest /\ 0 + 1 = 1
  BY DEF Latest
<1>2. /\ Migrated(NoSchema, 0, 0) = NoSchema
      /\ \A r \in 1 .. Latest :
           Migrated(NoSchema, 0, r) = Up(Migrated(NoSchema, 0, r - 1), r)
  BY <1>1, UpPath
<1>3. \A r \in 1 .. Latest : r \in 0 .. Latest /\ r - 1 \in 0 .. Latest
  BY DEF Latest
<1>4. \A r \in 0 .. Latest : SchemaAt[r] = Migrated(NoSchema, 0, r)
  BY DEF SchemaAt
<1> QED
  BY <1>1, <1>2, <1>3, <1>4

-----------------------------------------------------------------------------
(* What one migration undoes of another. *)

IsSchema(s) == s = [t \in DOMAIN s |-> s[t]]

\* What the operations on schemas do, table by table.
LEMMA AddIs ==
  ASSUME NEW s, IsSchema(s), NEW t \in DOMAIN s, NEW columns
  PROVE  /\ IsSchema(Add(s, t, columns)) /\ DOMAIN Add(s, t, columns) = DOMAIN s
         /\ Add(s, t, columns)[t] = s[t] \union columns
         /\ \A u \in DOMAIN s : u # t => Add(s, t, columns)[u] = s[u]
BY DEF IsSchema, Add

LEMMA DropIs ==
  ASSUME NEW s, IsSchema(s), NEW t \in DOMAIN s, NEW columns
  PROVE  /\ IsSchema(Drop(s, t, columns)) /\ DOMAIN Drop(s, t, columns) = DOMAIN s
         /\ Drop(s, t, columns)[t] = s[t] \ columns
         /\ \A u \in DOMAIN s : u # t => Drop(s, t, columns)[u] = s[u]
BY DEF IsSchema, Drop

LEMMA CreateIs ==
  ASSUME NEW s, IsSchema(s), NEW new, DOMAIN new \intersect DOMAIN s = {}
  PROVE  /\ IsSchema(Create(s, new)) /\ DOMAIN Create(s, new) = DOMAIN s \union DOMAIN new
         /\ \A u \in DOMAIN s : Create(s, new)[u] = s[u]
         /\ \A u \in DOMAIN new : Create(s, new)[u] = new[u]
BY DEF IsSchema, Create

\* Columns that were not there are dropped again.
LEMMA DropAdded ==
  ASSUME NEW s, IsSchema(s), NEW t \in DOMAIN s, NEW columns, s[t] \intersect columns = {}
  PROVE  Drop(Add(s, t, columns), t, columns) = s
<1> DEFINE a == Add(s, t, columns)
           d == Drop(a, t, columns)
<1>1. /\ IsSchema(a) /\ DOMAIN a = DOMAIN s /\ a[t] = s[t] \union columns
      /\ \A u \in DOMAIN s : u # t => a[u] = s[u]
  BY AddIs
<1> HIDE DEF a
<1>2. /\ IsSchema(d) /\ DOMAIN d = DOMAIN s /\ d[t] = a[t] \ columns
      /\ \A u \in DOMAIN s : u # t => d[u] = s[u]
  BY <1>1, DropIs
<1> HIDE DEF d
<1>3. d[t] = s[t]
  BY <1>1, <1>2
<1>4. d = s
  BY <1>2, <1>3 DEF IsSchema
<1> QED
  BY <1>4 DEF a, d

\* Tables that were not there are dropped again.
LEMMA WithoutCreated ==
  ASSUME NEW s, IsSchema(s), NEW new, DOMAIN new \intersect DOMAIN s = {}
  PROVE  Without(Create(s, new), DOMAIN new) = s
<1> DEFINE c == Create(s, new)
<1>1. DOMAIN c = DOMAIN s \union DOMAIN new /\ \A u \in DOMAIN s : c[u] = s[u]
  BY CreateIs
<1> HIDE DEF c
<1>2. DOMAIN c \ DOMAIN new = DOMAIN s
  BY <1>1
<1>3. Without(c, DOMAIN new) = [t \in DOMAIN s |-> s[t]]
  BY <1>1, <1>2 DEF Without
<1> QED
  BY <1>3 DEF IsSchema, c

\* The tables that later revisions change.
Changed == {"subscriptions", "sources", "raw_contents", "push_records",
            "processed_contents", "content_clusters", "collect_tasks"}

\* A column that a table does not have, and one that it has.
Lacks(s, t, column) == column \notin s[t]
Has(s, t, column) == column \in s[t]

\* What becomes of them where columns are added to one table.
Kept(s, a, t, columns) ==
  /\ IsSchema(a) /\ DOMAIN s \subseteq DOMAIN a
  /\ \A u \in DOMAIN s : \A c : Lacks(s, u, c) /\ ~(u = t /\ c \in columns) => Lacks(a, u, c)
  /\ \A u \in DOMAIN s : \A c : Has(s, u, c) => Has(a, u, c)

\* Other columns stay, or stay away, where columns are added ...
LEMMA AddKept ==
  ASSUME NEW s, IsSchema(s), NEW t \in DOMAIN s, NEW columns
  PROVE  /\ Kept(s, Add(s, t, columns), t, columns)
         /\ DOMAIN Add(s, t, columns) = DOMAIN s
<1> DEFINE a == Add(s, t, columns)
<1>1. /\ IsSchema(a) /\ DOMAIN a = DOMAIN s /\ a[t] = s[t] \union columns
      /\ \A u \in DOMAIN s : u # t => a[u] = s[u]
  BY AddIs
<1> HIDE DEF a
<1>2. ASSUME NEW u \in DOMAIN s, NEW c
      PROVE  /\ Lacks(s, u, c) /\ ~(u = t /\ c \in columns) => Lacks(a, u, c)
             /\ Has(s, u, c) => Has(a, u, c)
  <2>1. CASE u = t
    BY <1>1, <2>1 DEF Lacks, Has
  <2>2. CASE u # t
    BY <1>1, <2>2 DEF Lacks, Has
  <2> QED
    BY <2>1, <2>2
<1>3. Kept(s, a, t, columns)
  BY <1>1, <1>2 DEF Kept
<1> QED
  BY <1>1, <1>3 DEF a

\* ... and where tables are created.
LEMMA CreateKept ==
  ASSUME NEW s, IsSchema(s), NEW new, DOMAIN new \intersect DOMAIN s = {}
  PROVE  /\ Kept(s, Create(s, new), "none", {})
         /\ DOMAIN Create(s, new) = DOMAIN s \union DOMAIN new
<1> DEFINE a == Create(s, new)
<1>1. /\ IsSchema(a) /\ DOMAIN a = DOMAIN s \union DOMAIN new
      /\ \A u \in DOMAIN s : a[u] = s[u]
  BY CreateIs
<1> HIDE DEF a
<1>2. \A u \in DOMAIN s : \A c : (Lacks(s, u, c) => Lacks(a, u, c)) /\ (Has(s, u, c) => Has(a, u, c))
  BY <1>1 DEF Lacks, Has
<1>3. Kept(s, a, "none", {})
  BY <1>1, <1>2 DEF Kept
<1> QED
  BY <1>1, <1>3 DEF a

\* What revision q adds and a schema does not have, or is to replace and has.
Waits(s, q) ==
  /\ q = 2 => /\ Lacks(s, "subscriptions", "timezone")
              /\ Lacks(s, "subscriptions", "discipline_tags")
              /\ Lacks(s, "sources", "discipline_tags")
  /\ q = 3 => Lacks(s, "raw_contents", "status") /\ Lacks(s, "raw_contents", "processed_at")
  /\ q = 4 => Lacks(s, "push_records", "recipient_id")
  /\ q = 5 => "config_versions" \notin DOMAIN s
  /\ q = 6 => "subscription_config_versions" \notin DOMAIN s
  /\ q = 8 => Lacks(s, "processed_contents", "discipline_tags")
  /\ q = 9 => Lacks(s, "subscriptions", "last_sent_at")
  /\ q = 10 => Lacks(s, "push_records", "render_mode")
  /\ q = 11 => "pipelines" \notin DOMAIN s /\ "pipeline_steps" \notin DOMAIN s
  /\ q = 12 => "templates" \notin DOMAIN s
  /\ q = 13 => Lacks(s, "collect_tasks", "celery_task_id")
  /\ q = 15 => /\ Has(s, "processed_contents", "embedding_1536")
               /\ Lacks(s, "processed_contents", "embedding_1024")
               /\ Has(s, "content_clusters", "centroid_1536")
               /\ Lacks(s, "content_clusters", "centroid_1024")

\* A schema that no revision after r has been applied to.
Fresh(s, r) ==
  /\ IsSchema(s) /\ Changed \subseteq DOMAIN s
  /\ \A q \in 2 .. Latest : r < q => Waits(s, q)

\* The tables of 001.
InitialTables ==
  {"sources", "task_chains", "collect_tasks", "raw_contents", "content_clusters",
   "processed_contents", "digests", "llm_call_logs", "subscriptions", "push_records",
   "chat_sessions"}

\* The schema of 001, table by table.
LEMMA InitialIs ==
  ASSUME NEW s, s = InitialSchema(NoSchema)
  PROVE  /\ IsSchema(s) /\ DOMAIN s = InitialTables
         /\ s["sources"] = SourcesTable
         /\ \A t \in DOMAIN TaskTables : s[t] = TaskTables[t]
         /\ \A t \in DOMAIN ContentTables : s[t] = ContentTables[t]
         /\ \A t \in DOMAIN DigestTables : s[t] = DigestTables[t]
         /\ \A t \in DOMAIN DeliveryTables : s[t] = DeliveryTables[t]
<1> DEFINE new1 == [sources |-> SourcesTable]
           s1 == Create(NoSchema, new1)
           s2 == Create(s1, TaskTables)
           s3 == Create(s2, ContentTables)
           s4 == Create(s3, DigestTables)
           s5 == Create(s4, DeliveryTables)
<1>1. InitialSchema(NoSchema) = s5
  BY DEF InitialSchema
<1>2. IsSchema(NoSchema) /\ DOMAIN NoSchema = {}
  BY DEF IsSchema, NoSchema
<1>3. /\ IsSchema(s1) /\ DOMAIN s1 = {"sources"} /\ s1["sources"] = SourcesTable
  <2>1. DOMAIN new1 = {"sources"} /\ new1["sources"] = SourcesTable
    OBVIOUS
  <2> HIDE DEF new1
  <2>2. DOMAIN new1 \intersect DOMAIN NoSchema = {}
    BY <1>2
  <2>3. /\ IsSchema(s1) /\ DOMAIN s1 = DOMAIN NoSchema \union DOMAIN new1
        /\ \A u \in DOMAIN new1 : s1[u] = new1[u]
    BY <1>2, <2>2, CreateIs
  <2> HIDE DEF s1
  <2> QED
    BY <1>2, <2>1, <2>3
<1> HIDE DEF s1
<1>4. DOMAIN TaskTables = {"task_chains", "collect_tasks"}
  BY DEF TaskTables
<1>5. /\ IsSchema(s2) /\ DOMAIN s2 = DOMAIN s1 \union DOMAIN TaskTables
      /\ \A t \in DOMAIN s1 : s2[t] = s1[t]
      /\ \A t \in DOMAIN TaskTables : s2[t] = TaskTables[t]
  <2>1. DOMAIN TaskTables \intersect DOMAIN s1 = {}
    BY <1>3, <1>4
  <2> QED
    BY <1>3, <2>1, CreateIs
<1> HIDE DEF s2
<1>6. DOMAIN ContentTables = {"raw_contents", "content_clusters", "processed_contents"}
  BY DEF ContentTables
<1>7. /\ IsSchema(s3) /\ DOMAIN s3 = DOMAIN s2 \union DOMAIN ContentTables
      /\ \A t \in DOMAIN s2 : s3[t] = s2[t]
      /\ \A t \in DOMAIN ContentTables : s3[t] = ContentTables[t]
  <2>1. DOMAIN ContentTables \intersect DOMAIN s2 = {}
    BY <1>3, <1>4, <1>5, <1>6
  <2> QED
    BY <1>5, <2>1, CreateIs
<1> HIDE DEF s3
<1>8. DOMAIN DigestTables = {"digests", "llm_call_logs"}
  BY DEF DigestTables
<1>9. /\ IsSchema(s4) /\ DOMAIN s4 = DOMAIN s3 \union DOMAIN DigestTables
      /\ \A t \in DOMAIN s3 : s4[t] = s3[t]
      /\ \A t \in DOMAIN DigestTables : s4[t] = DigestTables[t]
  <2>1. DOMAIN DigestTables \intersect DOMAIN s3 = {}
    BY <1>3, <1>4, <1>5, <1>6, <1>7, <1>8
  <2> QED
    BY <1>7, <2>1, CreateIs
<1> HIDE DEF s4
<1>10. DOMAIN DeliveryTables = {"subscriptions", "push_records", "chat_sessions"}
  BY DEF DeliveryTables
<1>11. /\ IsSchema(s5) /\ DOMAIN s5 = DOMAIN s4 \union DOMAIN DeliveryTables
       /\ \A t \in DOMAIN s4 : s5[t] = s4[t]
       /\ \A t \in DOMAIN DeliveryTables : s5[t] = DeliveryTables[t]
  <2>1. DOMAIN DeliveryTables \intersect DOMAIN s4 = {}
    BY <1>3, <1>4, <1>5, <1>6, <1>7, <1>8, <1>9, <1>10
  <2> QED
    BY <1>9, <2>1, CreateIs
<1> HIDE DEF s5
<1>12. DOMAIN s5 = InitialTables
  BY <1>3, <1>4, <1>5, <1>6, <1>7, <1>8, <1>9, <1>10, <1>11 DEF InitialTables
<1>13. /\ s5["sources"] = SourcesTable
       /\ \A t \in DOMAIN TaskTables : s5[t] = TaskTables[t]
       /\ \A t \in DOMAIN ContentTables : s5[t] = ContentTables[t]
       /\ \A t \in DOMAIN DigestTables : s5[t] = DigestTables[t]
       /\ \A t \in DOMAIN DeliveryTables : s5[t] = DeliveryTables[t]
  BY <1>3, <1>5, <1>7, <1>9, <1>11
<1> QED
  BY <1>1, <1>11, <1>12, <1>13

\* The columns of 001 that later revisions are about.
LEMMA FreshFirst == Fresh(InitialSchema(NoSchema), 1)
<1> DEFINE s5 == InitialSchema(NoSchema)
<1> HIDE DEF s5
<1>1. /\ IsSchema(s5) /\ DOMAIN s5 = InitialTables
      /\ s5["sources"] = SourcesTable
      /\ \A t \in DOMAIN TaskTables : s5[t] = TaskTables[t]
      /\ \A t \in DOMAIN ContentTables : s5[t] = ContentTables[t]
      /\ \A t \in DOMAIN DeliveryTables : s5[t] = DeliveryTables[t]
  BY InitialIs DEF s5
<1>2. Changed \subseteq DOMAIN s5
  BY <1>1 DEF Changed, InitialTables
<1>3. /\ "config_versions" \notin DOMAIN s5 /\ "subscription_config_versions" \notin DOMAIN s5
       /\ "pipelines" \notin DOMAIN s5 /\ "pipeline_steps" \notin DOMAIN s5
       /\ "templates" \notin DOMAIN s5
  BY <1>1 DEF InitialTables
<1>4. /\ s5["collect_tasks"] = TaskTables.collect_tasks
       /\ s5["raw_contents"] = ContentTables.raw_contents
       /\ s5["content_clusters"] = ContentTables.content_clusters
       /\ s5["processed_contents"] = ContentTables.processed_contents
       /\ s5["subscriptions"] = DeliveryTables.subscriptions
       /\ s5["push_records"] = DeliveryTables.push_records
  <2>1. /\ "collect_tasks" \in DOMAIN TaskTables
        /\ {"raw_contents", "content_clusters", "processed_contents"} \subseteq DOMAIN ContentTables
        /\ {"subscriptions", "push_records"} \subseteq DOMAIN DeliveryTables
    BY DEF TaskTables, ContentTables, DeliveryTables
  <2> QED
    BY <1>1, <2>1
<1>5. Lacks(s5, "sources", "discipline_tags")
  BY <1>1 DEF SourcesTable, Stamped, Id, Lacks
<1>6. Lacks(s5, "collect_tasks", "celery_task_id")
  BY <1>4 DEF TaskTables, Timed, Id, Lacks
<1>7. /\ Lacks(s5, "raw_contents", "status") /\ Lacks(s5, "raw_contents", "processed_at")
       /\ Lacks(s5, "processed_contents", "discipline_tags")
  BY <1>4 DEF ContentTables, Id, Lacks
<1>8. /\ Has(s5, "processed_contents", "embedding_1536")
       /\ Lacks(s5, "processed_contents", "embedding_1024")
       /\ Has(s5, "content_clusters", "centroid_1536")
       /\ Lacks(s5, "content_clusters", "centroid_1024")
  BY <1>4 DEF ContentTables, Stamped, Id, Lacks, Has
<1>9. /\ Lacks(s5, "subscriptions", "timezone") /\ Lacks(s5, "subscriptions", "discipline_tags")
       /\ Lacks(s5, "subscriptions", "last_sent_at")
       /\ Lacks(s5, "push_records", "recipient_id")
       /\ Lacks(s5, "push_records", "render_mode")
  BY <1>4 DEF DeliveryTables, Stamped, Id, Lacks
<1>10. \A q : Waits(s5, q)
  BY <1>3, <1>5, <1>6, <1>7, <1>8, <1>9 DEF Waits
<1>11. Fresh(s5, 1)
  BY <1>1, <1>2, <1>10 DEF Fresh
<1> QED
  BY <1>11 DEF s5

-----------------------------------------------------------------------------
(* Every migration undone, and what it leaves for the ones after it. *)

\* The r-th migration does what it should on a schema that is fresh for it.
Sound(s, r) == Fresh(Up(s, r), r) /\ Down(Up(s, r), r) = s

\* What a schema that is fresh for r waits for, and when the next one is fresh.
LEMMA FreshIs ==
  ASSUME NEW s, NEW r \in 2 .. Latest, Fresh(s, r - 1)
  PROVE  /\ IsSchema(s) /\ Changed \subseteq DOMAIN s /\ Waits(s, r)
         /\ \A a : /\ IsSchema(a) /\ DOMAIN s \subseteq DOMAIN a
                   /\ \A q \in r + 1 .. Latest : Waits(s, q) => Waits(a, q)
                   => Fresh(a, r)
<1>1. Latest \in Nat /\ r \in Nat /\ r - 1 < r
  BY DEF Latest
<1>2. IsSchema(s) /\ Changed \subseteq DOMAIN s /\ Waits(s, r)
  BY <1>1 DEF Fresh
<1>3. ASSUME NEW a, IsSchema(a), DOMAIN s \subseteq DOMAIN a,
             \A q \in r + 1 .. Latest : Waits(s, q) => Waits(a, q)
      PROVE  Fresh(a, r)
  <2>1. \A q \in 2 .. Latest : r < q => q \in r + 1 .. Latest /\ r - 1 < q
    BY <1>1
  <2>2. \A q \in 2 .. Latest : r < q => Waits(a, q)
    BY <1>3, <2>1 DEF Fresh
  <2> QED
    BY <1>2, <1>3, <2>2 DEF Fresh
<1> QED
  BY <1>2, <1>3

\* The migrations that add columns to one table ...
LEMMA ColumnsSound ==
  ASSUME NEW s, NEW r \in {3, 4, 8, 9, 10, 13}, Fresh(s, r - 1) PROVE Sound(s, r)
<1>0. r \in 2 .. Latest /\ Latest = 15
  BY DEF Latest
<1>1. IsSchema(s) /\ Changed \subseteq DOMAIN s /\ Waits(s, r)
  BY <1>0, FreshIs
<1>2. CASE r = 3
  <2> DEFINE columns == {"status", "processed_at"}
             a == Add(s, "raw_contents", columns)
  <2>1. Up(s, 3) = a
    BY DEF Up, AddRawStatus
  <2>2. Down(a, 3) = Drop(a, "raw_contents", columns)
    BY DEF Down, DropRawStatus
  <2>3. Lacks(s, "raw_contents", "status") /\ Lacks(s, "raw_contents", "processed_at")
    BY <1>1, <1>2 DEF Waits
  <2>4. "raw_contents" \in DOMAIN s /\ s["raw_contents"] \intersect columns = {}
    BY <1>1, <2>3 DEF Lacks, Changed
  <2>5. Kept(s, a, "raw_contents", columns) /\ DOMAIN a = DOMAIN s
    <3> HIDE DEF columns
    <3> QED
      BY <1>1, <2>4, AddKept
  <2>6. Drop(a, "raw_contents", columns) = s
    <3> HIDE DEF columns
    <3> QED
      BY <1>1, <2>4, DropAdded
  <2> HIDE DEF a
  <2>7. ASSUME NEW q \in r + 1 .. Latest, Waits(s, q) PROVE Waits(a, q)
    BY <1>0, <1>1, <1>2, <2>5, <2>7 DEF Waits, Changed, Kept
  <2>8. Fresh(a, r)
    BY <1>0, <2>5, <2>7, FreshIs DEF Kept
  <2> QED
    BY <1>2, <2>1, <2>2, <2>6, <2>8 DEF Sound
<1>3. CASE r = 4
  <2> DEFINE columns == {"recipient_id"}
             a == Add(s, "push_records", columns)
  <2>1. Up(s, 4) = a
    BY DEF Up, AddRecipient
  <2>2. Down(a, 4) = Drop(a, "push_records", columns)
    BY DEF Down, DropRecipient
  <2>3. Lacks(s, "push_records", "recipient_id")
    BY <1>1, <1>3 DEF Waits
  <2>4. "push_records" \in DOMAIN s /\ s["push_records"] \intersect columns = {}
    BY <1>1, <2>3 DEF Lacks, Changed
  <2>5. Kept(s, a, "push_records", columns) /\ DOMAIN a = DOMAIN s
    <3> HIDE DEF columns
    <3> QED
      BY <1>1, <2>4, AddKept
  <2>6. Drop(a, "push_records", columns) = s
    <3> HIDE DEF columns
    <3> QED
      BY <1>1, <2>4, DropAdded
  <2> HIDE DEF a
  <2>7. ASSUME NEW q \in r + 1 .. Latest, Waits(s, q) PROVE Waits(a, q)
    BY <1>0, <1>1, <1>3, <2>5, <2>7 DEF Waits, Changed, Kept
  <2>8. Fresh(a, r)
    BY <1>0, <2>5, <2>7, FreshIs DEF Kept
  <2> QED
    BY <1>3, <2>1, <2>2, <2>6, <2>8 DEF Sound
<1>4. CASE r = 8
  <2> DEFINE columns == {"discipline_tags"}
             a == Add(s, "processed_contents", columns)
  <2>1. Up(s, 8) = a
    BY DEF Up, AddContentTags
  <2>2. Down(a, 8) = Drop(a, "processed_contents", columns)
    BY DEF Down, DropContentTags
  <2>3. Lacks(s, "processed_contents", "discipline_tags")
    BY <1>1, <1>4 DEF Waits
  <2>4. "processed_contents" \in DOMAIN s /\ s["processed_contents"] \intersect columns = {}
    BY <1>1, <2>3 DEF Lacks, Changed
  <2>5. Kept(s, a, "processed_contents", columns) /\ DOMAIN a = DOMAIN s
    <3> HIDE DEF columns
    <3> QED
      BY <1>1, <2>4, AddKept
  <2>6. Drop(a, "processed_contents", columns) = s
    <3> HIDE DEF columns
    <3> QED
      BY <1>1, <2>4, DropAdded
  <2> HIDE DEF a
  <2>7. ASSUME NEW q \in r + 1 .. Latest, Waits(s, q) PROVE Waits(a, q)
    BY <1>0, <1>1, <1>4, <2>5, <2>7 DEF Waits, Changed, Kept
  <2>8. Fresh(a, r)
    BY <1>0, <2>5, <2>7, FreshIs DEF Kept
  <2> QED
    BY <1>4, <2>1, <2>2, <2>6, <2>8 DEF Sound
<1>5. CASE r = 9
  <2> DEFINE columns == {"last_sent_at"}
             a == Add(s, "subscriptions", columns)
  <2>1. Up(s, 9) = a
    BY DEF Up, AddLastSent
  <2>2. Down(a, 9) = Drop(a, "subscriptions", columns)
    BY DEF Down, DropLastSent
  <2>3. Lacks(s, "subscriptions", "last_sent_at")
    BY <1>1, <1>5 DEF Waits
  <2>4. "subscriptions" \in DOMAIN s /\ s["subscriptions"] \intersect columns = {}
    BY <1>1, <2>3 DEF Lacks, Changed
  <2>5. Kept(s, a, "subscriptions", columns) /\ DOMAIN a = DOMAIN s
    <3> HIDE DEF columns
    <3> QED
      BY <1>1, <2>4, AddKept
  <2>6. Drop(a, "subscriptions", columns) = s
    <3> HIDE DEF columns
    <3> QED
      BY <1>1, <2>4, DropAdded
  <2> HIDE DEF a
  <2>7. ASSUME NEW q \in r + 1 .. Latest, Waits(s, q) PROVE Waits(a, q)
    BY <1>0, <1>1, <1>5, <2>5, <2>7 DEF Waits, Changed, Kept
  <2>8. Fresh(a, r)
    BY <1>0, <2>5, <2>7, FreshIs DEF Kept
  <2> QED
    BY <1>5, <2>1, <2>2, <2>6, <2>8 DEF Sound
<1>6. CASE r = 10
  <2> DEFINE columns == {"render_mode"}
             a == Add(s, "push_records", columns)
  <2>1. Up(s, 10) = a
    BY DEF Up, AddRenderMode
  <2>2. Down(a, 10) = Drop(a, "push_records", columns)
    BY DEF Down, DropRenderMode
  <2>3. Lacks(s, "push_records", "render_mode")
    BY <1>1, <1>6 DEF Waits
  <2>4. "push_records" \in DOMAIN s /\ s["push_records"] \intersect columns = {}
    BY <1>1, <2>3 DEF Lacks, Changed
  <2>5. Kept(s, a, "push_records", columns) /\ DOMAIN a = DOMAIN s
    <3> HIDE DEF columns
    <3> QED
      BY <1>1, <2>4, AddKept
  <2>6. Drop(a, "push_records", columns) = s
    <3> HIDE DEF columns
    <3> QED
      BY <1>1, <2>4, DropAdded
  <2> HIDE DEF a
  <2>7. ASSUME NEW q \in r + 1 .. Latest, Waits(s, q) PROVE Waits(a, q)
    BY <1>0, <1>1, <1>6, <2>5, <2>7 DEF Waits, Changed, Kept
  <2>8. Fresh(a, r)
    BY <1>0, <2>5, <2>7, FreshIs DEF Kept
  <2> QED
    BY <1>6, <2>1, <2>2, <2>6, <2>8 DEF Sound
<1>7. CASE r = 13
  <2> DEFINE columns == {"celery_task_id"}
             a == Add(s, "collect_tasks", columns)
  <2>1. Up(s, 13) = a
    BY DEF Up, AddCeleryId
  <2>2. Down(a, 13) = Drop(a, "collect_tasks", columns)
    BY DEF Down, DropCeleryId
  <2>3. Lacks(s, "collect_tasks", "celery_task_id")
    BY <1>1, <1>7 DEF Waits
  <2>4. "collect_tasks" \in DOMAIN s /\ s["collect_tasks"] \intersect columns = {}
    BY <1>1, <2>3 DEF Lacks, Changed
  <2>5. Kept(s, a, "collect_tasks", columns) /\ DOMAIN a = DOMAIN s
    <3> HIDE DEF columns
    <3> QED
      BY <1>1, <2>4, AddKept
  <2>6. Drop(a, "collect_tasks", columns) = s
    <3> HIDE DEF columns
    <3> QED
      BY <1>1, <2>4, DropAdded
  <2> HIDE DEF a
  <2>7. ASSUME NEW q \in r + 1 .. Latest, Waits(s, q) PROVE Waits(a, q)
    BY <1>0, <1>1, <1>7, <2>5, <2>7 DEF Waits, Changed, Kept
  <2>8. Fresh(a, r)
    BY <1>0, <2>5, <2>7, FreshIs DEF Kept
  <2> QED
    BY <1>7, <2>1, <2>2, <2>6, <2>8 DEF Sound
<1> QED
  BY <1>2, <1>3, <1>4, <1>5, <1>6, <1>7

\* What 011 and 012 create.
PipelineTables ==
  [pipelines |-> Stamped \union {"name", "mode", "max_steps", "on_failure",
     "agent_mode", "system_prompt", "max_tokens_budget", "tools_allowed",
     "tools_denied", "tool_permissions", "status", "version"},
   pipeline_steps |-> Id \union {"pipeline_id", "position", "definition"}]

TemplateTables ==
  [templates |-> Stamped \union {"name", "base_template", "formats", "default_format",
     "jinja_source", "aggregate_config", "status"}]

\* ... those that create tables ...
LEMMA TablesSound ==
  ASSUME NEW s, NEW r \in {5, 6, 11, 12}, Fresh(s, r - 1) PROVE Sound(s, r)
<1>0. r \in 2 .. Latest /\ Latest = 15
  BY DEF Latest
<1>1. IsSchema(s) /\ Changed \subseteq DOMAIN s /\ Waits(s, r)
  BY <1>0, FreshIs
<1>2. CASE r = 5
  <2> DEFINE new == [config_versions |-> Versions]
             a == Create(s, new)
  <2>1. Up(s, 5) = a
    BY DEF Up, AddConfigVersions
  <2>2. DOMAIN new = {"config_versions"}
    BY DEF new
  <2>3. Down(a, 5) = Without(a, DOMAIN new)
    <3>1. Down(a, 5) = Without(a, {"config_versions"})
      BY DEF Down, DropConfigVersions
    <3> QED
      BY <2>2, <3>1
  <2> HIDE DEF new
  <2>4. "config_versions" \notin DOMAIN s
    BY <1>1, <1>2 DEF Waits
  <2>5. DOMAIN new \intersect DOMAIN s = {}
    BY <2>2, <2>4
  <2>6. Without(a, DOMAIN new) = s
    BY <1>1, <2>5, WithoutCreated
  <2>7. Kept(s, a, "none", {}) /\ DOMAIN a = DOMAIN s \union DOMAIN new
    BY <1>1, <2>5, CreateKept
  <2> HIDE DEF a
  <2>8. ASSUME NEW q \in r + 1 .. Latest, Waits(s, q) PROVE Waits(a, q)
    BY <1>0, <1>1, <1>2, <2>2, <2>7, <2>8 DEF Waits, Changed, Kept
  <2>9. Fresh(a, r)
    BY <1>0, <2>7, <2>8, FreshIs DEF Kept
  <2> QED
    BY <1>2, <2>1, <2>3, <2>6, <2>9 DEF Sound
<1>3. CASE r = 6
  <2> DEFINE new == [subscription_config_versions |-> Versions]
             a == Create(s, new)
  <2>1. Up(s, 6) = a
    BY DEF Up, AddSubVersions
  <2>2. DOMAIN new = {"subscription_config_versions"}
    BY DEF new
  <2>3. Down(a, 6) = Without(a, DOMAIN new)
    <3>1. Down(a, 6) = Without(a, {"subscription_config_versions"})
      BY DEF Down, DropSubVersions
    <3> QED
      BY <2>2, <3>1
  <2> HIDE DEF new
  <2>4. "subscription_config_versions" \notin DOMAIN s
    BY <1>1, <1>3 DEF Waits
  <2>5. DOMAIN new \intersect DOMAIN s = {}
    BY <2>2, <2>4
  <2>6. Without(a, DOMAIN new) = s
    BY <1>1, <2>5, WithoutCreated
  <2>7. Kept(s, a, "none", {}) /\ DOMAIN a = DOMAIN s \union DOMAIN new
    BY <1>1, <2>5, CreateKept
  <2> HIDE DEF a
  <2>8. ASSUME NEW q \in r + 1 .. Latest, Waits(s, q) PROVE Waits(a, q)
    BY <1>0, <1>1, <1>3, <2>2, <2>7, <2>8 DEF Waits, Changed, Kept
  <2>9. Fresh(a, r)
    BY <1>0, <2>7, <2>8, FreshIs DEF Kept
  <2> QED
    BY <1>3, <2>1, <2>3, <2>6, <2>9 DEF Sound
<1>4. CASE r = 11
  <2> DEFINE new == PipelineTables
             a == Create(s, new)
  <2>1. Up(s, 11) = a
    BY DEF Up, AddPipelines, PipelineTables
  <2>2. DOMAIN new = {"pipelines", "pipeline_steps"}
    BY DEF new, PipelineTables
  <2>3. Down(a, 11) = Without(a, DOMAIN new)
    <3>1. Down(a, 11) = Without(a, {"pipelines", "pipeline_steps"})
      BY DEF Down, DropPipelines
    <3> QED
      BY <2>2, <3>1
  <2> HIDE DEF new
  <2>4. "pipelines" \notin DOMAIN s /\ "pipeline_steps" \notin DOMAIN s
    BY <1>1, <1>4 DEF Waits
  <2>5. DOMAIN new \intersect DOMAIN s = {}
    BY <2>2, <2>4
  <2>6. Without(a, DOMAIN new) = s
    BY <1>1, <2>5, WithoutCreated
  <2>7. Kept(s, a, "none", {}) /\ DOMAIN a = DOMAIN s \union DOMAIN new
    BY <1>1, <2>5, CreateKept
  <2> HIDE DEF a
  <2>8. ASSUME NEW q \in r + 1 .. Latest, Waits(s, q) PROVE Waits(a, q)
    BY <1>0, <1>1, <1>4, <2>2, <2>7, <2>8 DEF Waits, Changed, Kept
  <2>9. Fresh(a, r)
    BY <1>0, <2>7, <2>8, FreshIs DEF Kept
  <2> QED
    BY <1>4, <2>1, <2>3, <2>6, <2>9 DEF Sound
<1>5. CASE r = 12
  <2> DEFINE new == TemplateTables
             a == Create(s, new)
  <2>1. Up(s, 12) = a
    BY DEF Up, AddTemplates, TemplateTables
  <2>2. DOMAIN new = {"templates"}
    BY DEF new, TemplateTables
  <2>3. Down(a, 12) = Without(a, DOMAIN new)
    <3>1. Down(a, 12) = Without(a, {"templates"})
      BY DEF Down, DropTemplates
    <3> QED
      BY <2>2, <3>1
  <2> HIDE DEF new
  <2>4. "templates" \notin DOMAIN s
    BY <1>1, <1>5 DEF Waits
  <2>5. DOMAIN new \intersect DOMAIN s = {}
    BY <2>2, <2>4
  <2>6. Without(a, DOMAIN new) = s
    BY <1>1, <2>5, WithoutCreated
  <2>7. Kept(s, a, "none", {}) /\ DOMAIN a = DOMAIN s \union DOMAIN new
    BY <1>1, <2>5, CreateKept
  <2> HIDE DEF a
  <2>8. ASSUME NEW q \in r + 1 .. Latest, Waits(s, q) PROVE Waits(a, q)
    BY <1>0, <1>1, <1>5, <2>2, <2>7, <2>8 DEF Waits, Changed, Kept
  <2>9. Fresh(a, r)
    BY <1>0, <2>7, <2>8, FreshIs DEF Kept
  <2> QED
    BY <1>5, <2>1, <2>3, <2>6, <2>9 DEF Sound
<1> QED
  BY <1>2, <1>3, <1>4, <1>5

\* A vector column changed in one table.
Swapped(s, t, old, new) == Add(Drop(s, t, {old}), t, {new})

LEMMA SwappedIs ==
  ASSUME NEW s, IsSchema(s), NEW t \in DOMAIN s, NEW old, NEW new
  PROVE  /\ IsSchema(Swapped(s, t, old, new)) /\ DOMAIN Swapped(s, t, old, new) = DOMAIN s
         /\ Swapped(s, t, old, new)[t] = (s[t] \ {old}) \union {new}
         /\ \A u \in DOMAIN s : u # t => Swapped(s, t, old, new)[u] = s[u]
<1> DEFINE d == Drop(s, t, {old})
           o == {old}
           n == {new}
<1>1. /\ IsSchema(d) /\ DOMAIN d = DOMAIN s /\ d[t] = s[t] \ o
      /\ \A u \in DOMAIN s : u # t => d[u] = s[u]
  BY DropIs
<1> HIDE DEF d
<1> DEFINE a == Add(d, t, n)
<1>2. /\ IsSchema(a) /\ DOMAIN a = DOMAIN s /\ a[t] = d[t] \union n
      /\ \A u \in DOMAIN s : u # t => a[u] = d[u]
  <2> HIDE DEF n
  <2> QED
    BY <1>1, AddIs
<1>3. Swapped(s, t, old, new) = a
  BY DEF Swapped, d
<1> HIDE DEF a, o, n
<1>4. /\ IsSchema(a) /\ DOMAIN a = DOMAIN s /\ a[t] = (s[t] \ o) \union n
      /\ \A u \in DOMAIN s : u # t => a[u] = s[u]
  BY <1>1, <1>2
<1> QED
  BY <1>3, <1>4 DEF o, n

\* A column replaced in two tables, one after the other.
LEMMA SwapBoth ==
  ASSUME NEW s, IsSchema(s), NEW p \in DOMAIN s, NEW c \in DOMAIN s, p # c,
         NEW old, NEW new, NEW old2, NEW new2, NEW b,
         b = Swapped(Swapped(s, p, old, new), c, old2, new2)
  PROVE  /\ IsSchema(b) /\ DOMAIN b = DOMAIN s
         /\ b[p] = (s[p] \ {old}) \union {new}
         /\ b[c] = (s[c] \ {old2}) \union {new2}
         /\ \A u \in DOMAIN s : u # p /\ u # c => b[u] = s[u]
<1> DEFINE a == Swapped(s, p, old, new)
           x == (s[p] \ {old}) \union {new}
           y(t) == (t \ {old2}) \union {new2}
<1>1. /\ IsSchema(a) /\ DOMAIN a = DOMAIN s /\ a[p] = x
      /\ \A u \in DOMAIN s : u # p => a[u] = s[u]
  BY SwappedIs
<1> HIDE DEF a, x
<1>2. /\ IsSchema(b) /\ DOMAIN b = DOMAIN s /\ b[c] = y(a[c])
      /\ \A u \in DOMAIN s : u # c => b[u] = a[u]
  <2>1. b = Swapped(a, c, old2, new2)
    BY DEF a
  <2> QED
    BY <1>1, <2>1, SwappedIs
<1> HIDE DEF y
<1>3. /\ IsSchema(b) /\ DOMAIN b = DOMAIN s /\ b[p] = x /\ b[c] = y(s[c])
      /\ \A u \in DOMAIN s : u # p /\ u # c => b[u] = s[u]
  BY <1>1, <1>2
<1> QED
  BY <1>3 DEF x, y

\* Resizing the vectors, and resizing them back.
LEMMA ResizeSound == ASSUME NEW s, Fresh(s, 14) PROVE Sound(s, 15)
<1> DEFINE p == "processed_contents"
           c == "content_clusters"
           b == Swapped(Swapped(s, p, "embedding_1536", "embedding_1024"),
                        c, "centroid_1536", "centroid_1024")
           e == Swapped(Swapped(b, p, "embedding_1024", "embedding_1536"),
                        c, "centroid_1024", "centroid_1536")
<1>0. 15 \in 2 .. Latest /\ 15 - 1 = 14 /\ Latest = 15
  BY DEF Latest
<1>1. IsSchema(s) /\ Changed \subseteq DOMAIN s /\ Waits(s, 15)
  BY <1>0, FreshIs
<1>2. Up(s, 15) = b
  BY DEF Up, ShrinkVectors, Resized, Swapped
<1>3. Down(b, 15) = e
  <2> HIDE DEF b
  <2> QED
    BY DEF Down, GrowVectors, Resized, Swapped
<1>4. p \in DOMAIN s /\ c \in DOMAIN s /\ p # c
  BY <1>1 DEF Changed
<1>5. /\ "embedding_1536" \in s[p] /\ "embedding_1024" \notin s[p]
      /\ "centroid_1536" \in s[c] /\ "centroid_1024" \notin s[c]
  BY <1>1 DEF Waits, Has, Lacks
<1> HIDE DEF p, c
<1>6. /\ IsSchema(b) /\ DOMAIN b = DOMAIN s
      /\ b[p] = (s[p] \ {"embedding_1536"}) \union {"embedding_1024"}
      /\ b[c] = (s[c] \ {"centroid_1536"}) \union {"centroid_1024"}
      /\ \A u \in DOMAIN s : u # p /\ u # c => b[u] = s[u]
  <2>1. b = Swapped(Swapped(s, p, "embedding_1536", "embedding_1024"),
                    c, "centroid_1536", "centroid_1024")
    OBVIOUS
  <2> HIDE DEF b
  <2> QED
    BY <1>1, <1>4, <2>1, SwapBoth
<1> HIDE DEF b
<1>7. /\ IsSchema(e) /\ DOMAIN e = DOMAIN b
      /\ e[p] = (b[p] \ {"embedding_1024"}) \union {"embedding_1536"}
      /\ e[c] = (b[c] \ {"centroid_1024"}) \union {"centroid_1536"}
      /\ \A u \in DOMAIN b : u # p /\ u # c => e[u] = b[u]
  <2>1. p \in DOMAIN b /\ c \in DOMAIN b
    BY <1>4, <1>6
  <2>2. e = Swapped(Swapped(b, p, "embedding_1024", "embedding_1536"),
                    c, "centroid_1024", "centroid_1536")
    OBVIOUS
  <2> HIDE DEF e
  <2> QED
    BY <1>4, <1>6, <2>1, <2>2, SwapBoth
<1> HIDE DEF e
<1>8. e[p] = s[p] /\ e[c] = s[c]
  BY <1>5, <1>6, <1>7
<1>9. \A u \in DOMAIN s : e[u] = s[u]
  BY <1>6, <1>7, <1>8
<1>10. e = s
  BY <1>1, <1>6, <1>7, <1>9 DEF IsSchema
<1>11. Fresh(b, 15)
  <2>1. \A q \in 15 + 1 .. Latest : Waits(s, q) => Waits(b, q)
    BY <1>0
  <2> QED
    BY <1>0, <1>6, <2>1, FreshIs
<1> QED
  BY <1>2, <1>3, <1>10, <1>11 DEF Sound

\* ... those that leave the tables alone, and the two that touch two of them.
LEMMA RestSound ==
  ASSUME NEW s, NEW r \in {2, 7, 14, 15}, Fresh(s, r - 1) PROVE Sound(s, r)
<1>0. r \in 2 .. Latest /\ Latest = 15
  BY DEF Latest
<1>1. IsSchema(s) /\ Changed \subseteq DOMAIN s /\ Waits(s, r)
  BY <1>0, FreshIs
<1>2. CASE r \in {7, 14}
  <2>1. Up(s, 7) = s /\ Down(s, 7) = s
    BY DEF Up, Down, EnsureZhparser
  <2>2. Up(s, 14) = s /\ Down(s, 14) = s
    BY DEF Up, Down, RenameTool
  <2>3. Fresh(s, r)
    BY <1>0, <1>1, FreshIs
  <2> QED
    BY <1>2, <2>1, <2>2, <2>3 DEF Sound
<1>3. CASE r = 2
  <2> DEFINE c == {"timezone", "discipline_tags"}
             d == {"discipline_tags"}
             x == "subscriptions"
             y == "sources"
             a == Add(s, x, c)
             b == Add(a, y, d)
             e == Drop(b, x, c)
             f == Drop(e, y, d)
  <2>1. Up(s, 2) = b /\ Down(b, 2) = f
    BY DEF Up, Down, AddTimezone, DropTimezone
  <2>2. x \in DOMAIN s /\ y \in DOMAIN s /\ x # y
    BY <1>1 DEF Changed
  <2>3. s[x] \intersect c = {} /\ s[y] \intersect d = {}
    BY <1>1, <1>3 DEF Waits, Lacks
  <2> HIDE DEF c, d, x, y
  <2>5. /\ IsSchema(a) /\ DOMAIN a = DOMAIN s /\ a[x] = s[x] \union c
        /\ \A u \in DOMAIN s : u # x => a[u] = s[u]
    BY <1>1, <2>2, AddIs
  <2>6. Kept(s, a, x, c)
    BY <1>1, <2>2, AddKept
  <2> HIDE DEF a
  <2>7. /\ IsSchema(b) /\ DOMAIN b = DOMAIN s /\ b[y] = a[y] \union d
        /\ \A u \in DOMAIN s : u # y => b[u] = a[u]
    BY <2>2, <2>5, AddIs
  <2>8. Kept(a, b, y, d)
    BY <2>2, <2>5, AddKept
  <2> HIDE DEF b
  <2>9. /\ IsSchema(e) /\ DOMAIN e = DOMAIN s /\ e[x] = b[x] \ c
        /\ \A u \in DOMAIN s : u # x => e[u] = b[u]
    BY <2>2, <2>7, DropIs
  <2> HIDE DEF e
  <2>10. /\ IsSchema(f) /\ DOMAIN f = DOMAIN s /\ f[y] = e[y] \ d
         /\ \A u \in DOMAIN s : u # y => f[u] = e[u]
    BY <2>2, <2>9, DropIs
  <2> HIDE DEF f
  <2>11. f[x] = s[x] /\ f[y] = s[y]
    BY <2>2, <2>3, <2>5, <2>7, <2>9, <2>10
  <2>12. \A u \in DOMAIN s : f[u] = s[u]
    BY <2>5, <2>7, <2>9, <2>10, <2>11
  <2>13. f = s
    BY <1>1, <2>10, <2>12 DEF IsSchema
  <2>14. ASSUME NEW q \in 2 + 1 .. Latest, Waits(s, q) PROVE Waits(b, q)
    <3>1. Waits(a, q)
      BY <1>0, <1>1, <2>5, <2>6, <2>14 DEF Waits, Changed, Kept, c, x
    <3> QED
      BY <1>0, <1>1, <2>5, <2>7, <2>8, <2>14, <3>1 DEF Waits, Changed, Kept, d, y
  <2>15. Fresh(b, 2)
    BY <1>0, <1>3, <2>7, <2>14, FreshIs
  <2> QED
    BY <1>3, <2>1, <2>13, <2>15 DEF Sound
<1>4. CASE r = 15
  BY <1>4, ResizeSound
<1> QED
  BY <1>2, <1>3, <1>4

\* Each revision is fresh for the next, and downgrade() takes it back to the one
\* before.
LEMMA EveryStepSound ==
  /\ \A r \in 1 .. Latest : Fresh(SchemaAt[r], r)
  /\ \A r \in 1 .. Latest : Down(SchemaAt[r], r) = SchemaAt[r - 1]
<1>1. \A r \in 1 .. Latest : SchemaAt[r] = Up(SchemaAt[r - 1], r)
  BY SchemaAtUp
<1>2. SchemaAt[1] = InitialSchema(NoSchema)
  <2>1. 1 \in 1 .. Latest /\ 1 - 1 = 0
    BY DEF Latest
  <2>2. \A s : Up(s, 1) = InitialSchema(s)
    BY DEF Up
  <2> QED
    BY <1>1, <2>1, <2>2, SchemaAtUp
<1>3. ASSUME NEW r \in 2 .. Latest, Fresh(SchemaAt[r - 1], r - 1)
      PROVE  Sound(SchemaAt[r - 1], r)
  <2>1. r \in {3, 4, 8, 9, 10, 13} \/ r \in {5, 6, 11, 12} \/ r \in {2, 7, 14, 15}
    BY DEF Latest
  <2> QED
    BY <1>3, <2>1, ColumnsSound, TablesSound, RestSound
<1> DEFINE T == {m \in Nat : m + 1 <= Latest => Fresh(SchemaAt[m + 1], m + 1)}
<1>4. 0 \in T
  BY <1>2, FreshFirst
<1>5. ASSUME NEW m \in Nat, m \in T PROVE m + 1 \in T
  <2> SUFFICES ASSUME (m + 1) + 1 <= Latest
               PROVE  Fresh(SchemaAt[(m + 1) + 1], (m + 1) + 1)
    OBVIOUS
  <2> DEFINE r == (m + 1) + 1
  <2>1. r \in 2 .. Latest /\ r \in 1 .. Latest /\ r - 1 = m + 1 /\ m + 1 <= Latest
    BY DEF Latest
  <2>2. Fresh(SchemaAt[r - 1], r - 1)
    BY <1>5, <2>1
  <2> HIDE DEF r
  <2>3. Fresh(SchemaAt[r], r)
    BY <1>1, <1>3, <2>1, <2>2 DEF Sound
  <2> QED
    BY <2>3 DEF r
<1> HIDE DEF T
<1>6. ASSUME NEW r \in 1 .. Latest PROVE Fresh(SchemaAt[r], r)
  <2>1. r - 1 \in Nat /\ (r - 1) + 1 = r /\ r <= Latest
    BY DEF Latest
  <2>2. r - 1 \in T
    BY <1>4, <1>5, <2>1, NumberInduction
  <2> QED
    BY <2>1, <2>2 DEF T
<1>7. ASSUME NEW r \in 1 .. Latest PROVE Down(SchemaAt[r], r) = SchemaAt[r - 1]
  <2>1. CASE r = 1
    <3>1. SchemaAt[r - 1] = NoSchema
      BY <2>1, SchemaAtUp
    <3>2. Down(SchemaAt[r], r) = NoSchema
      BY <2>1 DEF Down, InitialSchemaUndone
    <3> QED
      BY <3>1, <3>2
  <2>2. CASE r # 1
    <3>1. r \in 2 .. Latest /\ r - 1 \in 1 .. Latest
      BY <2>2 DEF Latest
    <3>2. Sound(SchemaAt[r - 1], r)
      BY <1>3, <1>6, <3>1
    <3> QED
      BY <1>1, <3>2 DEF Sound
  <2> QED
    BY <2>1, <2>2
<1> QED
  BY <1>6, <1>7

\* However far, up or down, a migration from the tables of a revision leads to
\* those of another.
THEOREM MigrationsCompose ==
  ASSUME NEW from \in 0 .. Latest, NEW to \in 0 .. Latest
  PROVE  Migrated(SchemaAt[from], from, to) = SchemaAt[to]
<1> DEFINE s == SchemaAt[from]
<1>0. from \in Nat /\ to \in Nat /\ Latest \in Nat
  BY DEF Latest
<1>1. CASE from <= to
  <2> DEFINE T == {m \in Nat : from + m <= Latest =>
                     Migrated(s, from, from + m) = SchemaAt[from + m]}
  <2>1. 0 \in T
    <3>1. from + 0 = from /\ Migrated(s, from, from) = s
      BY <1>0, UpPath
    <3> QED
      BY <3>1
  <2>2. ASSUME NEW m \in Nat, m \in T PROVE m + 1 \in T
    <3> DEFINE r == from + (m + 1)
    <3> SUFFICES ASSUME r <= Latest PROVE Migrated(s, from, r) = SchemaAt[r]
      OBVIOUS
    <3>1. r \in from + 1 .. Latest /\ r \in 1 .. Latest /\ r - 1 = from + m
          /\ from + m <= Latest
      BY <1>0
    <3>2. Migrated(s, from, r - 1) = SchemaAt[r - 1]
      BY <2>2, <3>1
    <3> HIDE DEF r
    <3>3. Migrated(s, from, r) = Up(Migrated(s, from, r - 1), r)
      BY <3>1, UpPath
    <3> QED
      BY <3>1, <3>2, <3>3, SchemaAtUp
  <2> HIDE DEF T
  <2>3. to - from \in Nat /\ from + (to - from) = to /\ to <= Latest
    BY <1>0, <1>1
  <2>4. to - from \in T
    BY <2>1, <2>2, <2>3, NumberInduction
  <2> QED
    BY <2>3, <2>4 DEF T
<1>2. CASE to < from
  <2> DEFINE T == {m \in Nat : m + 1 <= from =>
                     Migrated(s, from, from - (m + 1)) = SchemaAt[from - (m + 1)]}
  <2>0. ASSUME NEW r \in 0 .. from - 1,
               r # from - 1 => Migrated(s, from, r + 1) = SchemaAt[r + 1]
        PROVE  Migrated(s, from, r) = SchemaAt[r]
    <3>1. r + 1 \in 1 .. Latest /\ (r + 1) - 1 = r /\ (r = from - 1 => r + 1 = from)
      BY <1>0
    <3>2. Migrated(s, from, r) =
            Down(IF r = from - 1 THEN s ELSE Migrated(s, from, r + 1), r + 1)
      BY DownPath
    <3>3. (IF r = from - 1 THEN s ELSE Migrated(s, from, r + 1)) = SchemaAt[r + 1]
      BY <2>0, <3>1
    <3>4. Down(SchemaAt[r + 1], r + 1) = SchemaAt[(r + 1) - 1]
      BY <3>1, EveryStepSound
    <3> QED
      BY <3>1, <3>2, <3>3, <3>4
  <2>1. 0 \in T
    <3> SUFFICES ASSUME 0 + 1 <= from
                 PROVE  Migrated(s, from, from - (0 + 1)) = SchemaAt[from - (0 + 1)]
      OBVIOUS
    <3>1. from - (0 + 1) \in 0 .. from - 1 /\ from - (0 + 1) = from - 1
      BY <1>0
    <3> QED
      BY <2>0, <3>1
  <2>2. ASSUME NEW m \in Nat, m \in T PROVE m + 1 \in T
    <3> DEFINE r == from - ((m + 1) + 1)
    <3> SUFFICES ASSUME (m + 1) + 1 <= from PROVE Migrated(s, from, r) = SchemaAt[r]
      OBVIOUS
    <3>1. r \in 0 .. from - 1 /\ r + 1 = from - (m + 1) /\ m + 1 <= from
      BY <1>0
    <3>2. Migrated(s, from, r + 1) = SchemaAt[r + 1]
      BY <2>2, <3>1
    <3> HIDE DEF r
    <3> QED
      BY <2>0, <3>1, <3>2
  <2> HIDE DEF T
  <2>3. (from - to) - 1 \in Nat /\ ((from - to) - 1) + 1 <= from
        /\ from - (((from - to) - 1) + 1) = to
    BY <1>0, <1>2
  <2>4. (from - to) - 1 \in T
    BY <2>1, <2>2, <2>3, NumberInduction
  <2> QED
    BY <2>3, <2>4 DEF T
<1> QED
  BY <1>0, <1>1, <1>2

-----------------------------------------------------------------------------
(* The tables of the latest revision. *)

\* A step that leaves the tables but these alone, and creates no table.
Alters(s, a, tables) ==
  DOMAIN a = DOMAIN s /\ \A u \in DOMAIN s : u \notin tables => a[u] = s[u]

\* The revisions from 002 to 015, table by table.
LEMMA RevisionsIs ==
  ASSUME NEW S, S = [r \in 1 .. 15 |-> SchemaAt[r]]
  PROVE  /\ S[1] = InitialSchema(NoSchema)
         /\ Alters(S[1], S[2], {"subscriptions", "sources"})
         /\ S[2]["subscriptions"] = S[1]["subscriptions"] \union {"timezone", "discipline_tags"}
         /\ S[2]["sources"] = S[1]["sources"] \union {"discipline_tags"}
         /\ Alters(S[2], S[3], {"raw_contents"})
         /\ S[3]["raw_contents"] = S[2]["raw_contents"] \union {"status", "processed_at"}
         /\ Alters(S[3], S[4], {"push_records"})
         /\ S[4]["push_records"] = S[3]["push_records"] \union {"recipient_id"}
         /\ S[5] = Create(S[4], [config_versions |-> Versions])
         /\ S[6] = Create(S[5], [subscription_config_versions |-> Versions])
         /\ S[7] = S[6]
         /\ Alters(S[7], S[8], {"processed_contents"})
         /\ S[8]["processed_contents"] = S[7]["processed_contents"] \union {"discipline_tags"}
         /\ Alters(S[8], S[9], {"subscriptions"})
         /\ S[9]["subscriptions"] = S[8]["subscriptions"] \union {"last_sent_at"}
         /\ Alters(S[9], S[10], {"push_records"})
         /\ S[10]["push_records"] = S[9]["push_records"] \union {"render_mode"}
         /\ S[11] = Create(S[10], PipelineTables)
         /\ S[12] = Create(S[11], TemplateTables)
         /\ Alters(S[12], S[13], {"collect_tasks"})
         /\ S[13]["collect_tasks"] = S[12]["collect_tasks"] \union {"celery_task_id"}
         /\ S[14] = S[13]
         /\ Alters(S[14], S[15], {"processed_contents", "content_clusters"})
         /\ S[15]["processed_contents"] =
              (S[14]["processed_contents"] \ {"embedding_1536"}) \union {"embedding_1024"}
         /\ S[15]["content_clusters"] =
              (S[14]["content_clusters"] \ {"centroid_1536"}) \union {"centroid_1024"}
<1>1. S[1] = SchemaAt[1] /\ \A r \in 1 .. 15 : S[r] = SchemaAt[r]
  OBVIOUS
<1>2. /\ S[1] = Up(SchemaAt[0], 1)
      /\ \A r \in 2 .. 15 : S[r] = Up(S[r - 1], r)
  <2>1. /\ 1 \in 1 .. Latest /\ 1 - 1 = 0
        /\ \A r \in 2 .. 15 : r \in 1 .. 15 /\ r - 1 \in 1 .. 15 /\ r \in 1 .. Latest
    BY DEF Latest
  <2> QED
    BY <1>1, <2>1, SchemaAtUp
<1>3. \A r \in 1 .. 15 : IsSchema(S[r]) /\ Changed \subseteq DOMAIN S[r]
  BY <1>1, EveryStepSound DEF Fresh, Latest
<1> DEFINE T(r) == S[r]
<1>4. /\ T(2) = AddTimezone(T(1)) /\ T(3) = AddRawStatus(T(2)) /\ T(4) = AddRecipient(T(3))
      /\ T(5) = AddConfigVersions(T(4)) /\ T(6) = AddSubVersions(T(5))
      /\ T(7) = EnsureZhparser(T(6)) /\ T(8) = AddContentTags(T(7))
      /\ T(9) = AddLastSent(T(8)) /\ T(10) = AddRenderMode(T(9))
      /\ T(11) = AddPipelines(T(10)) /\ T(12) = AddTemplates(T(11))
      /\ T(13) = AddCeleryId(T(12)) /\ T(14) = RenameTool(T(13))
      /\ T(15) = ShrinkVectors(T(14))
  BY <1>2 DEF Up
<1>5. S[1] = InitialSchema(NoSchema)
  BY <1>2, SchemaAtUp DEF Up
<1>6. \A r \in 1 .. 15 : IsSchema(T(r)) /\ Changed \subseteq DOMAIN T(r)
  BY <1>3
<1> HIDE DEF T
<1>7. /\ Alters(T(1), T(2), {"subscriptions", "sources"})
      /\ T(2)["subscriptions"] = T(1)["subscriptions"] \union {"timezone", "discipline_tags"}
      /\ T(2)["sources"] = T(1)["sources"] \union {"discipline_tags"}
  <2> DEFINE c == {"timezone", "discipline_tags"}
             d == {"discipline_tags"}
             x == "subscriptions"
             y == "sources"
             a == Add(T(1), x, c)
  <2>1. T(2) = Add(a, y, d)
    BY <1>4 DEF AddTimezone
  <2>2. IsSchema(T(1)) /\ x \in DOMAIN T(1) /\ y \in DOMAIN T(1) /\ x # y
    BY <1>6 DEF Changed
  <2> HIDE DEF c, d, x, y
  <2>3. /\ IsSchema(a) /\ DOMAIN a = DOMAIN T(1) /\ a[x] = T(1)[x] \union c
        /\ \A u \in DOMAIN T(1) : u # x => a[u] = T(1)[u]
    BY <2>2, AddIs
  <2> HIDE DEF a
  <2>4. /\ DOMAIN T(2) = DOMAIN a /\ T(2)[y] = a[y] \union d
        /\ \A u \in DOMAIN a : u # y => T(2)[u] = a[u]
    BY <2>1, <2>2, <2>3, AddIs
  <2>5. T(2)[x] = T(1)[x] \union c /\ T(2)[y] = T(1)[y] \union d
    BY <2>2, <2>3, <2>4
  <2>6. Alters(T(1), T(2), {x, y})
    BY <2>3, <2>4 DEF Alters
  <2> QED
    BY <2>5, <2>6 DEF c, d, x, y
<1>8. /\ Alters(T(2), T(3), {"raw_contents"})
      /\ T(3)["raw_contents"] = T(2)["raw_contents"] \union {"status", "processed_at"}
  <2> DEFINE c == {"status", "processed_at"}
             x == "raw_contents"
  <2>1. T(3) = Add(T(2), x, c)
    BY <1>4 DEF AddRawStatus
  <2>2. IsSchema(T(2)) /\ x \in DOMAIN T(2)
    BY <1>6 DEF Changed
  <2> HIDE DEF c, x
  <2>3. /\ DOMAIN T(3) = DOMAIN T(2) /\ T(3)[x] = T(2)[x] \union c
        /\ \A u \in DOMAIN T(2) : u # x => T(3)[u] = T(2)[u]
    BY <2>1, <2>2, AddIs
  <2>4. Alters(T(2), T(3), {x})
    BY <2>3 DEF Alters
  <2> QED
    BY <2>3, <2>4 DEF c, x
<1>9. /\ Alters(T(3), T(4), {"push_records"})
      /\ T(4)["push_records"] = T(3)["push_records"] \union {"recipient_id"}
  <2> DEFINE c == {"recipient_id"}
             x == "push_records"
  <2>1. T(4) = Add(T(3), x, c)
    BY <1>4 DEF AddRecipient
  <2>2. IsSchema(T(3)) /\ x \in DOMAIN T(3)
    BY <1>6 DEF Changed
  <2> HIDE DEF c, x
  <2>3. /\ DOMAIN T(4) = DOMAIN T(3) /\ T(4)[x] = T(3)[x] \union c
        /\ \A u \in DOMAIN T(3) : u # x => T(4)[u] = T(3)[u]
    BY <2>1, <2>2, AddIs
  <2>4. Alters(T(3), T(4), {x})
    BY <2>3 DEF Alters
  <2> QED
    BY <2>3, <2>4 DEF c, x
<1>10. /\ Alters(T(7), T(8), {"processed_contents"})
       /\ T(8)["processed_contents"] = T(7)["processed_contents"] \union {"discipline_tags"}
  <2> DEFINE c == {"discipline_tags"}
             x == "processed_contents"
  <2>1. T(8) = Add(T(7), x, c)
    BY <1>4 DEF AddContentTags
  <2>2. IsSchema(T(7)) /\ x \in DOMAIN T(7)
    BY <1>6 DEF Changed
  <2> HIDE DEF c, x
  <2>3. /\ DOMAIN T(8) = DOMAIN T(7) /\ T(8)[x] = T(7)[x] \union c
        /\ \A u \in DOMAIN T(7) : u # x => T(8)[u] = T(7)[u]
    BY <2>1, <2>2, AddIs
  <2>4. Alters(T(7), T(8), {x})
    BY <2>3 DEF Alters
  <2> QED
    BY <2>3, <2>4 DEF c, x
<1>11. /\ Alters(T(8), T(9), {"subscriptions"})
       /\ T(9)["subscriptions"] = T(8)["subscriptions"] \union {"last_sent_at"}
  <2> DEFINE c == {"last_sent_at"}
             x == "subscriptions"
  <2>1. T(9) = Add(T(8), x, c)
    BY <1>4 DEF AddLastSent
  <2>2. IsSchema(T(8)) /\ x \in DOMAIN T(8)
    BY <1>6 DEF Changed
  <2> HIDE DEF c, x
  <2>3. /\ DOMAIN T(9) = DOMAIN T(8) /\ T(9)[x] = T(8)[x] \union c
        /\ \A u \in DOMAIN T(8) : u # x => T(9)[u] = T(8)[u]
    BY <2>1, <2>2, AddIs
  <2>4. Alters(T(8), T(9), {x})
    BY <2>3 DEF Alters
  <2> QED
    BY <2>3, <2>4 DEF c, x
<1>12. /\ Alters(T(9), T(10), {"push_records"})
       /\ T(10)["push_records"] = T(9)["push_records"] \union {"render_mode"}
  <2> DEFINE c == {"render_mode"}
             x == "push_records"
  <2>1. T(10) = Add(T(9), x, c)
    BY <1>4 DEF AddRenderMode
  <2>2. IsSchema(T(9)) /\ x \in DOMAIN T(9)
    BY <1>6 DEF Changed
  <2> HIDE DEF c, x
  <2>3. /\ DOMAIN T(10) = DOMAIN T(9) /\ T(10)[x] = T(9)[x] \union c
        /\ \A u \in DOMAIN T(9) : u # x => T(10)[u] = T(9)[u]
    BY <2>1, <2>2, AddIs
  <2>4. Alters(T(9), T(10), {x})
    BY <2>3 DEF Alters
  <2> QED
    BY <2>3, <2>4 DEF c, x
<1>13. /\ Alters(T(12), T(13), {"collect_tasks"})
       /\ T(13)["collect_tasks"] = T(12)["collect_tasks"] \union {"celery_task_id"}
  <2> DEFINE c == {"celery_task_id"}
             x == "collect_tasks"
  <2>1. T(13) = Add(T(12), x, c)
    BY <1>4 DEF AddCeleryId
  <2>2. IsSchema(T(12)) /\ x \in DOMAIN T(12)
    BY <1>6 DEF Changed
  <2> HIDE DEF c, x
  <2>3. /\ DOMAIN T(13) = DOMAIN T(12) /\ T(13)[x] = T(12)[x] \union c
        /\ \A u \in DOMAIN T(12) : u # x => T(13)[u] = T(12)[u]
    BY <2>1, <2>2, AddIs
  <2>4. Alters(T(12), T(13), {x})
    BY <2>3 DEF Alters
  <2> QED
    BY <2>3, <2>4 DEF c, x
<1>14. /\ T(5) = Create(T(4), [config_versions |-> Versions])
       /\ T(6) = Create(T(5), [subscription_config_versions |-> Versions])
       /\ T(7) = T(6) /\ T(14) = T(13)
       /\ T(11) = Create(T(10), PipelineTables)
       /\ T(12) = Create(T(11), TemplateTables)
  BY <1>4 DEF AddConfigVersions, AddSubVersions, EnsureZhparser, RenameTool, AddPipelines,
     AddTemplates, PipelineTables, TemplateTables
<1>15. /\ Alters(T(14), T(15), {"processed_contents", "content_clusters"})
       /\ T(15)["processed_contents"] =
            (T(14)["processed_contents"] \ {"embedding_1536"}) \union {"embedding_1024"}
       /\ T(15)["content_clusters"] =
            (T(14)["content_clusters"] \ {"centroid_1536"}) \union {"centroid_1024"}
  <2> DEFINE p == "processed_contents"
             c == "content_clusters"
  <2>1. T(15) = Swapped(Swapped(T(14), p, "embedding_1536", "embedding_1024"),
                        c, "centroid_1536", "centroid_1024")
    BY <1>4 DEF ShrinkVectors, Resized, Swapped
  <2>2. IsSchema(T(14)) /\ p \in DOMAIN T(14) /\ c \in DOMAIN T(14) /\ p # c
    BY <1>6 DEF Changed
  <2> HIDE DEF p, c
  <2>3. /\ DOMAIN T(15) = DOMAIN T(14)
        /\ T(15)[p] = (T(14)[p] \ {"embedding_1536"}) \union {"embedding_1024"}
        /\ T(15)[c] = (T(14)[c] \ {"centroid_1536"}) \union {"centroid_1024"}
        /\ \A u \in DOMAIN T(14) : u # p /\ u # c => T(15)[u] = T(14)[u]
    BY <2>1, <2>2, SwapBoth
  <2>4. Alters(T(14), T(15), {p, c})
    BY <2>3 DEF Alters
  <2> QED
    BY <2>3, <2>4 DEF p, c
<1> QED
  BY <1>5, <1>7, <1>8, <1>9, <1>10, <1>11, <1>12, <1>13, <1>14, <1>15 DEF T

\* Models, table by table.
LEMMA ModelsIs ==
  /\ IsSchema(Models)
  /\ DOMAIN Models = InitialTables \union
       {"config_versions", "subscription_config_versions", "pipelines", "pipeline_steps",
        "templates"}
  /\ Models["sources"] = SourceModel
  /\ \A t \in DOMAIN TaskModels : Models[t] = TaskModels[t]
  /\ \A t \in DOMAIN ContentModels : Models[t] = ContentModels[t]
  /\ \A t \in DOMAIN DigestModels : Models[t] = DigestModels[t]
  /\ \A t \in DOMAIN DeliveryModels : Models[t] = DeliveryModels[t]
  /\ \A t \in DOMAIN DefinitionModels : Models[t] = DefinitionModels[t]
<1> DEFINE m1 == [sources |-> SourceModel]
           m2 == Create(m1, TaskModels)
           m3 == Create(m2, ContentModels)
           m4 == Create(m3, DigestModels)
           m5 == Create(m4, DeliveryModels)
           m6 == Create(m5, DefinitionModels)
<1>1. Models = m6
  BY DEF Models
<1>2. IsSchema(m1) /\ DOMAIN m1 = {"sources"} /\ m1["sources"] = SourceModel
  <2> DEFINE f == [sources |-> SourceModel]
  <2>1. f = [t \in {"sources"} |-> SourceModel]
    OBVIOUS
  <2> QED
    BY <2>1 DEF IsSchema
<1> HIDE DEF m1
<1>3. /\ DOMAIN TaskModels = {"task_chains", "collect_tasks"}
      /\ DOMAIN ContentModels = {"raw_contents", "content_clusters", "processed_contents"}
      /\ DOMAIN DigestModels = {"digests", "llm_call_logs"}
      /\ DOMAIN DeliveryModels = {"subscriptions", "push_records", "chat_sessions"}
      /\ DOMAIN DefinitionModels =
           {"pipelines", "pipeline_steps", "templates", "config_versions",
            "subscription_config_versions"}
  BY DEF TaskModels, ContentModels, DigestModels, DeliveryModels, DefinitionModels
<1>4. /\ IsSchema(m2) /\ DOMAIN m2 = DOMAIN m1 \union DOMAIN TaskModels
      /\ \A t \in DOMAIN m1 : m2[t] = m1[t]
      /\ \A t \in DOMAIN TaskModels : m2[t] = TaskModels[t]
  <2>1. DOMAIN TaskModels \intersect DOMAIN m1 = {}
    BY <1>2, <1>3
  <2> QED
    BY <1>2, <2>1, CreateIs
<1> HIDE DEF m2
<1>5. /\ IsSchema(m3) /\ DOMAIN m3 = DOMAIN m2 \union DOMAIN ContentModels
      /\ \A t \in DOMAIN m2 : m3[t] = m2[t]
      /\ \A t \in DOMAIN ContentModels : m3[t] = ContentModels[t]
  <2>1. DOMAIN ContentModels \intersect DOMAIN m2 = {}
    BY <1>2, <1>3, <1>4
  <2> QED
    BY <1>4, <2>1, CreateIs
<1> HIDE DEF m3
<1>6. /\ IsSchema(m4) /\ DOMAIN m4 = DOMAIN m3 \union DOMAIN DigestModels
      /\ \A t \in DOMAIN m3 : m4[t] = m3[t]
      /\ \A t \in DOMAIN DigestModels : m4[t] = DigestModels[t]
  <2>1. DOMAIN DigestModels \intersect DOMAIN m3 = {}
    BY <1>2, <1>3, <1>4, <1>5
  <2> QED
    BY <1>5, <2>1, CreateIs
<1> HIDE DEF m4
<1>7. /\ IsSchema(m5) /\ DOMAIN m5 = DOMAIN m4 \union DOMAIN DeliveryModels
      /\ \A t \in DOMAIN m4 : m5[t] = m4[t]
      /\ \A t \in DOMAIN DeliveryModels : m5[t] = DeliveryModels[t]
  <2>1. DOMAIN DeliveryModels \intersect DOMAIN m4 = {}
    BY <1>2, <1>3, <1>4, <1>5, <1>6
  <2> QED
    BY <1>6, <2>1, CreateIs
<1> HIDE DEF m5
<1>8. DOMAIN m5 = InitialTables
  BY <1>2, <1>3, <1>4, <1>5, <1>6, <1>7 DEF InitialTables
<1>9. /\ IsSchema(m6) /\ DOMAIN m6 = DOMAIN m5 \union DOMAIN DefinitionModels
      /\ \A t \in DOMAIN m5 : m6[t] = m5[t]
      /\ \A t \in DOMAIN DefinitionModels : m6[t] = DefinitionModels[t]
  <2>1. DOMAIN DefinitionModels \intersect DOMAIN m5 = {}
    BY <1>3, <1>8 DEF InitialTables
  <2> QED
    BY <1>7, <2>1, CreateIs
<1> HIDE DEF m6
<1>10. DOMAIN m6 = InitialTables \union
         {"config_versions", "subscription_config_versions", "pipelines",
          "pipeline_steps", "templates"}
  BY <1>3, <1>8, <1>9
<1>11. /\ m6["sources"] = SourceModel
       /\ \A t \in DOMAIN TaskModels : m6[t] = TaskModels[t]
       /\ \A t \in DOMAIN ContentModels : m6[t] = ContentModels[t]
       /\ \A t \in DOMAIN DigestModels : m6[t] = DigestModels[t]
       /\ \A t \in DOMAIN DeliveryModels : m6[t] = DeliveryModels[t]
       /\ \A t \in DOMAIN DefinitionModels : m6[t] = DefinitionModels[t]
  <2>1. "sources" \in DOMAIN m1
    BY <1>2
  <2> QED
    BY <1>2, <1>4, <1>5, <1>6, <1>7, <1>9, <2>1
<1> QED
  BY <1>1, <1>9, <1>10, <1>11

\* The tables of the revisions, and what 005, 006, 011 and 012 create.
LEMMA TablesAre ==
  ASSUME NEW S, S = [r \in 1 .. 15 |-> SchemaAt[r]]
  PROVE  /\ \A r \in {1, 2, 3, 4} : DOMAIN S[r] = InitialTables
         /\ DOMAIN S[5] = DOMAIN S[4] \union {"config_versions"}
         /\ \A u \in DOMAIN S[4] : S[5][u] = S[4][u]
         /\ S[5]["config_versions"] = Versions
         /\ DOMAIN S[6] = DOMAIN S[5] \union {"subscription_config_versions"}
         /\ \A u \in DOMAIN S[5] : S[6][u] = S[5][u]
         /\ S[6]["subscription_config_versions"] = Versions
         /\ \A r \in {7, 8, 9, 10} : DOMAIN S[r] = DOMAIN S[6]
         /\ DOMAIN S[11] = DOMAIN S[10] \union {"pipelines", "pipeline_steps"}
         /\ \A u \in DOMAIN S[10] : S[11][u] = S[10][u]
         /\ S[11]["pipelines"] = PipelineTables["pipelines"]
         /\ S[11]["pipeline_steps"] = PipelineTables["pipeline_steps"]
         /\ DOMAIN S[12] = DOMAIN S[11] \union {"templates"}
         /\ \A u \in DOMAIN S[11] : S[12][u] = S[11][u]
         /\ S[12]["templates"] = TemplateTables["templates"]
         /\ \A r \in {13, 14, 15} : DOMAIN S[r] = DOMAIN S[12]
<1>1. \A r \in 1 .. 15 : S[r] = SchemaAt[r]
  OBVIOUS
<1>2. \A r \in 1 .. 15 : IsSchema(S[r])
  BY <1>1, EveryStepSound DEF Fresh, Latest
<1>3. S[1] = InitialSchema(NoSchema)
  BY RevisionsIs
<1>4. DOMAIN S[1] = InitialTables
  BY <1>3, InitialIs
<1>5. /\ DOMAIN S[2] = DOMAIN S[1] /\ DOMAIN S[3] = DOMAIN S[2] /\ DOMAIN S[4] = DOMAIN S[3]
      /\ S[7] = S[6] /\ DOMAIN S[8] = DOMAIN S[7] /\ DOMAIN S[9] = DOMAIN S[8]
      /\ DOMAIN S[10] = DOMAIN S[9] /\ DOMAIN S[13] = DOMAIN S[12] /\ S[14] = S[13]
      /\ DOMAIN S[15] = DOMAIN S[14]
  BY RevisionsIs DEF Alters
<1>6. /\ S[5] = Create(S[4], [config_versions |-> Versions])
      /\ S[6] = Create(S[5], [subscription_config_versions |-> Versions])
      /\ S[11] = Create(S[10], PipelineTables) /\ S[12] = Create(S[11], TemplateTables)
  BY RevisionsIs
<1>7. \A r \in {1, 2, 3, 4} : DOMAIN S[r] = InitialTables
  BY <1>4, <1>5
<1>8. /\ DOMAIN S[5] = DOMAIN S[4] \union {"config_versions"}
      /\ \A u \in DOMAIN S[4] : S[5][u] = S[4][u]
      /\ S[5]["config_versions"] = Versions
  <2> DEFINE new == [config_versions |-> Versions]
             names == {"config_versions"}
  <2>1. DOMAIN new = names /\ new["config_versions"] = Versions
    OBVIOUS
  <2>2. \A t \in names : t \notin DOMAIN S[4]
    BY <1>7 DEF InitialTables
  <2>3. S[5] = Create(S[4], new) /\ IsSchema(S[4])
    BY <1>2, <1>6
  <2> HIDE DEF new
  <2>4. DOMAIN new \intersect DOMAIN S[4] = {}
    BY <2>1, <2>2
  <2> DEFINE s == S[4]
  <2>5. IsSchema(s) /\ DOMAIN new \intersect DOMAIN s = {}
    BY <2>3, <2>4
  <2> HIDE DEF s
  <2>6. /\ DOMAIN Create(s, new) = DOMAIN s \union DOMAIN new
        /\ \A u \in DOMAIN s : Create(s, new)[u] = s[u]
        /\ \A u \in DOMAIN new : Create(s, new)[u] = new[u]
    BY <2>5, CreateIs
  <2> QED
    BY <2>1, <2>3, <2>6 DEF s
<1>9. /\ DOMAIN S[6] = DOMAIN S[5] \union {"subscription_config_versions"}
      /\ \A u \in DOMAIN S[5] : S[6][u] = S[5][u]
      /\ S[6]["subscription_config_versions"] = Versions
  <2> DEFINE new == [subscription_config_versions |-> Versions]
             names == {"subscription_config_versions"}
  <2>1. DOMAIN new = names /\ new["subscription_config_versions"] = Versions
    OBVIOUS
  <2>2. \A t \in names : t \notin DOMAIN S[5]
    BY <1>7, <1>8 DEF InitialTables
  <2>3. S[6] = Create(S[5], new) /\ IsSchema(S[5])
    BY <1>2, <1>6
  <2> HIDE DEF new
  <2>4. DOMAIN new \intersect DOMAIN S[5] = {}
    BY <2>1, <2>2
  <2> DEFINE s == S[5]
  <2>5. IsSchema(s) /\ DOMAIN new \intersect DOMAIN s = {}
    BY <2>3, <2>4
  <2> HIDE DEF s
  <2>6. /\ DOMAIN Create(s, new) = DOMAIN s \union DOMAIN new
        /\ \A u \in DOMAIN s : Create(s, new)[u] = s[u]
        /\ \A u \in DOMAIN new : Create(s, new)[u] = new[u]
    BY <2>5, CreateIs
  <2> QED
    BY <2>1, <2>3, <2>6 DEF s
<1>10. \A r \in {7, 8, 9, 10} : DOMAIN S[r] = DOMAIN S[6]
  BY <1>5
<1>11. /\ DOMAIN S[11] = DOMAIN S[10] \union {"pipelines", "pipeline_steps"}
       /\ \A u \in DOMAIN S[10] : S[11][u] = S[10][u]
       /\ S[11]["pipelines"] = PipelineTables["pipelines"]
       /\ S[11]["pipeline_steps"] = PipelineTables["pipeline_steps"]
  <2> DEFINE names == {"pipelines", "pipeline_steps"}
  <2>1. DOMAIN PipelineTables = names
    BY DEF PipelineTables
  <2>2. \A t \in names : t \notin DOMAIN S[10]
    BY <1>7, <1>8, <1>9, <1>10 DEF InitialTables
  <2>3. S[11] = Create(S[10], PipelineTables) /\ IsSchema(S[10])
    BY <1>2, <1>6
  <2>4. DOMAIN PipelineTables \intersect DOMAIN S[10] = {}
    BY <2>1, <2>2
  <2> DEFINE s == S[10]
  <2>5. IsSchema(s) /\ DOMAIN PipelineTables \intersect DOMAIN s = {}
    BY <2>3, <2>4
  <2> HIDE DEF s
  <2>6. /\ DOMAIN Create(s, PipelineTables) = DOMAIN s \union DOMAIN PipelineTables
        /\ \A u \in DOMAIN s : Create(s, PipelineTables)[u] = s[u]
        /\ \A u \in DOMAIN PipelineTables : Create(s, PipelineTables)[u] = PipelineTables[u]
    BY <2>5, CreateIs
  <2> QED
    BY <2>1, <2>3, <2>6 DEF s
<1>12. /\ DOMAIN S[12] = DOMAIN S[11] \union {"templates"}
       /\ \A u \in DOMAIN S[11] : S[12][u] = S[11][u]
       /\ S[12]["templates"] = TemplateTables["templates"]
  <2> DEFINE names == {"templates"}
  <2>1. DOMAIN TemplateTables = names
    BY DEF TemplateTables
  <2>2. \A t \in names : t \notin DOMAIN S[11]
    BY <1>7, <1>8, <1>9, <1>10, <1>11 DEF InitialTables
  <2>3. S[12] = Create(S[11], TemplateTables) /\ IsSchema(S[11])
    BY <1>2, <1>6
  <2>4. DOMAIN TemplateTables \intersect DOMAIN S[11] = {}
    BY <2>1, <2>2
  <2> DEFINE s == S[11]
  <2>5. IsSchema(s) /\ DOMAIN TemplateTables \intersect DOMAIN s = {}
    BY <2>3, <2>4
  <2> HIDE DEF s
  <2>6. /\ DOMAIN Create(s, TemplateTables) = DOMAIN s \union DOMAIN TemplateTables
        /\ \A u \in DOMAIN s : Create(s, TemplateTables)[u] = s[u]
        /\ \A u \in DOMAIN TemplateTables : Create(s, TemplateTables)[u] = TemplateTables[u]
    BY <2>5, CreateIs
  <2> QED
    BY <2>1, <2>3, <2>6 DEF s
<1>13. \A r \in {13, 14, 15} : DOMAIN S[r] = DOMAIN S[12]
  BY <1>5
<1> QED
  BY <1>7, <1>8, <1>9, <1>10, <1>11, <1>12, <1>13

\* The latest revision has the tables and columns of the models.
LEMMA LatestIs == SchemaAt[Latest] = Models
<1> DEFINE S == [r \in 1 .. 15 |-> SchemaAt[r]]
<1>1. S[15] = SchemaAt[Latest]
  BY DEF Latest
<1>2. IsSchema(S[15])
  BY EveryStepSound DEF Fresh, Latest
<1>0. S = [r \in 1 .. 15 |-> SchemaAt[r]]
  OBVIOUS
<1> HIDE DEF S
<1>3. /\ DOMAIN S[1] = InitialTables /\ InitialTables \subseteq DOMAIN S[4]
      /\ DOMAIN S[5] = InitialTables \union {"config_versions"}
      /\ DOMAIN S[6] = DOMAIN S[5] \union {"subscription_config_versions"}
      /\ DOMAIN S[7] = DOMAIN S[6] /\ DOMAIN S[8] = DOMAIN S[6] /\ DOMAIN S[9] = DOMAIN S[6]
      /\ DOMAIN S[10] = DOMAIN S[6] /\ DOMAIN S[2] = InitialTables
      /\ DOMAIN S[3] = InitialTables /\ DOMAIN S[4] = InitialTables
      /\ DOMAIN S[11] = DOMAIN S[6] \union {"pipelines", "pipeline_steps"}
      /\ DOMAIN S[12] = DOMAIN S[11] \union {"templates"}
      /\ DOMAIN S[13] = DOMAIN S[12] /\ DOMAIN S[14] = DOMAIN S[12]
      /\ DOMAIN S[15] = DOMAIN S[12]
  BY <1>0, TablesAre
<1>4. DOMAIN S[15] = DOMAIN Models
  BY <1>3, ModelsIs
<1>5. /\ \A u \in InitialTables : S[5][u] = S[4][u] /\ S[6][u] = S[5][u] /\ S[7][u] = S[6][u]
      /\ \A u \in DOMAIN S[5] : S[6][u] = S[5][u]
      /\ \A u \in DOMAIN S[6] : S[7][u] = S[6][u] /\ S[11][u] = S[10][u]
      /\ \A u \in DOMAIN S[11] : S[12][u] = S[11][u]
      /\ \A u \in DOMAIN S[12] : S[14][u] = S[13][u]
  BY <1>0, <1>3, TablesAre, RevisionsIs
<1>6. /\ \A u \in InitialTables \ {"subscriptions", "sources"} : S[2][u] = S[1][u]
      /\ \A u \in InitialTables \ {"raw_contents"} : S[3][u] = S[2][u]
      /\ \A u \in InitialTables \ {"push_records"} : S[4][u] = S[3][u]
      /\ \A u \in DOMAIN S[6] \ {"processed_contents"} : S[8][u] = S[7][u]
      /\ \A u \in DOMAIN S[6] \ {"subscriptions"} : S[9][u] = S[8][u]
      /\ \A u \in DOMAIN S[6] \ {"push_records"} : S[10][u] = S[9][u]
      /\ \A u \in DOMAIN S[12] \ {"collect_tasks"} : S[13][u] = S[12][u]
      /\ \A u \in DOMAIN S[12] \ {"processed_contents", "content_clusters"} :
           S[15][u] = S[14][u]
  BY <1>3, <1>0, RevisionsIs DEF Alters
<1>7. InitialTables \subseteq DOMAIN S[5] /\ DOMAIN S[5] \subseteq DOMAIN S[6]
      /\ DOMAIN S[6] \subseteq DOMAIN S[11] /\ DOMAIN S[11] \subseteq DOMAIN S[12]
  BY <1>3
<1>8. /\ \A t \in DOMAIN TaskTables : S[1][t] = TaskTables[t]
      /\ \A t \in DOMAIN ContentTables : S[1][t] = ContentTables[t]
      /\ \A t \in DOMAIN DigestTables : S[1][t] = DigestTables[t]
      /\ \A t \in DOMAIN DeliveryTables : S[1][t] = DeliveryTables[t]
      /\ S[1]["sources"] = SourcesTable
  BY InitialIs, <1>0, RevisionsIs
<1>9. ASSUME NEW u \in InitialTables
      PROVE  /\ u \notin Changed => S[15][u] = S[1][u]
             /\ u = "collect_tasks" =>
                  S[12][u] = S[1][u] /\ S[15][u] = S[13][u]
             /\ u = "content_clusters" => S[14][u] = S[1][u]
             /\ u = "processed_contents" => S[7][u] = S[1][u] /\ S[14][u] = S[8][u]
             /\ u = "raw_contents" => S[2][u] = S[1][u] /\ S[15][u] = S[3][u]
             /\ u = "sources" => S[15][u] = S[2][u]
             /\ u = "subscriptions" => S[8][u] = S[2][u] /\ S[15][u] = S[9][u]
             /\ u = "push_records" =>
                  S[3][u] = S[1][u] /\ S[9][u] = S[4][u] /\ S[15][u] = S[10][u]
  BY <1>5, <1>6, <1>7 DEF Changed
<1>10. /\ S[15]["task_chains"] = TaskTables.task_chains
       /\ S[15]["digests"] = DigestTables.digests
       /\ S[15]["llm_call_logs"] = DigestTables.llm_call_logs
       /\ S[15]["chat_sessions"] = DeliveryTables.chat_sessions
  <2>1. /\ "task_chains" \in DOMAIN TaskTables
        /\ {"digests", "llm_call_logs"} \subseteq DOMAIN DigestTables
        /\ "chat_sessions" \in DOMAIN DeliveryTables
    BY DEF TaskTables, DigestTables, DeliveryTables
  <2>2. {"task_chains", "digests", "llm_call_logs", "chat_sessions"} \subseteq
          InitialTables \ Changed
    BY DEF InitialTables, Changed
  <2> QED
    BY <1>8, <1>9, <2>1, <2>2
<1>11. /\ "collect_tasks" \in DOMAIN TaskTables
       /\ {"raw_contents", "content_clusters", "processed_contents"} \subseteq DOMAIN ContentTables
       /\ {"subscriptions", "push_records"} \subseteq DOMAIN DeliveryTables
  BY DEF TaskTables, ContentTables, DeliveryTables
<1>12. Changed \subseteq InitialTables
  BY DEF InitialTables, Changed
<1>13. /\ S[15]["collect_tasks"] = TaskTables.collect_tasks \union {"celery_task_id"}
       /\ S[15]["sources"] = SourcesTable \union {"discipline_tags"}
       /\ S[15]["raw_contents"] = ContentTables.raw_contents \union {"status", "processed_at"}
  <2>1. {"collect_tasks", "sources", "raw_contents"} \subseteq InitialTables
    BY <1>12 DEF Changed
  <2>2. /\ S[13]["collect_tasks"] = S[12]["collect_tasks"] \union {"celery_task_id"}
        /\ S[2]["sources"] = S[1]["sources"] \union {"discipline_tags"}
        /\ S[3]["raw_contents"] = S[2]["raw_contents"] \union {"status", "processed_at"}
    BY <1>0, RevisionsIs
  <2> QED
    BY <1>8, <1>9, <1>11, <2>1, <2>2
<1>14. /\ S[15]["content_clusters"] =
            (ContentTables.content_clusters \ {"centroid_1536"}) \union {"centroid_1024"}
       /\ S[15]["processed_contents"] =
            ((ContentTables.processed_contents \union {"discipline_tags"})
               \ {"embedding_1536"}) \union {"embedding_1024"}
  <2>1. {"content_clusters", "processed_contents"} \subseteq InitialTables
    BY <1>12 DEF Changed
  <2>2. /\ S[8]["processed_contents"] = S[7]["processed_contents"] \union {"discipline_tags"}
        /\ S[15]["processed_contents"] =
             (S[14]["processed_contents"] \ {"embedding_1536"}) \union {"embedding_1024"}
        /\ S[15]["content_clusters"] =
             (S[14]["content_clusters"] \ {"centroid_1536"}) \union {"centroid_1024"}
    BY <1>0, RevisionsIs
  <2> QED
    BY <1>8, <1>9, <1>11, <2>1, <2>2
<1>15. /\ S[15]["subscriptions"] =
            (DeliveryTables.subscriptions \union {"timezone", "discipline_tags"})
              \union {"last_sent_at"}
       /\ S[15]["push_records"] =
            (DeliveryTables.push_records \union {"recipient_id"}) \union {"render_mode"}
  <2>1. {"subscriptions", "push_records"} \subseteq InitialTables
    BY <1>12 DEF Changed
  <2>2. /\ S[2]["subscriptions"] = S[1]["subscriptions"] \union {"timezone", "discipline_tags"}
        /\ S[9]["subscriptions"] = S[8]["subscriptions"] \union {"last_sent_at"}
        /\ S[4]["push_records"] = S[3]["push_records"] \union {"recipient_id"}
        /\ S[10]["push_records"] = S[9]["push_records"] \union {"render_mode"}
    BY <1>0, RevisionsIs
  <2> QED
    BY <1>8, <1>9, <1>11, <2>1, <2>2
<1>16. /\ S[15]["config_versions"] = Versions
       /\ S[15]["subscription_config_versions"] = Versions
       /\ S[15]["pipelines"] = PipelineTables["pipelines"]
       /\ S[15]["pipeline_steps"] = PipelineTables["pipeline_steps"]
       /\ S[15]["templates"] = TemplateTables["templates"]
  <2> DEFINE newer == {"config_versions", "subscription_config_versions", "pipelines",
                       "pipeline_steps", "templates"}
  <2>1. /\ S[5]["config_versions"] = Versions
        /\ S[6]["subscription_config_versions"] = Versions
        /\ S[11]["pipelines"] = PipelineTables["pipelines"]
        /\ S[11]["pipeline_steps"] = PipelineTables["pipeline_steps"]
        /\ S[12]["templates"] = TemplateTables["templates"]
    BY <1>0, TablesAre
  <2>2. ASSUME NEW u \in newer, u \in DOMAIN S[12] PROVE S[15][u] = S[12][u]
    BY <1>5, <1>6, <2>2
  <2>3. ASSUME NEW u \in newer, u \in DOMAIN S[6] PROVE S[11][u] = S[6][u]
    BY <1>5, <1>6, <2>3
  <2>4. {"config_versions", "subscription_config_versions"} \subseteq DOMAIN S[6]
        /\ "config_versions" \in DOMAIN S[5]
        /\ {"pipelines", "pipeline_steps"} \subseteq DOMAIN S[11]
        /\ "templates" \in DOMAIN S[12]
    BY <1>3
  <2>5. /\ S[15]["config_versions"] = S[6]["config_versions"]
        /\ S[15]["subscription_config_versions"] = S[6]["subscription_config_versions"]
        /\ S[15]["pipelines"] = S[11]["pipelines"]
        /\ S[15]["pipeline_steps"] = S[11]["pipeline_steps"]
        /\ S[15]["templates"] = S[12]["templates"]
    BY <1>5, <1>7, <2>2, <2>3, <2>4
  <2>6. S[6]["config_versions"] = S[5]["config_versions"]
    BY <1>5, <2>4
  <2> QED
    BY <2>1, <2>5, <2>6
<1>17. /\ S[15]["task_chains"] = TaskModels.task_chains
       /\ S[15]["collect_tasks"] = TaskModels.collect_tasks
  BY <1>10, <1>13 DEF TaskTables, TaskModels, Timed, Id
<1>18. S[15]["sources"] = SourceModel
  BY <1>13 DEF SourcesTable, SourceModel, Stamped, Id
<1>19. S[15]["raw_contents"] = ContentModels.raw_contents
  BY <1>13 DEF ContentTables, ContentModels, Stamped, Id
<1>20. S[15]["content_clusters"] = ContentModels.content_clusters
  BY <1>14 DEF ContentTables, ContentModels, Stamped, Id
<1>21. S[15]["processed_contents"] = ContentModels.processed_contents
  BY <1>14 DEF ContentTables, ContentModels, Stamped, Id
<1>22. /\ S[15]["digests"] = DigestModels.digests
       /\ S[15]["llm_call_logs"] = DigestModels.llm_call_logs
  BY <1>10 DEF DigestTables, DigestModels, Stamped, Id
<1>23. S[15]["subscriptions"] = DeliveryModels.subscriptions
  BY <1>15 DEF DeliveryTables, DeliveryModels, Stamped, Id
<1>24. S[15]["push_records"] = DeliveryModels.push_records
  BY <1>15 DEF DeliveryTables, DeliveryModels, Stamped, Id
<1>25. S[15]["chat_sessions"] = DeliveryModels.chat_sessions
  BY <1>10 DEF DeliveryTables, DeliveryModels, Stamped, Id
<1>26. /\ S[15]["config_versions"] = DefinitionModels.config_versions
       /\ S[15]["subscription_config_versions"] =
            DefinitionModels.subscription_config_versions
  BY <1>16 DEF Versions, DefinitionModels, Id
<1>27. S[15]["pipelines"] = DefinitionModels.pipelines
  BY <1>16 DEF PipelineTables, DefinitionModels, Stamped, Id
<1>28. S[15]["pipeline_steps"] = DefinitionModels.pipeline_steps
  BY <1>16 DEF PipelineTables, DefinitionModels, Stamped, Id
<1>29. S[15]["templates"] = DefinitionModels.templates
  BY <1>16 DEF TemplateTables, DefinitionModels, Stamped, Id
<1>30. ASSUME NEW t \in DOMAIN Models PROVE S[15][t] = Models[t]
  <2>1. /\ DOMAIN TaskModels = {"task_chains", "collect_tasks"}
        /\ DOMAIN ContentModels = {"raw_contents", "content_clusters", "processed_contents"}
        /\ DOMAIN DigestModels = {"digests", "llm_call_logs"}
        /\ DOMAIN DeliveryModels = {"subscriptions", "push_records", "chat_sessions"}
        /\ DOMAIN DefinitionModels =
             {"pipelines", "pipeline_steps", "templates", "config_versions",
              "subscription_config_versions"}
    BY DEF TaskModels, ContentModels, DigestModels, DeliveryModels, DefinitionModels
  <2>2. \/ t = "sources" \/ t \in DOMAIN TaskModels \/ t \in DOMAIN ContentModels
        \/ t \in DOMAIN DigestModels \/ t \in DOMAIN DeliveryModels
        \/ t \in DOMAIN DefinitionModels
    BY <2>1, ModelsIs DEF InitialTables
  <2>3. /\ t \in DOMAIN TaskModels => S[15][t] = TaskModels[t]
        /\ t \in DOMAIN ContentModels => S[15][t] = ContentModels[t]
        /\ t \in DOMAIN DigestModels => S[15][t] = DigestModels[t]
    BY <1>17, <1>19, <1>20, <1>21, <1>22, <2>1
  <2>4. /\ t \in DOMAIN DeliveryModels => S[15][t] = DeliveryModels[t]
        /\ t \in DOMAIN DefinitionModels => S[15][t] = DefinitionModels[t]
    BY <1>23, <1>24, <1>25, <1>26, <1>27, <1>28, <1>29, <2>1
  <2> QED
    BY <1>18, <2>2, <2>3, <2>4, ModelsIs
<1> QED
  BY <1>1, <1>2, <1>4, <1>30, ModelsIs DEF IsSchema

\* What the theorems below need to know of a revision's tables.
LEMMA DefinitionsAre ==
  ASSUME NEW r \in 0 .. Latest
  PROVE  /\ r < PipelinesRev => "pipelines" \notin DOMAIN SchemaAt[r]
         /\ "templates" \in DOMAIN SchemaAt[r] => Works(SchemaAt[r], "templates")
         /\ Works(SchemaAt[r], "processed_contents") => r >= ResizeRev
<1> DEFINE S == [q \in 1 .. 15 |-> SchemaAt[q]]
<1>0. S = [q \in 1 .. 15 |-> SchemaAt[q]]
  OBVIOUS
<1>1. \A q \in 1 .. 15 : S[q] = SchemaAt[q]
  OBVIOUS
<1> HIDE DEF S
<1>2. CASE r = 0
  <2>1. DOMAIN SchemaAt[r] = {}
    BY <1>2, SchemaAtUp DEF NoSchema
  <2> QED
    BY <2>1 DEF Works
<1>3. CASE r # 0
  <2>1. r \in 1 .. 15 /\ r \in 1 .. Latest /\ Latest = 15
    BY <1>3 DEF Latest
  <2>2. \A q \in 2 .. 15 : r < q => Waits(SchemaAt[r], q)
    BY <2>1, EveryStepSound DEF Fresh
  <2>3. r < PipelinesRev => "pipelines" \notin DOMAIN SchemaAt[r]
    BY <2>1, <2>2 DEF Waits, PipelinesRev
  <2>4. ASSUME "templates" \in DOMAIN SchemaAt[r] PROVE Works(SchemaAt[r], "templates")
    <3>1. r \in {12, 13, 14, 15}
      BY <2>1, <2>2, <2>4 DEF Waits
    <3>2. /\ S[12]["templates"] = TemplateTables["templates"]
          /\ "templates" \in DOMAIN S[12]
          /\ DOMAIN S[13] = DOMAIN S[12] /\ DOMAIN S[14] = DOMAIN S[12]
      BY <1>0, TablesAre
    <3>3. /\ S[13]["templates"] = S[12]["templates"] /\ S[14]["templates"] = S[13]["templates"]
          /\ S[15]["templates"] = S[14]["templates"]
      BY <1>0, <3>2, RevisionsIs DEF Alters
    <3>4. SchemaAt[r]["templates"] = TemplateTables["templates"]
      BY <1>1, <3>1, <3>2, <3>3
    <3>5. TemplateTables["templates"] = DefinitionModels["templates"]
      BY DEF TemplateTables, DefinitionModels, Stamped, Id
    <3>6. "templates" \in DOMAIN DefinitionModels
      BY DEF DefinitionModels
    <3> QED
      BY <2>4, <3>4, <3>5, <3>6, ModelsIs DEF Works
  <2>5. ASSUME Works(SchemaAt[r], "processed_contents"), r < 15 PROVE FALSE
    <3>1. "embedding_1024" \notin SchemaAt[r]["processed_contents"]
      BY <2>2, <2>5 DEF Waits, Lacks
    <3>2. "embedding_1024" \in ContentModels["processed_contents"]
          /\ "processed_contents" \in DOMAIN ContentModels
      BY DEF ContentModels
    <3> QED
      BY <2>5, <3>1, <3>2, ModelsIs DEF Works
  <2> QED
    BY <2>1, <2>3, <2>4, <2>5 DEF ResizeRev
<1> QED
  BY <1>2, <1>3

-----------------------------------------------------------------------------
(* The invariant. *)

\* The tables and the embeddings are those of the revision ...
TablesInv ==
  /\ revision \in 0 .. Latest
  /\ schema = SchemaAt[revision]
  /\ vectors \in {0, WidthOf(revision)}

\* ... a pipeline that was written has a row, with the steps last written but for
\* those that were written late, as all are that the API which starts now has
\* found missing ...
PipelinesInv ==
  /\ pipelines \in [Pipelines -> Defs \union {NoDef}]
  /\ DOMAIN written = Pipelines
  /\ \A n \in Pipelines : written[n] # "none" =>
       /\ pipelines[n] # NoDef
       /\ n \in missing => n \in late
       /\ n \notin late => pipelines[n].steps = written[n]

\* ... and an active template has a table that works, and was rendered as it is,
\* if a template can be built from every active row.
TemplatesInv ==
  /\ DOMAIN templates = Templates
  /\ \A t \in Templates : templates[t].status = "active" => Works(schema, "templates")
  /\ RendersCurrent

DeploymentInv == TablesInv /\ PipelinesInv /\ TemplatesInv

\* A new deployment, or one of an older release.
LEMMA InitInv == Init => DeploymentInv
<1> SUFFICES ASSUME Init PROVE DeploymentInv
  OBVIOUS
<1>1. revision \in 0 .. Latest
  BY DeploymentAssumption DEF Init
<1>2. TablesInv
  <2>1. SchemaAt[revision] = Migrated(NoSchema, 0, revision)
    BY <1>1 DEF SchemaAt
  <2> QED
    BY <1>1, <2>1 DEF Init, TablesInv
<1>3. PipelinesInv
  <2> DEFINE def == [steps |-> "shipped", tools |-> {ToolOf(revision)}]
  <2>1. def \in Defs
    BY DEF Defs, Steps, Tools, ToolOf
  <2> HIDE DEF def
  <2>2. pipelines = [n \in Pipelines |->
          IF revision >= PipelinesRev /\ n \in Shipped THEN def ELSE NoDef]
    BY DEF Init, def
  <2>3. written = [n \in Pipelines |-> "none"]
    BY DEF Init
  <2> QED
    BY <2>1, <2>2, <2>3 DEF PipelinesInv
<1>4. TemplatesInv
  <2>1. templates = [t \in Templates |-> NoTemplate] /\ rendered = NoPush
    BY DEF Init
  <2>2. NoTemplate.status # "active"
    BY DEF NoTemplate
  <2> HIDE DEF NoTemplate
  <2> QED
    BY <2>1, <2>2 DEF TemplatesInv, RendersCurrent
<1> QED
  BY <1>2, <1>3, <1>4 DEF DeploymentInv

\* Where a migration that is not blocked leads.
LEMMA MigrateTables ==
  ASSUME TablesInv, NEW to \in Revisions, Migrate(to), ~Blocked(to)
  PROVE  /\ to \in 0 .. Latest /\ revision' = to /\ schema' = SchemaAt[to]
         /\ vectors' \in {0, WidthOf(to)}
<1>1. to \in 0 .. Latest
  BY DeploymentAssumption
<1>2. /\ revision' = to /\ schema' = Migrated(schema, revision, to)
      /\ vectors' = IF to = 0 THEN 0 ELSE vectors
  BY DEF Migrate
<1>3. schema' = SchemaAt[to]
  BY <1>1, <1>2, MigrationsCompose DEF TablesInv
<1>4. vectors' \in {0, WidthOf(to)}
  <2>1. vectors # 0 => WidthOf(to) = WidthOf(revision)
    BY DEF Blocked, WidthOf
  <2> QED
    BY <1>2, <2>1 DEF TablesInv
<1> QED
  BY <1>1, <1>2, <1>3, <1>4

\* The tables change with a migration, and the embeddings when one is stored.
LEMMA StepTables == TablesInv /\ [Next]_vars => TablesInv'
<1> SUFFICES ASSUME TablesInv, [Next]_vars PROVE TablesInv'
  OBVIOUS
<1>1. ASSUME NEW to \in Revisions, Migrate(to) PROVE TablesInv'
  <2>1. CASE Blocked(to)
    BY <1>1, <2>1 DEF Migrate, TablesInv, WidthOf
  <2>2. CASE ~Blocked(to)
    BY <1>1, <2>2, MigrateTables DEF TablesInv
  <2> QED
    BY <2>1, <2>2
<1>2. CASE Embed
  <2>1. revision >= ResizeRev
    BY <1>2, DefinitionsAre DEF Embed, TablesInv
  <2> QED
    BY <1>2, <2>1 DEF Embed, TablesInv, WidthOf
<1>3. ASSUME UNCHANGED <<revision, schema, vectors>> PROVE TablesInv'
  BY <1>3 DEF TablesInv, WidthOf
<1>4. CASE \/ StartApi \/ Seed \/ StartWorker \/ StartBeat
           \/ \E p \in Procs \union {"starting"} : Stop(p)
           \/ PatchPipeline \/ \E p \in Procs : Push(p)
  BY <1>3, <1>4 DEF StartApi, Seed, StartWorker, StartBeat, Stop, PatchPipeline, Write, Push
<1>5. CASE \E n \in Pipelines :
             \/ \E def \in Defs : WritePipeline(n, def)
             \/ ReadPipeline(n) \/ DeletePipeline(n) \/ DispatchRun(n) \/ LoadRun(n)
  BY <1>3, <1>5 DEF WritePipeline, ReadPipeline, DeletePipeline, Write, DispatchRun, LoadRun
<1>6. CASE \E t \in Templates :
             \/ \E source \in Sources, status \in {"active", "archived"} :
                  WriteTemplate(t, source, status)
             \/ BreakTemplate(t) \/ DeleteTemplate(t)
  BY <1>3, <1>6 DEF WriteTemplate, BreakTemplate, DeleteTemplate, Edit
<1>7. CASE UNCHANGED vars
  BY <1>3, <1>7
<1> QED
  BY <1>1, <1>2, <1>4, <1>5, <1>6, <1>7 DEF Next

\* What a migration leaves of a definition: nothing, or all of its steps.
LEMMA CarriedIs ==
  ASSUME NEW def \in Defs, NEW to \in Nat
  PROVE  /\ Carried(def, to) \in Defs \union {NoDef}
         /\ to >= PipelinesRev =>
              Carried(def, to) \in Defs /\ Carried(def, to).steps = def.steps
<1>1. ASSUME NEW old \in Tools, NEW new \in Tools
      PROVE  Renamed(def, old, new) \in Defs /\ Renamed(def, old, new).steps = def.steps
  <2> DEFINE tools == (def.tools \ {old}) \union {new}
  <2>1. tools \in SUBSET Tools
    BY DEF Defs
  <2>2. [def EXCEPT !.tools = tools] \in Defs
        /\ [def EXCEPT !.tools = tools].steps = def.steps
    <3> HIDE DEF tools
    <3> QED
      BY <2>1 DEF Defs
  <2>3. Renamed(def, old, new) = IF old \in def.tools
                                   THEN [def EXCEPT !.tools = tools] ELSE def
    BY DEF Renamed
  <2> HIDE DEF tools
  <2> QED
    BY <2>2, <2>3
<1>2. OldTool \in Tools /\ NewTool \in Tools
  BY DEF Tools
<1>3. \/ Carried(def, to) = NoDef /\ to < PipelinesRev
      \/ Carried(def, to) \in {def, Renamed(def, OldTool, NewTool), Renamed(def, NewTool, OldTool)}
  BY DEF Carried
<1>4. PipelinesRev \in Nat
  BY DEF PipelinesRev
<1> HIDE DEF Tools, OldTool, NewTool
<1> QED
  BY <1>1, <1>2, <1>3, <1>4

\* No definition is without steps.
LEMMA DefsAre ==
  /\ NoDef \notin Defs
  /\ \A def \in Defs : def # NoDef /\ def.steps \in Steps /\ def.steps # "none"
<1>1. NoDef.steps = "none"
  BY DEF NoDef
<1>2. \A def \in Defs : def.steps \in Steps /\ def.steps # "none"
  BY DEF Defs, Steps
<1> QED
  BY <1>1, <1>2

\* A definition changes with what was written of it.
LEMMA StepPipelines == TablesInv /\ PipelinesInv /\ [Next]_vars => PipelinesInv'
<1> SUFFICES ASSUME TablesInv, PipelinesInv, [Next]_vars PROVE PipelinesInv'
  OBVIOUS
<1>0. /\ pipelines \in [Pipelines -> Defs \union {NoDef}] /\ DOMAIN written = Pipelines
      /\ \A n \in Pipelines : written[n] # "none" =>
           /\ pipelines[n] # NoDef
           /\ n \in missing => n \in late
           /\ n \notin late => pipelines[n].steps = written[n]
  BY DEF PipelinesInv
<1>1. ASSUME UNCHANGED <<pipelines, written, late>>, missing' = missing \/ missing' = {}
      PROVE  PipelinesInv'
  BY <1>0, <1>1 DEF PipelinesInv
<1>2. ASSUME NEW to \in Revisions, Migrate(to) PROVE PipelinesInv'
  <2>1. CASE Blocked(to)
    BY <1>1, <1>2, <2>1 DEF Migrate
  <2>2. CASE ~Blocked(to)
    <3>1. to \in 0 .. Latest /\ schema' = SchemaAt[to]
      BY <1>2, <2>2, MigrateTables
    <3>2. to \in Nat /\ PipelinesRev \in Nat
      BY <3>1 DEF PipelinesRev
    <3>3. /\ pipelines' = [n \in Pipelines |->
               IF pipelines[n] = NoDef THEN NoDef ELSE Carried(pipelines[n], to)]
          /\ written' = IF "pipelines" \in DOMAIN schema' THEN written
                          ELSE [n \in Pipelines |-> "none"]
      BY <1>2, <2>2 DEF Migrate
    <3>4. to < PipelinesRev => \A n \in Pipelines : written'[n] = "none"
      BY <3>1, <3>3, DefinitionsAre
    <3>5. \A n \in Pipelines : pipelines[n] # NoDef =>
            /\ Carried(pipelines[n], to) \in Defs \union {NoDef}
            /\ to >= PipelinesRev =>
                 /\ Carried(pipelines[n], to) \in Defs
                 /\ Carried(pipelines[n], to).steps = pipelines[n].steps
      BY <1>0, <3>2, CarriedIs
    <3>6. pipelines' \in [Pipelines -> Defs \union {NoDef}]
      BY <3>3, <3>5
    <3>7. ASSUME NEW n \in Pipelines, written'[n] # "none"
          PROVE  /\ pipelines'[n] # NoDef
                 /\ n \in missing => n \in late
                 /\ n \notin late => pipelines'[n].steps = written'[n]
      <4>1. to >= PipelinesRev /\ written'[n] = written[n]
        BY <3>2, <3>3, <3>4, <3>7
      <4>2. /\ pipelines[n] # NoDef
            /\ n \in missing => n \in late
            /\ n \notin late => pipelines[n].steps = written[n]
        BY <1>0, <3>7, <4>1
      <4>3. pipelines'[n] = Carried(pipelines[n], to)
        BY <3>3, <4>2
      <4> QED
        BY <3>5, <4>1, <4>2, <4>3, DefsAre
    <3>8. UNCHANGED <<missing, late>>
      BY <1>2 DEF Migrate
    <3> QED
      BY <1>0, <3>3, <3>6, <3>7, <3>8 DEF PipelinesInv
  <2> QED
    BY <2>1, <2>2
<1>3. CASE StartApi
  <2>1. UNCHANGED <<pipelines, written, late>>
        /\ missing' = IF Definable THEN Missing ELSE {}
    BY <1>3 DEF StartApi
  <2>2. \A n \in missing' : pipelines[n] = NoDef
    BY <2>1 DEF Missing
  <2> QED
    BY <1>0, <2>1, <2>2 DEF PipelinesInv
<1>4. CASE Seed
  <2>1. /\ UNCHANGED <<written, late>> /\ missing' = {}
        /\ \/ pipelines' = [n \in Pipelines |->
                             IF n \in missing THEN ShippedDef ELSE pipelines[n]]
           \/ pipelines' = pipelines
    BY <1>4 DEF Seed
  <2>2. ShippedDef \in Defs
    BY DEF ShippedDef, Defs, Steps, Tools
  <2>3. pipelines' \in [Pipelines -> Defs \union {NoDef}]
    BY <1>0, <2>1, <2>2
  <2>4. \A n \in Pipelines : \/ pipelines'[n] = pipelines[n]
                            \/ (n \in missing /\ pipelines'[n] = ShippedDef)
    <3> HIDE DEF ShippedDef
    <3> QED
      BY <2>1
  <2> QED
    BY <1>0, <2>1, <2>2, <2>3, <2>4, DefsAre DEF PipelinesInv
<1>5. ASSUME NEW n, NEW def \in Defs \union {NoDef}, Write(n, def) PROVE PipelinesInv'
  <2>1. /\ pipelines' = [pipelines EXCEPT ![n] = def] /\ missing' = missing
        /\ written' = [written EXCEPT ![n] = def.steps]
        /\ late' = IF n \in missing THEN late \union {n} ELSE late \ {n}
    BY <1>5 DEF Write
  <2>2. pipelines' \in [Pipelines -> Defs \union {NoDef}] /\ DOMAIN written' = Pipelines
    BY <1>0, <2>1
  <2>3. ASSUME NEW m \in Pipelines, written'[m] # "none"
        PROVE  /\ pipelines'[m] # NoDef
               /\ m \in missing' => m \in late'
               /\ m \notin late' => pipelines'[m].steps = written'[m]
    <3>1. CASE m = n
      <4>1. pipelines'[m] = def /\ written'[m] = def.steps
        BY <1>0, <2>1, <3>1
      <4>2. NoDef.steps = "none"
        BY DEF NoDef
      <4> QED
        BY <2>1, <2>3, <3>1, <4>1, <4>2
    <3>2. CASE m # n
      <4>1. pipelines'[m] = pipelines[m] /\ written'[m] = written[m]
            /\ (m \in late' <=> m \in late)
        BY <1>0, <2>1, <3>2
      <4> QED
        BY <1>0, <2>1, <2>3, <4>1
    <3> QED
      BY <3>1, <3>2
  <2> QED
    BY <2>2, <2>3 DEF PipelinesInv
<1>6. ASSUME NEW n \in Pipelines, NEW def \in Defs, WritePipeline(n, def) PROVE PipelinesInv'
  BY <1>5, <1>6 DEF WritePipeline
<1>7. CASE PatchPipeline
  <2>1. PICK steps \in Steps, tools \in SUBSET Tools :
          Write(patch.name, [steps |-> steps, tools |-> tools])
    BY <1>7 DEF PatchPipeline
  <2>2. [steps |-> steps, tools |-> tools] \in Defs
    BY DEF Defs
  <2> QED
    BY <1>5, <2>1, <2>2
<1>8. ASSUME NEW n \in Pipelines, DeletePipeline(n) PROVE PipelinesInv'
  BY <1>5, <1>8 DEF DeletePipeline
<1>9. CASE \/ Embed \/ StartWorker \/ StartBeat
           \/ (\E p \in Procs \union {"starting"} : Stop(p))
           \/ \E p \in Procs : Push(p)
  BY <1>1, <1>9 DEF Embed, StartWorker, StartBeat, Stop, Push
<1>10. ASSUME NEW n \in Pipelines, ReadPipeline(n) \/ DispatchRun(n) \/ LoadRun(n)
       PROVE  PipelinesInv'
  BY <1>1, <1>10 DEF ReadPipeline, DispatchRun, LoadRun
<1>11. CASE \E t \in Templates :
              \/ \E source \in Sources, status \in {"active", "archived"} :
                   WriteTemplate(t, source, status)
              \/ BreakTemplate(t) \/ DeleteTemplate(t)
  BY <1>1, <1>11 DEF WriteTemplate, BreakTemplate, DeleteTemplate, Edit
<1>12. CASE UNCHANGED vars
  BY <1>1, <1>12
<1> QED
  BY <1>2, <1>3, <1>4, <1>6, <1>7, <1>8, <1>9, <1>10, <1>11, <1>12 DEF Next

\* A process that hydrates has the active templates as they are, if a template
\* can be built from each.
LEMMA HydratedIs ==
  ASSUME \A t \in Templates : Active(t) => Loadable(t), NEW p,
         NEW hydrated \in Hydrations(p)
  PROVE  \A t \in Templates : Active(t) => hydrated[t] = templates[t].source
<1> DEFINE made(done) ==
      [t \in Templates |-> IF t \in done THEN templates[t].source ELSE registry[p][t]]
<1>1. PICK done : /\ hydrated = made(done)
                  /\ \A t \in Templates : Active(t) => t \in done
                                              \/ \E u \in Templates : Active(u) /\ ~Loadable(u)
  <2> HIDE DEF Active, Loadable
  <2> QED
    BY DEF Hydrations
<1>2. \A t \in Templates : Active(t) => t \in done
  BY <1>1
<1> QED
  BY <1>1, <1>2

\* What a push has rendered is forgotten when a template changes.
LEMMA StepTemplates == TablesInv /\ TemplatesInv /\ [Next]_vars => TemplatesInv'
<1> SUFFICES ASSUME TablesInv, TemplatesInv, [Next]_vars PROVE TemplatesInv'
  OBVIOUS
<1>0. /\ DOMAIN templates = Templates /\ RendersCurrent
      /\ \A t \in Templates : templates[t].status = "active" => Works(schema, "templates")
  BY DEF TemplatesInv
<1>1. ASSUME UNCHANGED <<schema, templates, rendered>> PROVE TemplatesInv'
  BY <1>0, <1>1 DEF TemplatesInv, RendersCurrent, NoPush, Active, Loadable
<1>2. rendered' = NoPush => RendersCurrent'
  BY DEF RendersCurrent, NoPush
<1>3. ASSUME NEW to \in Revisions, Migrate(to) PROVE TemplatesInv'
  <2>1. rendered' = NoPush
    BY <1>3 DEF Migrate
  <2>2. CASE Blocked(to)
    <3>1. schema' = schema /\ templates' = templates
      BY <1>3, <2>2 DEF Migrate
    <3> QED
      BY <1>0, <1>2, <2>1, <3>1 DEF TemplatesInv
  <2>3. CASE ~Blocked(to)
    <3>1. to \in 0 .. Latest /\ schema' = SchemaAt[to]
      BY <1>3, <2>3, MigrateTables
    <3>2. templates' = IF "templates" \in DOMAIN schema' THEN templates
                         ELSE [t \in Templates |-> NoTemplate]
      BY <1>3, <2>3 DEF Migrate
    <3>3. CASE "templates" \in DOMAIN schema'
      <4>1. Works(schema', "templates")
        BY <3>1, <3>3, DefinitionsAre
      <4>2. templates' = templates
        BY <3>2, <3>3
      <4> QED
        BY <1>0, <1>2, <2>1, <4>1, <4>2 DEF TemplatesInv
    <3>4. CASE "templates" \notin DOMAIN schema'
      <4>1. templates' = [t \in Templates |-> NoTemplate]
        BY <3>2, <3>4
      <4>2. NoTemplate.status # "active"
        BY DEF NoTemplate
      <4> HIDE DEF NoTemplate
      <4> QED
        BY <1>2, <2>1, <4>1, <4>2 DEF TemplatesInv
    <3> QED
      BY <3>3, <3>4
  <2> QED
    BY <2>2, <2>3
<1>4. ASSUME NEW p \in Procs, Push(p) PROVE TemplatesInv'
  <2>1. PICK hydrated \in Hydrations(p) :
          rendered' = IF Channels = {} THEN rendered ELSE hydrated
    BY <1>4 DEF Push
  <2>2. UNCHANGED <<schema, templates>>
    BY <1>4 DEF Push
  <2>3. CASE rendered' = rendered
    BY <1>1, <2>2, <2>3
  <2>4. CASE rendered' = hydrated
    <3>1. RendersCurrent'
      <4> SUFFICES ASSUME \A t \in Templates : Active(t)' => Loadable(t)',
                          NEW t \in Templates, Active(t)'
                   PROVE  rendered'[t] = templates'[t].source
        BY DEF RendersCurrent
      <4>1. \A u \in Templates : (Active(u)' <=> Active(u)) /\ (Loadable(u)' <=> Loadable(u))
        BY <2>2 DEF Active, Loadable
      <4>2. hydrated[t] = templates[t].source
        BY <4>1, HydratedIs
      <4> QED
        BY <2>2, <2>4, <4>2
    <3> QED
      BY <1>0, <2>2, <3>1 DEF TemplatesInv
  <2> QED
    BY <2>1, <2>3, <2>4
<1>5. ASSUME NEW t \in Templates, NEW row, Edit(t, row) PROVE TemplatesInv'
  <2>1. /\ templates' = [templates EXCEPT ![t] = row] /\ rendered' = NoPush
        /\ Works(schema, "templates") /\ schema' = schema
    BY <1>5 DEF Edit
  <2> QED
    BY <1>0, <1>2, <2>1 DEF TemplatesInv
<1>6. CASE \E t \in Templates :
              \/ \E source \in Sources, status \in {"active", "archived"} :
                   WriteTemplate(t, source, status)
              \/ BreakTemplate(t) \/ DeleteTemplate(t)
  BY <1>5, <1>6 DEF WriteTemplate, BreakTemplate, DeleteTemplate
<1>7. CASE \/ Embed \/ StartApi \/ Seed \/ StartWorker \/ StartBeat \/ PatchPipeline
           \/ \E p \in Procs \union {"starting"} : Stop(p)
  BY <1>1, <1>7 DEF Embed, StartApi, Seed, StartWorker, StartBeat, PatchPipeline, Write, Stop
<1>8. CASE \E n \in Pipelines :
              \/ \E def \in Defs : WritePipeline(n, def)
              \/ ReadPipeline(n) \/ DeletePipeline(n) \/ DispatchRun(n) \/ LoadRun(n)
  BY <1>1, <1>8 DEF WritePipeline, ReadPipeline, DeletePipeline, Write, DispatchRun, LoadRun
<1>9. CASE UNCHANGED vars
  BY <1>1, <1>9
<1> QED
  BY <1>3, <1>4, <1>6, <1>7, <1>8, <1>9 DEF Next

\* The invariant is inductive.
LEMMA StepInv == DeploymentInv /\ [Next]_vars => DeploymentInv'
BY StepTables, StepPipelines, StepTemplates DEF DeploymentInv

LEMMA AlwaysInv == Spec => []DeploymentInv
BY InitInv, StepInv, PTL DEF Spec

-----------------------------------------------------------------------------
(* The theorems. *)

\* Whatever migrations, up and down, through any number of revisions and with
\* failures among them, led to a revision (alembic/versions/), the database has
\* the tables and columns of that revision; those of the latest are the ones
\* that storage/models.py names; and the stored embeddings are as wide as their
\* column.
THEOREM SchemaFollows == Spec => []SchemaOfRevision
<1>1. DeploymentInv => SchemaOfRevision
  BY LatestIs DEF DeploymentInv, TablesInv, SchemaOfRevision
<1> QED
  BY <1>1, AlwaysInv, PTL

\* What an operator last wrote of a pipeline is what a worker loads
\* (PipelineLoader.load), whatever seeds, restarts, migrations and concurrent
\* edits come after it, as long as the tables are there; unless an API that was
\* starting had listed the name as missing and had yet to upsert the seeds.
THEOREM EditsAlwaysSurvive == Spec => []EditsSurvive
<1>1. DeploymentInv => EditsSurvive
  BY DEF DeploymentInv, PipelinesInv, EditsSurvive, Loaded
<1> QED
  BY <1>1, AlwaysInv, PTL

\* As long as a template can be built from each active row, a push renders an
\* active template as the database has it, although another process wrote it
\* after this one had registered it (register_db_templates).
THEOREM RendersStayCurrent == Spec => []RendersCurrent
<1>1. DeploymentInv => RendersCurrent
  BY DEF DeploymentInv, TemplatesInv
<1> QED
  BY <1>1, AlwaysInv, PTL

\* A migration across the renaming of the digest tool, in either direction and
\* over any other revisions, takes the tool from no pipeline that allows it.
THEOREM DigestToolStays == Spec => DigestToolKept
<1> DEFINE ToolKept ==
      \A n \in Pipelines :
        /\ revision' # revision
        /\ pipelines[n] # NoDef /\ pipelines'[n] # NoDef
        /\ ToolOf(revision) \in pipelines[n].tools
        => ToolOf(revision') \in pipelines'[n].tools
<1>1. DeploymentInv /\ [Next]_vars => [ToolKept]_vars
  <2> SUFFICES ASSUME DeploymentInv, [Next]_vars, NEW n \in Pipelines,
                      revision' # revision, pipelines[n] # NoDef, pipelines'[n] # NoDef,
                      ToolOf(revision) \in pipelines[n].tools
               PROVE  ToolOf(revision') \in pipelines'[n].tools
    OBVIOUS
  <2>1. PICK to \in Revisions : Migrate(to)
    BY DEF Next, Embed, StartApi, Seed, StartWorker, StartBeat, Stop, Write, WritePipeline,
       ReadPipeline, DeletePipeline, DispatchRun, LoadRun, PatchPipeline, Edit, WriteTemplate,
       BreakTemplate, DeleteTemplate, Push
  <2>2. ~Blocked(to)
    BY <2>1 DEF Migrate
  <2>3. /\ revision' = to
        /\ pipelines' = [m \in Pipelines |->
             IF pipelines[m] = NoDef THEN NoDef ELSE Carried(pipelines[m], to)]
    BY <2>1, <2>2 DEF Migrate
  <2>4. pipelines[n] \in Defs
    BY DEF DeploymentInv, PipelinesInv
  <2> DEFINE def == pipelines[n]
  <2>5. pipelines'[n] = Carried(def, to)
    BY <2>3
  <2>6. ASSUME NEW old, NEW new, old \in def.tools
        PROVE  new \in Renamed(def, old, new).tools
    <3> DEFINE tools == (def.tools \ {old}) \union {new}
    <3>1. new \in tools
      OBVIOUS
    <3> HIDE DEF tools
    <3>2. [def EXCEPT !.tools = tools].tools = tools
      BY <2>4 DEF Defs
    <3>3. Renamed(def, old, new) = [def EXCEPT !.tools = tools]
      BY <2>6 DEF Renamed, tools
    <3> QED
      BY <3>1, <3>2, <3>3
  <2>7. to \in Nat /\ revision \in Nat
    BY DeploymentAssumption DEF DeploymentInv, TablesInv
  <2> HIDE DEF def
  <2>8. ToolOf(revision) \in def.tools /\ Carried(def, to) # NoDef
    BY <2>5 DEF def
  <2>9. CASE revision < RenameRev /\ to >= RenameRev
    <3>1. ToolOf(revision) = OldTool /\ ToolOf(to) = NewTool
      BY <2>7, <2>9 DEF ToolOf, RenameRev
    <3>2. Carried(def, to) = Renamed(def, OldTool, NewTool)
      BY <2>8, <2>9 DEF Carried
    <3> QED
      BY <2>3, <2>5, <2>6, <2>8, <3>1, <3>2
  <2>10. CASE revision >= RenameRev /\ to < RenameRev
    <3>1. ToolOf(revision) = NewTool /\ ToolOf(to) = OldTool
      BY <2>7, <2>10 DEF ToolOf, RenameRev
    <3>2. Carried(def, to) = Renamed(def, NewTool, OldTool)
      BY <2>7, <2>8, <2>10 DEF Carried, RenameRev
    <3> QED
      BY <2>3, <2>5, <2>6, <2>8, <3>1, <3>2
  <2>11. CASE (revision >= RenameRev) = (to >= RenameRev)
    <3>1. ToolOf(revision) = ToolOf(to)
      BY <2>11 DEF ToolOf
    <3>2. Carried(def, to) = def
      BY <2>7, <2>8, <2>11 DEF Carried, RenameRev
    <3> QED
      BY <2>3, <2>5, <2>8, <3>1, <3>2
  <2> QED
    BY <2>7, <2>9, <2>10, <2>11 DEF RenameRev
<1>2. Spec => [][Next]_vars
  BY PTL DEF Spec
<1> QED
  BY <1>1, <1>2, AlwaysInv, PTL DEF DigestToolKept
=============================================================================
