-------------------------- MODULE Ingestion_proofs --------------------------
(***************************************************************************)
(* Proofs about the import of the company tables: its types, that an       *)
(* import which was cut off any number of times ends with the tables of    *)
(* one that was not, that it lacks nothing whatever failed, and how often  *)
(* a partner can be inserted.                                              *)
(*                                                                         *)
(* The argument for the second is that the files of a kind are noted in    *)
(* their order, so that a table which another run fills again holds, for   *)
(* every key that the first file without a note does not have, what the    *)
(* noted files make of it; the lines of that file are all sent again.      *)
(***************************************************************************)
EXTENDS Ingestion, FiniteSums

-----------------------------------------------------------------------------
(* Files and lines *)

\* The five kinds.
LEMMA KindsAre ==
  /\ DOMAIN Kinds = 1..5 /\ Len(Kinds) = 5
  /\ Kinds[1] = "Cnaes" /\ Kinds[2] = "Empresas" /\ Kinds[3] = "Simples"
  /\ Kinds[4] = "Estabelecimentos" /\ Kinds[5] = "Socios"
  BY DEF Kinds

\* Files are numbers, and there are finitely many.
LEMMA FilesAreNumbers ==
  IsFiniteSet(Files) /\ Files \subseteq Nat
<1>1. Files = 1..Len(Kind) /\ Len(Kind) \in Nat
  BY IngestionAssumption DEF Files
<1> QED
  BY <1>1, FS_Interval

\* Every file has one of the kinds.
LEMMA KindOfFile ==
  \A f \in Files : \E i \in 1..5 : Kind[f] = Kinds[i]
  BY IngestionAssumption, KindsAre DEF Files

\* Lines are numbers from 1, and there are finitely many.
LEMMA LinesAreNumbers ==
  ASSUME NEW f \in Files
  PROVE  IsFiniteSet(Lines(f)) /\ Lines(f) \subseteq Nat \ {0}
<1>1. DOMAIN Rows[f] = 1..Len(Rows[f]) /\ Len(Rows[f]) \in Nat
  BY IngestionAssumption
<1>2. IsFiniteSet(1..Len(Rows[f])) /\ Lines(f) \subseteq 1..Len(Rows[f])
  BY <1>1, FS_Interval DEF Lines
<1> QED
  BY <1>2, FS_Subset

\* So are those with one key.
LEMMA LinesOfAreNumbers ==
  ASSUME NEW f \in Files, NEW key
  PROVE  IsFiniteSet(LinesOf(f, key)) /\ LinesOf(f, key) \subseteq Lines(f)
  BY LinesAreNumbers, FS_Subset DEF LinesOf

\* The greatest number of a set.
LEMMA MaxIs ==
  ASSUME NEW S \in SUBSET Int, IsFiniteSet(S), S # {}
  PROVE  Max(S) \in S /\ \A i \in S : i <= Max(S)
<1>1. \E i \in S : \A j \in S : i >= j
  BY HasGreatest
<1> QED
  BY <1>1 DEF Max

\* It is the only one of its kind.
LEMMA MaxOnly ==
  ASSUME NEW S \in SUBSET Int, NEW m \in S, \A i \in S : i <= m
  PROVE  Max(S) = m
<1>1. \E i \in S : \A j \in S : i >= j
  OBVIOUS
<1>2. Max(S) \in S /\ \A j \in S : Max(S) >= j
  BY <1>1 DEF Max
<1>3. Max(S) \in Int /\ m \in Int /\ Max(S) <= m /\ m <= Max(S)
  BY <1>2
<1> QED
  BY <1>3

\* The last line with a key in files that have one.
LEMMA NewestIs ==
  ASSUME NEW files \in SUBSET Files, NEW key, With(files, key) # {}
  PROVE  /\ Max(With(files, key)) \in With(files, key)
         /\ \A g \in With(files, key) : g <= Max(With(files, key))
         /\ LET f == Max(With(files, key)) IN
              f \in files /\ Max(LinesOf(f, key)) \in LinesOf(f, key)
<1>1. IsFiniteSet(With(files, key)) /\ With(files, key) \in SUBSET Int
  <2>1. With(files, key) \subseteq files
    BY DEF With
  <2>2. IsFiniteSet(With(files, key))
    BY <2>1, FilesAreNumbers, FS_Subset
  <2>3. files \subseteq Int
    BY FilesAreNumbers
  <2> QED
    BY <2>1, <2>2, <2>3
<1>2. /\ Max(With(files, key)) \in With(files, key)
      /\ \A g \in With(files, key) : g <= Max(With(files, key))
  BY <1>1, MaxIs
<1> DEFINE f == Max(With(files, key))
<1>3. f \in Files /\ f \in files /\ LinesOf(f, key) # {}
  BY <1>2 DEF With
<1> HIDE DEF f
<1>4. IsFiniteSet(LinesOf(f, key)) /\ LinesOf(f, key) \in SUBSET Int
  BY <1>3, LinesOfAreNumbers, LinesAreNumbers
<1>5. Max(LinesOf(f, key)) \in LinesOf(f, key)
  BY <1>3, <1>4, MaxIs
<1> QED
  BY <1>2, <1>3, <1>5 DEF f

-----------------------------------------------------------------------------
(* Tables that are filled again *)

\* The value that the last line with this key in files has in val.
Latest(val, files, key) ==
  IF With(files, key) = {} THEN None
  ELSE LET f == Max(With(files, key)) IN val[f][Max(LinesOf(f, key))]

\* fun, a column of the table that the files of kind k fill, when the files m are noted,
\* those of q are still to be imported, and the first of them has been sent up to line p.
\* A key that the first file that is not noted does not have has its value of the noted
\* files; a key that has been sent in this run has the value of the last line sent.
Resumes(fun, keys, k, val, m, q, p) ==
  /\ \A key \in keys :
       (\A f \in Firsts(k) \ m : (\A g \in Firsts(k) \ m : f <= g) => LinesOf(f, key) = {})
         => fun[key] = Latest(val, Firsts(k) \cap m, key)
  /\ \A f \in q : Kind[f] = k /\ (\A g \in q : f <= g) =>
       \A key \in keys : LinesOf(f, key) \cap 1..p # {} =>
         fun[key] = val[f][Max(LinesOf(f, key) \cap 1..p)]

\* With every file noted, the table has what one pass makes of them.
LEMMA ResumesAll ==
  ASSUME NEW fun, NEW keys, NEW k, NEW val, NEW m, NEW q, NEW p,
         Resumes(fun, keys, k, val, m, q, p), Firsts(k) \subseteq m
  PROVE  \A key \in keys : fun[key] = Latest(val, Firsts(k), key)
<1>1. Firsts(k) \cap m = Firsts(k) /\ Firsts(k) \ m = {}
  OBVIOUS
<1> QED
  BY <1>1 DEF Resumes

\* A new table has nothing, and nothing is noted.
LEMMA ResumesFresh ==
  ASSUME NEW fun, NEW keys, NEW k, NEW val, NEW m, NEW p,
         Firsts(k) \cap m = {}, \A key \in keys : fun[key] = None
  PROVE  Resumes(fun, keys, k, val, m, {}, p)
  BY DEF Resumes, Latest, With

\* What happens to other files, or forgets how far the current one is.
LEMMA ResumesOther ==
  ASSUME NEW fun, NEW keys, NEW k, NEW val, NEW m, NEW q, NEW p,
         Resumes(fun, keys, k, val, m, q, p),
         NEW m2, Firsts(k) \cap m2 = Firsts(k) \cap m,
         NEW q2, NEW p2, p2 = 0 \/ \A f \in q2 : Kind[f] # k
  PROVE  Resumes(fun, keys, k, val, m2, q2, p2)
<1>1. Firsts(k) \ m2 = Firsts(k) \ m
  OBVIOUS
<1>2. p2 = 0 => 1..p2 = {}
  OBVIOUS
<1> QED
  BY <1>1, <1>2 DEF Resumes

\* A batch of the first file that is not noted.
LEMMA ResumesBatch ==
  ASSUME NEW fun, NEW k, NEW val, NEW m, NEW q \in SUBSET Files, NEW p \in Nat,
         Resumes(fun, DOMAIN fun, k, val, m, q, p),
         NEW f \in q, f \in Firsts(k) \ m,
         \A g \in Firsts(k) \ m : f <= g, \A g \in q : f <= g,
         NEW last \in Nat, p <= last,
         NEW batch, batch = {i \in Lines(f) : p < i /\ i <= last},
         NEW values, values = [i \in batch |-> val[f][i]]
  PROVE  Resumes(Upsert(fun, f, values), DOMAIN fun, k, val, m, q, last)
<1> DEFINE new == Upsert(fun, f, values)
<1>1. f \in Files /\ DOMAIN values = batch
  OBVIOUS
<1>2. \A key \in DOMAIN fun : new[key] = IF LinesOf(f, key) \cap batch = {} THEN fun[key]
                                         ELSE values[Max(LinesOf(f, key) \cap batch)]
  BY <1>1 DEF Upsert
<1> HIDE DEF new
<1>3. ASSUME NEW key \in DOMAIN fun,
             \A g \in Firsts(k) \ m : (\A h \in Firsts(k) \ m : g <= h) => LinesOf(g, key) = {}
      PROVE  new[key] = Latest(val, Firsts(k) \cap m, key)
  <2>1. LinesOf(f, key) = {}
    BY <1>3
  <2>2. new[key] = fun[key]
    BY <1>2, <2>1
  <2> QED
    BY <1>3, <2>2 DEF Resumes
<1>4. ASSUME NEW g \in q, Kind[g] = k, \A h \in q : g <= h,
             NEW key \in DOMAIN fun, LinesOf(g, key) \cap 1..last # {}
      PROVE  new[key] = val[g][Max(LinesOf(g, key) \cap 1..last)]
  <2>1. g = f
    BY <1>4, FilesAreNumbers
  <2> DEFINE old == LinesOf(f, key) \cap 1..p
             sent == LinesOf(f, key) \cap batch
             all == LinesOf(f, key) \cap 1..last
  <2>2. /\ LinesOf(f, key) \subseteq Lines(f) /\ IsFiniteSet(LinesOf(f, key))
        /\ Lines(f) \subseteq Nat \ {0}
    BY <1>1, LinesAreNumbers, LinesOfAreNumbers
  <2>3. all = old \cup sent /\ \A i \in old : \A j \in sent : i < j
    BY <2>2
  <2>4. CASE sent = {}
    <3>1. new[key] = fun[key] /\ old # {} /\ all = old
      BY <1>2, <1>4, <2>1, <2>3, <2>4
    <3>2. fun[key] = val[f][Max(old)]
      BY <1>4, <2>1, <3>1 DEF Resumes
    <3> QED
      BY <2>1, <3>1, <3>2
  <2>5. CASE sent # {}
    <3>1. sent \in SUBSET Int /\ IsFiniteSet(sent) /\ all \in SUBSET Int
      <4>1. sent \subseteq LinesOf(f, key)
        OBVIOUS
      <4> QED
        BY <2>2, <4>1, FS_Subset
    <3>2. Max(sent) \in sent /\ \A i \in sent : i <= Max(sent)
      BY <2>5, <3>1, MaxIs
    <3>3. Max(sent) \in all /\ \A i \in all : i <= Max(sent)
      <4> HIDE DEF old, sent, all
      <4> QED
        BY <2>3, <3>1, <3>2
    <3>4. Max(all) = Max(sent)
      <4> HIDE DEF old, sent, all
      <4> QED
        BY <3>1, <3>3, MaxOnly
    <3>5. new[key] = values[Max(sent)] /\ values[Max(sent)] = val[f][Max(sent)]
      BY <1>2, <2>5, <3>2
    <3> QED
      BY <2>1, <3>4, <3>5
  <2> QED
    BY <2>4, <2>5
<1> QED
  BY <1>3, <1>4 DEF Resumes, new

\* The first file that is not noted is through, and is noted.
LEMMA ResumesNoted ==
  ASSUME NEW fun, NEW keys, NEW k, NEW val, NEW m, NEW q \in SUBSET Files, NEW p \in Nat,
         Resumes(fun, keys, k, val, m, q, p),
         NEW f \in q, f \in Firsts(k) \ m,
         \A g \in Firsts(k) \ m : f <= g, \A g \in q : f <= g,
         \A g \in m \cap OfKind(k) : \A h \in Firsts(k) : h < g => h \in m,
         \A i \in Lines(f) : i <= p,
         NEW q2
  PROVE  Resumes(fun, keys, k, val, m \cup {f}, q2, 0)
<1> DEFINE m2 == m \cup {f}
<1>1. f \in Files /\ Kind[f] = k /\ Files \subseteq Nat
  BY FilesAreNumbers DEF Firsts, OfKind
<1>2. \A g \in Firsts(k) \cap m : g < f
  <2>1. \A g \in Firsts(k) \cap m : g \in m \cap OfKind(k) /\ g \in Nat /\ g # f
    BY <1>1 DEF Firsts, OfKind
  <2> QED
    BY <1>1, <2>1
<1>3. ASSUME NEW key \in keys,
             \A g \in Firsts(k) \ m2 : (\A h \in Firsts(k) \ m2 : g <= h) => LinesOf(g, key) = {}
      PROVE  fun[key] = Latest(val, Firsts(k) \cap m2, key)
  <2> DEFINE old == With(Firsts(k) \cap m, key)
             now == With(Firsts(k) \cap m2, key)
  <2>1. CASE LinesOf(f, key) = {}
    <3>1. now = old
      BY <2>1 DEF With
    <3>2. \A g \in Firsts(k) \ m : (\A h \in Firsts(k) \ m : g <= h) => LinesOf(g, key) = {}
      <4>1. ASSUME NEW g \in Firsts(k) \ m, \A h \in Firsts(k) \ m : g <= h
            PROVE  g = f
        BY <1>1, <4>1 DEF Firsts, OfKind
      <4> QED
        BY <2>1, <4>1
    <3> QED
      BY <3>1, <3>2 DEF Resumes, Latest
  <2>2. CASE LinesOf(f, key) # {}
    <3>1. now = old \cup {f}
      BY <2>2 DEF With
    <3>2. old \subseteq Firsts(k) \cap m /\ Firsts(k) \subseteq Files
      BY DEF With, Firsts, OfKind
    <3>3. Max(now) = f
      <4>1. now \in SUBSET Int /\ f \in now /\ \A g \in now : g <= f
        <5> HIDE DEF old, now
        <5> QED
          BY <1>1, <1>2, <3>1, <3>2
      <4> QED
        BY <4>1, MaxOnly
    <3>4. LinesOf(f, key) \cap 1..p = LinesOf(f, key)
      BY <1>1, LinesAreNumbers, LinesOfAreNumbers
    <3>5. fun[key] = val[f][Max(LinesOf(f, key))]
      BY <1>1, <2>2, <3>4 DEF Resumes
    <3>6. now # {}
      BY <3>1
    <3> HIDE DEF old
    <3> QED
      BY <3>3, <3>5, <3>6 DEF Latest
  <2> QED
    BY <2>1, <2>2
<1>4. 1..0 = {}
  OBVIOUS
<1> QED
  BY <1>3, <1>4 DEF Resumes

-----------------------------------------------------------------------------
(* Batches *)

\* A set of numbers that is not empty has a least.
LEMMA HasLeast ==
  ASSUME NEW S \in SUBSET Nat, IsFiniteSet(S), S # {}
  PROVE  \E m \in S : \A i \in S : m <= i
<1> DEFINE G == {T \in SUBSET S : T # {} => \E m \in T : \A i \in T : m <= i}
<1>1. {} \in G
  OBVIOUS
<1>2. ASSUME NEW T \in SUBSET S, NEW i \in S \ T, T \in G
      PROVE  T \cup {i} \in G
  <2>1. CASE T = {}
    BY <2>1
  <2>2. CASE T # {}
    <3>1. PICK m \in T : \A j \in T : m <= j
      BY <1>2, <2>2
    <3>2. (\A j \in T \cup {i} : m <= j) \/ (\A j \in T \cup {i} : i <= j)
      BY <3>1
    <3> QED
      BY <3>1, <3>2
  <2> QED
    BY <2>1, <2>2
<1>3. S \in G
  <2> HIDE DEF G
  <2> QED
    BY <1>1, <1>2, SetInduction
<1> QED
  BY <1>3

\* A batch is not empty, and is every line between the last one sent and its own last.
LEMMA BatchIs ==
  ASSUME TypeOK, NEW f \in Files, Left(f) # {}
  PROVE  /\ IsFiniteSet(NextBatch(f)) /\ NextBatch(f) \subseteq Lines(f)
         /\ Max(NextBatch(f)) \in NextBatch(f) /\ Max(NextBatch(f)) \in Nat
         /\ pos < Max(NextBatch(f))
         /\ NextBatch(f) = {i \in Lines(f) : pos < i /\ i <= Max(NextBatch(f))}
<1>1. pos \in Nat /\ IsFiniteSet(Lines(f)) /\ Lines(f) \subseteq Nat
  BY LinesAreNumbers DEF TypeOK
<1>2. Left(f) \subseteq Lines(f) /\ NextBatch(f) \subseteq Left(f)
  BY DEF Left, NextBatch
<1>3. /\ IsFiniteSet(Left(f)) /\ IsFiniteSet(NextBatch(f))
      /\ Left(f) \in SUBSET Nat /\ NextBatch(f) \in SUBSET Nat
  BY <1>1, <1>2, FS_Subset
<1> DEFINE upTo(i) == {j \in Left(f) : j <= i}
<1>4. \A i \in Left(f) : IsFiniteSet(upTo(i)) /\ Cardinality(upTo(i)) \in Nat
  <2>1. \A i \in Left(f) : upTo(i) \subseteq Left(f)
    OBVIOUS
  <2> QED
    BY <1>3, <2>1, FS_Subset, FS_CardinalityType
<1>5. \A i \in Left(f) : i \in NextBatch(f) <=>
                           Kind[f] = "Cnaes" \/ Cardinality(upTo(i)) <= BatchSize
  BY DEF NextBatch
<1>6. BatchSize \in Nat \ {0}
  BY IngestionAssumption
<1>7. NextBatch(f) # {}
  <2>1. PICK m \in Left(f) : \A i \in Left(f) : m <= i
    BY <1>3, HasLeast
  <2>2. upTo(m) = {m}
    BY <1>3, <2>1
  <2>3. Cardinality(upTo(m)) = 1
    BY <2>2, FS_Singleton
  <2> QED
    BY <1>5, <1>6, <2>3
<1>8. \A i \in NextBatch(f) : \A j \in Left(f) : j <= i => j \in NextBatch(f)
  <2> SUFFICES ASSUME NEW i \in NextBatch(f), NEW j \in Left(f), j <= i, Kind[f] # "Cnaes"
               PROVE  j \in NextBatch(f)
    BY <1>5
  <2>1. i \in Left(f) /\ Cardinality(upTo(i)) <= BatchSize
    BY <1>2, <1>5
  <2>2. upTo(j) \in SUBSET upTo(i)
    BY <1>3, <2>1
  <2>3. Cardinality(upTo(j)) <= Cardinality(upTo(i))
    <3> HIDE DEF upTo
    <3> QED
      BY <1>4, <2>1, <2>2, FS_Subset
  <2>4. Cardinality(upTo(j)) \in Nat /\ Cardinality(upTo(i)) \in Nat
    BY <1>4, <2>1
  <2> QED
    <3> HIDE DEF upTo
    <3> QED
      BY <1>5, <1>6, <2>1, <2>3, <2>4
<1>9. /\ Max(NextBatch(f)) \in NextBatch(f)
      /\ \A i \in NextBatch(f) : i <= Max(NextBatch(f))
  BY <1>3, <1>7, MaxIs
<1>10. pos < Max(NextBatch(f)) /\ Max(NextBatch(f)) \in Nat
  BY <1>1, <1>2, <1>3, <1>9 DEF Left
<1>11. NextBatch(f) = {i \in Lines(f) : pos < i /\ i <= Max(NextBatch(f))}
  BY <1>1, <1>2, <1>8, <1>9, <1>10 DEF Left
<1> QED
  BY <1>2, <1>3, <1>9, <1>10, <1>11

\* There is one current file.
LEMMA OneCurrent ==
  ASSUME TypeOK, NEW f, NEW g, Current(f), Current(g)
  PROVE  f = g /\ f \in Files
<1>1. f \in queue /\ g \in queue /\ f <= g /\ g <= f
  BY DEF Current
<1>2. queue \subseteq Files /\ queue \subseteq Nat
  BY FilesAreNumbers DEF TypeOK
<1> QED
  BY <1>1, <1>2

\* An upsert gives every key of its lines a value of the batch, and leaves the others.
LEMMA UpsertIs ==
  ASSUME NEW fun, NEW f \in Files, NEW values, DOMAIN values \subseteq Lines(f)
  PROVE  /\ DOMAIN Upsert(fun, f, values) = DOMAIN fun
         /\ \A key \in DOMAIN fun :
              IF \E i \in DOMAIN values : Key(f, i) = key
                THEN \E i \in DOMAIN values : Key(f, i) = key
                                              /\ Upsert(fun, f, values)[key] = values[i]
                ELSE Upsert(fun, f, values)[key] = fun[key]
<1> DEFINE at(key) == LinesOf(f, key) \cap DOMAIN values
<1>1. DOMAIN Upsert(fun, f, values) = DOMAIN fun
  BY DEF Upsert
<1>2. ASSUME NEW key \in DOMAIN fun, at(key) = {}
      PROVE  Upsert(fun, f, values)[key] = fun[key]
  BY <1>2 DEF Upsert
<1>3. ASSUME NEW key \in DOMAIN fun, at(key) # {}
      PROVE  Max(at(key)) \in at(key) /\ Upsert(fun, f, values)[key] = values[Max(at(key))]
  <2>1. at(key) \subseteq LinesOf(f, key)
    OBVIOUS
  <2>2. IsFiniteSet(at(key)) /\ at(key) \in SUBSET Int
    BY <2>1, LinesAreNumbers, LinesOfAreNumbers, FS_Subset
  <2>3. Max(at(key)) \in at(key)
    <3> HIDE DEF at
    <3> QED
      BY <1>3, <2>2, MaxIs
  <2> QED
    BY <1>3, <2>3 DEF Upsert
<1>4. \A key : at(key) = {i \in DOMAIN values : Key(f, i) = key}
  BY DEF LinesOf
<1> QED
  BY <1>1, <1>2, <1>3, <1>4

-----------------------------------------------------------------------------
(* Types *)

\* A row that is made from the staging tables.
LEMMA EnrichedIs ==
  ASSUME TypeOK, staging # None, NEW b \in Bases
  PROVE  Enriched(b) \in Company
<1>1. staging.names[b] \in Names \cup {None} /\ Blank \in Names
  BY DEF TypeOK, Names, StagingTables
<1> QED
  BY <1>1 DEF Enriched, Company

\* The start.
LEMMA InitTypes == Init => TypeOK
<1> SUFFICES ASSUME Init
             PROVE  TypeOK
  OBVIOUS
<1>1. /\ MaxAttempts \in Nat \ {0} /\ MaxFaults \in Nat /\ 0 \in 0..(MaxAttempts - 1)
      /\ 0 \in 0..MaxFaults /\ 1 \in 1..Len(Kinds)
  BY IngestionAssumption, KindsAre
<1>2. /\ companies \in [Cnpjs -> Company \cup {None}] /\ vector \in [Cnpjs -> Names \cup {None}]
      /\ partners \in [RowsOf(OfKind("Socios")) -> Nat]
  BY DEF Init
<1>3. /\ marks = {} /\ done = {} /\ lost = FALSE /\ present \subseteq Files /\ staging = None
      /\ pc = "off" /\ mains = {} /\ links = {} /\ \A c \in Cnpjs : vector[c] = None
      /\ indexed = FALSE /\ phase = 1 /\ queue = {} /\ pos = 0 /\ asked = {} /\ tries = 0
      /\ faults = 0
  BY DEF Init
<1> QED
  BY <1>1, <1>2, <1>3 DEF TypeOK

\* A batch has lines of its kind only.
LEMMA BatchTypes ==
  ASSUME TypeOK, NEW f \in queue, SendBatch(f)
  PROVE  TypeOK'
<1> DEFINE batch == NextBatch(f)
<1>1. f \in Files /\ f \in present /\ Kind[f] = Kinds[phase] /\ staging # None
  BY DEF SendBatch, TypeOK, OfKind
<1>2. /\ IsFiniteSet(batch) /\ batch \subseteq Lines(f)
      /\ Max(batch) \in batch /\ Max(batch) \in Nat
  BY <1>1, BatchIs DEF SendBatch
<1> HIDE DEF batch
<1>3. /\ UNCHANGED <<present, marks, vector, indexed, pc, phase, queue, done, asked, tries,
                     faults, lost>>
      /\ pos' = Max(batch) /\ Current(f) /\ Import(f, batch)
  BY DEF SendBatch, disk, batch
<1>4. \A g \in queue : Current(g) => pos' \in {0} \cup Lines(g)
  BY <1>2, <1>3, OneCurrent
<1>5. /\ staging' \in StagingTables
      /\ companies' \in [Cnpjs -> Company \cup {None}]
      /\ \A c \in Cnpjs : companies[c] # None => companies'[c] # None
      /\ mains' \subseteq links'
      /\ \A l \in links' : l[1] \in Cnpjs /\ companies'[l[1]] # None
      /\ partners' \in [RowsOf(OfKind("Socios")) -> Nat]
  <2>0. TypeOK /\ companies \in [Cnpjs -> Company \cup {None}]
    BY DEF TypeOK, Company
  <2>1. CASE Kind[f] = "Cnaes" /\ UpsertCNAEs(f, batch)
    BY <1>1, <2>0, <2>1 DEF UpsertCNAEs, TypeOK
  <2>2. CASE Kind[f] = "Empresas" /\ UpsertEmpresas(f, batch)
    <3> DEFINE names == Upsert(staging.names, f, [i \in batch |-> Rows[f][i].name])
    <3>1. f \in OfKind("Empresas")
      BY <1>1, <2>2 DEF OfKind
    <3>2. \A i \in batch : Rows[f][i].name \in Names
      BY <1>2, <3>1 DEF Names
    <3>3. staging.names \in [Bases -> Names \cup {None}]
      BY <1>1, <2>0 DEF TypeOK, StagingTables
    <3>4. names \in [Bases -> Names \cup {None}]
      <4>1. DOMAIN [i \in batch |-> Rows[f][i].name] = batch
        OBVIOUS
      <4>2. \A b \in Bases : names[b] \in Names \cup {None}
        BY <1>1, <1>2, <3>2, <3>3, <4>1, UpsertIs
      <4>3. names = [b \in Bases |-> names[b]]
        BY <3>3 DEF Upsert
      <4> HIDE DEF names
      <4> QED
        BY <4>2, <4>3
    <3>5. staging' = [staging EXCEPT !.names = names]
      BY <2>2 DEF UpsertEmpresas
    <3> HIDE DEF names
    <3>6. staging' \in StagingTables
      BY <3>3, <3>4, <3>5, <2>0, <1>1 DEF TypeOK, StagingTables
    <3> QED
      BY <2>0, <2>2, <3>6 DEF UpsertEmpresas, TypeOK
  <2>3. CASE Kind[f] = "Simples" /\ UpsertSimples(f, batch)
    <3> DEFINE simples == Upsert(staging.simples, f, [i \in batch |-> Rows[f][i].simples])
    <3>1. f \in OfKind("Simples")
      BY <1>1, <2>3 DEF OfKind
    <3>2. \A i \in batch : Rows[f][i].simples \in BOOLEAN
      BY <1>2, <3>1, IngestionAssumption
    <3>3. staging.simples \in [Bases -> BOOLEAN \cup {None}]
      BY <1>1, <2>0 DEF TypeOK, StagingTables
    <3>4. simples \in [Bases -> BOOLEAN \cup {None}]
      <4>1. DOMAIN [i \in batch |-> Rows[f][i].simples] = batch
        OBVIOUS
      <4>2. \A b \in Bases : simples[b] \in BOOLEAN \cup {None}
        BY <1>1, <1>2, <3>2, <3>3, <4>1, UpsertIs
      <4>3. simples = [b \in Bases |-> simples[b]]
        BY <3>3 DEF Upsert
      <4> HIDE DEF simples
      <4> QED
        BY <4>2, <4>3
    <3>5. staging' = [staging EXCEPT !.simples = simples]
      BY <2>3 DEF UpsertSimples
    <3> HIDE DEF simples
    <3>6. staging' \in StagingTables
      BY <3>3, <3>4, <3>5, <2>0, <1>1 DEF TypeOK, StagingTables
    <3> QED
      BY <2>0, <2>3, <3>6 DEF UpsertSimples, TypeOK
  <2>4. CASE Kind[f] = "Estabelecimentos" /\ UpsertEstabelecimentos(f, batch)
    <3> DEFINE data == [i \in batch |-> Enriched(Rows[f][i].base)]
    <3>1. f \in OfKind("Estabelecimentos")
      BY <1>1, <2>4 DEF OfKind
    <3>2. \A i \in batch : Rows[f][i].base \in Bases /\ Rows[f][i].cnpj \in Cnpjs
      BY <1>2, <3>1, IngestionAssumption
    <3>3. \A i \in batch : data[i] \in Company
      BY <1>1, <2>0, <3>2, EnrichedIs
    <3>4. DOMAIN data = batch /\ companies' = Upsert(companies, f, data)
      BY <2>4 DEF UpsertEstabelecimentos
    <3> HIDE DEF data
    <3>5. \A i \in batch : Key(f, i) = Rows[f][i].cnpj
      BY <2>4 DEF Key
    <3>6. /\ \A c \in Cnpjs : companies'[c] \in Company \/ companies'[c] = companies[c]
          /\ \A i \in batch : companies'[Rows[f][i].cnpj] \in Company
      BY <1>1, <1>2, <2>0, <3>2, <3>3, <3>4, <3>5, UpsertIs
    <3>7. companies' \in [Cnpjs -> Company \cup {None}]
      BY <2>0, <3>4, <3>6 DEF Upsert
    <3>8. None \notin Company
      BY IngestionAssumption
    <3>9. \A l \in Codes({Rows[f][i] : i \in batch}) :
            l[1] \in Cnpjs /\ companies'[l[1]] # None
      BY <3>2, <3>6, <3>8 DEF Codes, MainCodes
    <3>10. /\ mains \subseteq links
           /\ \A l \in links : l[1] \in Cnpjs /\ companies'[l[1]] # None
      BY <2>0, <3>6, <3>8 DEF TypeOK
    <3>11. \A c \in Cnpjs : companies[c] # None => companies'[c] # None
      BY <3>6, <3>8
    <3>12. /\ mains' = mains \cup MainCodes({Rows[f][i] : i \in batch})
           /\ links' = links \cup Codes({Rows[f][i] : i \in batch})
           /\ UNCHANGED <<staging, partners>>
      BY <2>4 DEF UpsertEstabelecimentos
    <3>13. mains' \subseteq links'
      BY <3>10, <3>12 DEF Codes
    <3> QED
      BY <1>1, <2>0, <3>7, <3>9, <3>10, <3>11, <3>12, <3>13 DEF TypeOK
  <2>5. CASE Kind[f] = "Socios" /\ UpsertSocios(f, batch)
    <3>1. ASSUME NEW r
          PROVE  Cardinality({i \in batch : Rows[f][i] = r}) \in Nat
      <4>1. {i \in batch : Rows[f][i] = r} \subseteq batch
        OBVIOUS
      <4> QED
        BY <1>2, <4>1, FS_Subset, FS_CardinalityType
    <3>2. partners \in [RowsOf(OfKind("Socios")) -> Nat]
      BY <2>0 DEF TypeOK
    <3>3. partners' = [r \in RowsOf(OfKind("Socios")) |->
                         partners[r] + Cardinality({i \in batch : Rows[f][i] = r})]
      BY <2>5, <3>2 DEF UpsertSocios
    <3>4. partners' \in [RowsOf(OfKind("Socios")) -> Nat]
      BY <3>1, <3>2, <3>3
    <3> QED
      BY <1>1, <2>0, <2>5, <3>4 DEF UpsertSocios, TypeOK
  <2> QED
    BY <1>3, <2>1, <2>2, <2>3, <2>4, <2>5 DEF Import
<1>6. None \notin StagingTables
  BY IngestionAssumption
<1>7. /\ \A c \in Cnpjs : vector'[c] # None => companies'[c] # None
      /\ \A c \in asked' : companies'[c] # None /\ vector'[c] = None
  BY <1>3, <1>5 DEF TypeOK
<1>8. \A g : Current(g)' <=> Current(g)
  BY <1>3 DEF Current
<1> QED
  BY <1>2, <1>3, <1>4, <1>5, <1>6, <1>7, <1>8 DEF TypeOK

\* What the other steps of the program touch of the files, its tables aside.
LEMMA FileStepTypes ==
  ASSUME TypeOK, NEW f \in queue, MarkDone(f) \/ MarkFails(f)
  PROVE  TypeOK'
<1>1. f \in present /\ FileIsThrough(f)
  BY DEF TypeOK, MarkDone, MarkFails
<1>2. /\ UNCHANGED <<present, staging, cnaes, companies, links, mains, partners, vector,
                     indexed, pc, phase, asked, tries>>
      /\ done' = done \cup {f} /\ queue' = queue \ {f} /\ pos' = 0 /\ pc = "files"
  BY <1>1 DEF FileIsThrough, tables
<1>3. marks' \subseteq marks \cup {f} /\ faults' \in 0..MaxFaults
  BY IngestionAssumption DEF MarkDone, MarkFails, TypeOK
<1>4. lost' \in BOOLEAN
  <2>1. lost' = lost \/ lost' = (lost \/ Kind[f] \in Ordered)
    BY DEF MarkDone, MarkFails
  <2>2. lost \in BOOLEAN
    BY DEF TypeOK
  <2> QED
    BY <2>1, <2>2
<1> QED
  BY <1>1, <1>2, <1>3, <1>4 DEF TypeOK

\* An answer of the embedding service.
LEMMA AnswerTypes ==
  ASSUME TypeOK, NEW some \in SUBSET asked, CallAnswers(some)
  PROVE  TypeOK'
<1>1. /\ UNCHANGED <<present, marks, staging, cnaes, companies, links, mains, partners,
                     indexed, phase, queue, pos, done, faults, lost>>
      /\ vector' = [c \in Cnpjs |-> IF c \in some THEN companies[c].name ELSE vector[c]]
      /\ asked' = {} /\ tries' = 0 /\ pc = "call" /\ pc' = "embed"
  BY DEF CallAnswers, disk, tables
<1>2. \A c \in some : c \in Cnpjs /\ companies[c] # None
  BY DEF TypeOK
<1>3. \A c \in some : companies[c].name \in Names
  <2>1. \A c \in some : companies[c] \in Company
    BY <1>2 DEF TypeOK
  <2> QED
    BY <2>1 DEF Company
<1>4. /\ vector' \in [Cnpjs -> Names \cup {None}]
      /\ \A c \in Cnpjs : vector'[c] # None => companies[c] # None
  <2>1. \A c \in Cnpjs : /\ vector[c] \in Names \cup {None}
                         /\ vector[c] # None => companies[c] # None
    BY DEF TypeOK
  <2> QED
    BY <1>1, <1>2, <1>3, <2>1
<1>5. \A g : Current(g)' <=> Current(g)
  BY <1>1 DEF Current
<1>6. 0 \in 0..(MaxAttempts - 1)
  BY IngestionAssumption
<1> QED
  BY <1>1, <1>4, <1>5, <1>6 DEF TypeOK

\* A run starts.
LEMMA StartTypes ==
  ASSUME TypeOK, NEW known \in SUBSET marks, StartKnowing(known),
         faults' \in 0..MaxFaults, lost' \in BOOLEAN
  PROVE  TypeOK'
<1>1. NoStaging \in StagingTables
  BY DEF NoStaging, StagingTables
<1>2. staging' \in StagingTables /\ None \notin StagingTables
  BY <1>1, IngestionAssumption DEF StartKnowing, TypeOK
<1>3. 1 \in 1..Len(Kinds) /\ queue = {}
  BY KindsAre DEF StartKnowing, TypeOK
<1>4. done' \subseteq present'
  BY DEF StartKnowing, TypeOK, disk
<1> QED
  BY <1>2, <1>3, <1>4 DEF StartKnowing, TypeOK, disk, Current

\* A run ends.
LEMMA EndsTypes ==
  ASSUME TypeOK, Ends, faults' \in 0..MaxFaults
  PROVE  TypeOK'
<1>1. 0 \in 0..(MaxAttempts - 1) /\ 1 \in 1..Len(Kinds)
  BY IngestionAssumption, KindsAre
<1> QED
  BY <1>1 DEF Ends, TypeOK, disk, tables

\* Every step keeps the types.
LEMMA TypesKept ==
  ASSUME TypeOK, [Next]_vars
  PROVE  TypeOK'
<1>1. CASE Start
  BY <1>1, StartTypes DEF Start, TypeOK
<1>0. ASSUME NEW known \in SUBSET marks, StartUnread(known)
      PROVE  TypeOK'
  <2>1. faults' \in 0..MaxFaults /\ lost' \in BOOLEAN
    BY <1>0, IngestionAssumption DEF StartUnread, TypeOK
  <2> QED
    BY <1>0, <2>1, StartTypes DEF StartUnread
<1>2. CASE FindFiles
  <2>1. queue' \subseteq present \cap OfKind(Kinds[phase]) /\ pos' = 0 /\ pc' = "files"
    BY <1>2 DEF FindFiles
  <2>2. UNCHANGED <<present, marks, staging, cnaes, companies, links, mains, partners, vector,
                    indexed, phase, done, asked, tries, faults, lost>> /\ pc = "list"
    BY <1>2 DEF FindFiles, disk, tables
  <2> QED
    BY <2>1, <2>2 DEF TypeOK
<1>3. CASE NextPhase
  <2>1. UNCHANGED <<present, marks, staging, cnaes, companies, links, mains, partners, vector,
                    indexed, queue, pos, done, asked, tries, faults, lost>>
    BY <1>3 DEF NextPhase, disk, tables
  <2>2. phase' \in 1..Len(Kinds) /\ pc' \in {"list", "drop"} /\ queue = {} /\ pc = "files"
    BY <1>3, KindsAre DEF NextPhase, TypeOK
  <2> QED
    BY <2>1, <2>2 DEF TypeOK
<1>4. CASE DropStagingTables
  BY <1>4 DEF DropStagingTables, TypeOK, disk, locals, Current
<1>5. CASE DropFails
  <2>1. faults' \in 0..MaxFaults
    BY <1>5, IngestionAssumption DEF DropFails, TypeOK
  <2> QED
    BY <1>5, <2>1 DEF DropFails, TypeOK, disk, tables, locals, Current
<1>6. CASE FetchPending
  <2>1. UNCHANGED <<present, marks, staging, cnaes, companies, links, mains, partners, vector,
                    indexed, phase, queue, pos, done, faults, lost>> /\ pc = "embed"
    BY <1>6 DEF FetchPending, disk, tables
  <2>2. 0 \in 0..(MaxAttempts - 1)
    BY IngestionAssumption
  <2> DEFINE pending == {c \in Cnpjs : companies[c] # None /\ vector[c] = None}
  <2>3. \/ pc' = "index" /\ UNCHANGED <<asked, tries>>
        \/ asked' \subseteq pending /\ tries' = 0 /\ pc' = "call"
    BY <1>6 DEF FetchPending, kSubset
  <2>4. \A g : Current(g)' <=> Current(g)
    BY <2>1 DEF Current
  <2> QED
    BY <2>1, <2>2, <2>3, <2>4 DEF TypeOK
<1>7. CASE CallFails
  <2>1. CASE Ends
    BY <1>7, <2>1, EndsTypes DEF CallFails, TypeOK
  <2>2. CASE ~Ends
    <3>1. UNCHANGED <<present, marks, staging, cnaes, companies, links, mains, partners, vector,
                      indexed, pc, phase, queue, pos, done, asked, faults, lost>>
      BY <1>7, <2>2 DEF CallFails, disk, tables
    <3>2. tries' \in 0..(MaxAttempts - 1)
      BY <1>7, <2>2, IngestionAssumption DEF CallFails, TypeOK
    <3>3. \A g : Current(g)' <=> Current(g)
      BY <3>1 DEF Current
    <3> QED
      BY <3>1, <3>2, <3>3 DEF TypeOK
  <2> QED
    BY <2>1, <2>2
<1>8. CASE CreateHNSWIndex
  BY <1>8 DEF CreateHNSWIndex, TypeOK, disk, tables, locals, Current
<1>9. CASE Crash \/ Interrupt
  <2>1. Ends /\ faults' \in 0..MaxFaults
    BY <1>9, IngestionAssumption DEF Crash, Interrupt, TypeOK
  <2> QED
    BY <2>1, EndsTypes
<1>12. CASE ReadFails
  <2>1. faults' \in 0..MaxFaults
    BY <1>12, IngestionAssumption DEF ReadFails, TypeOK
  <2> QED
    BY <1>12, <2>1 DEF ReadFails, TypeOK, disk, tables, locals, Current
<1>10. ASSUME NEW f \in Late, AddFile(f)
       PROVE  TypeOK'
  <2>1. UNCHANGED <<marks, staging, cnaes, companies, links, mains, partners, vector, indexed,
                    pc, phase, queue, pos, done, asked, tries, faults, lost>>
    BY <1>10 DEF AddFile, tables, locals
  <2>2. present' = present \cup {f} /\ f \in Files
    BY <1>10, IngestionAssumption DEF AddFile
  <2>3. \A g : Current(g)' <=> Current(g)
    BY <2>1 DEF Current
  <2> QED
    BY <2>1, <2>2, <2>3 DEF TypeOK
<1>11. CASE UNCHANGED vars
  BY <1>11 DEF TypeOK, vars, disk, tables, locals, Current
<1> QED
  BY <1>0, <1>1, <1>2, <1>12, <1>3, <1>4, <1>5, <1>6, <1>7, <1>8, <1>9, <1>10, <1>11,
     BatchTypes, FileStepTypes, AnswerTypes DEF Next, Step

\* Every table refers to rows that exist, and nothing is noted that was not there.
THEOREM ImportTypes == Spec => []TypeOK
<1>1. TypeOK /\ [Next]_vars => TypeOK'
  BY TypesKept
<1> QED
  BY <1>1, InitTypes, PTL DEF Spec

-----------------------------------------------------------------------------
(* Phases *)

\* main is past the files.
Past == {"drop", "embed", "call", "index", "done"}

\* The first files of the kinds that main has passed are done, those of its kind are done or
\* in the queue; of a kind whose order matters, what is noted is done and what is done is
\* noted, unless a line was lost.
Phases ==
  /\ Files \ Late \subseteq present
  /\ pc \in {"list", "files"} => \A i \in 1..(phase - 1) : Firsts(Kinds[i]) \subseteq done
  /\ pc \in Past => \A i \in 1..5 : Firsts(Kinds[i]) \subseteq done
  /\ pc = "files" => Firsts(Kinds[phase]) \subseteq queue \cup done
  /\ queue \cap done = {}
  /\ ~lost => \A k \in Ordered :
       /\ done \cap OfKind(k) \subseteq marks
       /\ pc # "off" => marks \cap OfKind(k) \subseteq done

\* The start.
LEMMA InitPhases == Init => Phases
  BY DEF Init, Phases, Past

\* Every step.
LEMMA PhasesKept ==
  ASSUME TypeOK, Phases, [Next]_vars
  PROVE  Phases'
<1>1. ASSUME NEW known \in SUBSET marks, StartKnowing(known),
             lost' \/ \A k \in Ordered : marks \cap OfKind(k) \subseteq known
      PROVE  Phases'
  <2>1. /\ UNCHANGED <<present, marks, queue>>
        /\ done' = known /\ phase' = 1 /\ pc' = "list" /\ queue = {}
    BY <1>1 DEF StartKnowing, disk, TypeOK
  <2>2. 1..(1 - 1) = {}
    OBVIOUS
  <2> QED
    BY <1>1, <2>1, <2>2 DEF Phases, Past
<1>12. CASE Start
  BY <1>1, <1>12 DEF Start
<1>13. ASSUME NEW known \in SUBSET marks, StartUnread(known)
       PROVE  Phases'
  <2>1. lost' \/ \A k \in Ordered : marks \cap OfKind(k) \subseteq known
    BY <1>13 DEF StartUnread, OfKind
  <2> QED
    BY <1>1, <1>13, <2>1 DEF StartUnread
<1>14. CASE ReadFails
  BY <1>14 DEF ReadFails, Phases, Past, disk, locals
<1>2. CASE FindFiles
  <2>1. /\ queue' = (present \ done) \cap OfKind(Kinds[phase]) /\ pc = "list" /\ pc' = "files"
        /\ UNCHANGED <<present, marks, phase, done, lost>>
    BY <1>2 DEF FindFiles, disk
  <2>2. Firsts(Kinds[phase]) \subseteq present \cap OfKind(Kinds[phase])
    BY DEF Phases, Firsts, OfKind
  <2> QED
    BY <2>1, <2>2 DEF Phases, Past
<1>3. ASSUME NEW f \in queue, SendBatch(f)
      PROVE  Phases'
  <2>1. UNCHANGED <<present, marks, phase, queue, pc, done, lost>>
    BY <1>3 DEF SendBatch, disk
  <2> QED
    BY <2>1 DEF Phases
<1>4. ASSUME NEW f \in queue, MarkDone(f) \/ MarkFails(f)
      PROVE  Phases'
  <2>1. /\ UNCHANGED <<present, phase, pc>> /\ pc = "files"
        /\ done' = done \cup {f} /\ queue' = queue \ {f}
    BY <1>4 DEF MarkDone, MarkFails, FileIsThrough
  <2>2. \/ marks' = marks \cup {f} /\ lost' = lost
        \/ marks' = marks /\ lost' = (lost \/ Kind[f] \in Ordered)
    BY <1>4 DEF MarkDone, MarkFails
  <2>3. ~lost' => \A k \in Ordered : /\ done' \cap OfKind(k) \subseteq marks'
                                    /\ marks' \cap OfKind(k) \subseteq done'
    BY <2>1, <2>2 DEF Phases, OfKind
  <2> QED
    BY <2>1, <2>3 DEF Phases, Past
<1>5. CASE NextPhase
  <2>1. /\ UNCHANGED <<present, marks, queue, done, lost>> /\ queue = {} /\ pc = "files"
        /\ \/ phase < 5 /\ phase' = phase + 1 /\ pc' = "list"
           \/ phase >= 5 /\ phase' = phase /\ pc' = "drop"
    BY <1>5, KindsAre DEF NextPhase, disk, TypeOK
  <2>2. phase \in 1..5 /\ \A i \in 1..phase : Firsts(Kinds[i]) \subseteq done
    <3>1. phase \in 1..5 /\ \A i \in 1..phase : i = phase \/ i \in 1..(phase - 1)
      BY KindsAre DEF TypeOK
    <3> QED
      BY <2>1, <3>1 DEF Phases
  <2>3. phase' = phase + 1 => 1..(phase' - 1) = 1..phase
    BY <2>2
  <2>4. phase >= 5 => phase = 5
    BY <2>2
  <2> QED
    BY <2>1, <2>2, <2>3, <2>4 DEF Phases, Past
<1>6. CASE DropStagingTables \/ DropFails
  <2>1. UNCHANGED <<present, marks, phase, queue, done, lost>> /\ pc = "drop" /\ pc' = "embed"
    BY <1>6 DEF DropStagingTables, DropFails, disk, locals
  <2> QED
    BY <2>1 DEF Phases, Past
<1>7. CASE FetchPending \/ (CallFails /\ ~Ends) \/ (\E some \in SUBSET asked : CallAnswers(some))
  <2>1. UNCHANGED <<present, marks, phase, queue, done, lost>> /\ pc \in {"embed", "call"}
        /\ pc' \in {"index", "call", "embed"}
    BY <1>7 DEF FetchPending, CallFails, CallAnswers, disk
  <2> QED
    BY <2>1 DEF Phases, Past
<1>8. CASE CreateHNSWIndex
  <2>1. UNCHANGED <<present, marks, phase, queue, done, lost>> /\ pc = "index" /\ pc' = "done"
    BY <1>8 DEF CreateHNSWIndex, disk, locals
  <2> QED
    BY <2>1 DEF Phases, Past
<1>9. CASE Ends
  BY <1>9 DEF Ends, Phases, Past, disk
<1>10. ASSUME NEW f \in Late, AddFile(f)
       PROVE  Phases'
  <2>1. /\ UNCHANGED <<marks, phase, queue, pc, done, lost>>
        /\ present \subseteq present'
    BY <1>10 DEF AddFile, locals
  <2> QED
    BY <2>1 DEF Phases
<1>11. CASE UNCHANGED vars
  BY <1>11 DEF Phases, vars, disk, locals
<1> QED
  BY <1>2, <1>3, <1>4, <1>5, <1>6, <1>7, <1>8, <1>9, <1>10, <1>11, <1>12, <1>13, <1>14
     DEF Next, Step, Crash, Interrupt

\* Nothing is out of order after a step unless it was before.
LEMMA OutOfOrderKept ==
  ASSUME TypeOK, [Next]_vars, ~OutOfOrder'
  PROVE  ~OutOfOrder /\ present' = present
<1>1. present \subseteq present' /\ (lost => lost')
  <2>1. present \subseteq present'
    BY DEF Next, Step, Start, StartUnread, StartKnowing, ReadFails, FindFiles, SendBatch,
           MarkDone, MarkFails, FileIsThrough, NextPhase, DropStagingTables, DropFails,
           FetchPending, CallFails, CallAnswers, CreateHNSWIndex, Crash, Interrupt, Ends,
           AddFile, vars, disk
  <2>2. \/ lost' = lost
        \/ \E f \in queue : MarkFails(f)
        \/ \E known \in SUBSET marks : StartUnread(known)
    BY DEF Next, Step, Start, ReadFails, FindFiles, SendBatch, MarkDone, NextPhase,
           DropStagingTables, DropFails, FetchPending, CallFails, CallAnswers, CreateHNSWIndex,
           Crash, Interrupt, Ends, AddFile, vars
  <2>3. ASSUME lost
        PROVE  lost'
    <3>1. CASE \E f \in queue : MarkFails(f)
      BY <2>3, <3>1, Zenon DEF MarkFails
    <3>2. CASE \E known \in SUBSET marks : StartUnread(known)
      BY <2>3, <3>2, Zenon DEF StartUnread
    <3> QED
      BY <2>2, <2>3, <3>1, <3>2
  <2> QED
    BY <2>1, <2>3
<1>2. ~OutOfOrder
  BY <1>1 DEF OutOfOrder
<1>3. present' = present \/ \E f \in Late : present' = present \cup {f}
  BY DEF Next, Step, Start, StartUnread, StartKnowing, ReadFails, FindFiles, SendBatch,
         MarkDone, MarkFails, FileIsThrough, NextPhase, DropStagingTables, DropFails,
         FetchPending, CallFails, CallAnswers, CreateHNSWIndex, Crash, Interrupt, Ends,
         AddFile, vars, disk
<1> QED
  BY <1>2, <1>3 DEF OutOfOrder

\* What is noted or in the queue then was there at the first start.
LEMMA OnlyFirsts ==
  ASSUME TypeOK, Phases, ~OutOfOrder
  PROVE  /\ present = Files \ Late
         /\ \A k : marks \cap OfKind(k) \subseteq Firsts(k)
         /\ \A k \in Ordered : done \cap OfKind(k) \subseteq marks
         /\ \A f \in queue : f \in Firsts(Kind[f])
<1>1. present = Files \ Late
  BY DEF OutOfOrder, TypeOK, Phases
<1>2. \A k \in Ordered : done \cap OfKind(k) \subseteq marks
  BY DEF Phases, OutOfOrder
<1> QED
  BY <1>1, <1>2 DEF TypeOK, Firsts, OfKind

\* The current file of such a kind is the first that is not noted.
LEMMA CurrentIsNext ==
  ASSUME TypeOK, Phases, ~OutOfOrder, pc = "files", NEW f, Current(f), Kind[f] \in Ordered
  PROVE  f \in Firsts(Kind[f]) \ marks /\ \A g \in Firsts(Kind[f]) \ marks : f <= g
<1>1. f \in queue /\ Kind[f] = Kinds[phase] /\ \A g \in queue : f <= g
  BY DEF Current, TypeOK, OfKind
<1>2. f \in Firsts(Kind[f]) /\ f \notin marks
  <2>1. f \in Firsts(Kind[f]) /\ f \in OfKind(Kind[f])
    BY <1>1, OnlyFirsts DEF Firsts
  <2>2. marks \cap OfKind(Kind[f]) \subseteq done
    BY <1>1 DEF Phases, OutOfOrder
  <2> QED
    BY <1>1, <2>1, <2>2 DEF Phases
<1>3. ASSUME NEW g \in Firsts(Kind[f]) \ marks
      PROVE  g \in queue
  <2>1. g \in queue \cup done /\ g \in OfKind(Kind[f])
    BY <1>1 DEF Phases, Firsts
  <2> QED
    BY <2>1, OnlyFirsts
<1> QED
  BY <1>1, <1>2, <1>3

-----------------------------------------------------------------------------
(* What the files make of the tables that are filled again *)

\* The columns: the name and the option of a line, and the data of a company.
NameAt == [f \in Files |-> [i \in Lines(f) |-> Rows[f][i].name]]
SimplesAt == [f \in Files |-> [i \in Lines(f) |-> Rows[f][i].simples]]
DataAt == [f \in Files |-> [i \in Lines(f) |-> DirectData(Rows[f][i].base)]]

\* The files of such a kind are noted in their order.
Noting ==
  ~OutOfOrder =>
    \A k \in Ordered : \A f \in marks \cap OfKind(k) : \A g \in Firsts(k) : g < f => g \in marks

\* While Estabelecimentos are left, the staging tables are new or filled again.
Staging ==
  ~OutOfOrder /\ ~(Firsts("Estabelecimentos") \subseteq marks) =>
    IF staging = None THEN marks = {}
    ELSE /\ Resumes(staging.names, Bases, "Empresas", NameAt, marks, queue, pos)
         /\ Resumes(staging.simples, Bases, "Simples", SimplesAt, marks, queue, pos)

\* So are the companies.
Filling ==
  ~OutOfOrder =>
    Resumes(companies, Cnpjs, "Estabelecimentos", DataAt, marks, queue, pos)

\* The progress file grows by the current file.
LEMMA MarksGrow ==
  ASSUME [Next]_vars
  PROVE  marks' = marks \/ \E f \in queue : MarkDone(f)
  BY DEF Next, Step, Start, StartUnread, StartKnowing, ReadFails, FindFiles, SendBatch,
         MarkFails, NextPhase, DropStagingTables, DropFails, FetchPending, CallFails,
         CallAnswers, CreateHNSWIndex, Crash, Interrupt, Ends, AddFile, vars, disk

\* Files are noted in their order.
LEMMA NotingKept ==
  ASSUME TypeOK, Phases, Noting, [Next]_vars
  PROVE  Noting'
<1> SUFFICES ASSUME ~OutOfOrder', NEW k \in Ordered, NEW f \in marks' \cap OfKind(k),
                    NEW g \in Firsts(k), g < f
             PROVE  g \in marks'
  BY DEF Noting
<1>1. ~OutOfOrder
  BY OutOfOrderKept
<1>2. CASE marks' = marks
  BY <1>1, <1>2 DEF Noting
<1>3. ASSUME NEW h \in queue, MarkDone(h)
      PROVE  g \in marks'
  <2>1. marks' = marks \cup {h} /\ Current(h) /\ pc = "files"
    BY <1>3 DEF MarkDone, FileIsThrough
  <2>2. CASE f \in marks
    BY <1>1, <2>1, <2>2 DEF Noting
  <2>3. CASE f = h
    <3>1. Kind[h] = k /\ f \in Nat /\ g \in Nat
      BY <2>3, FilesAreNumbers DEF OfKind, Firsts
    <3>2. g \in marks \/ f <= g
      BY <1>1, <2>1, <2>3, <3>1, CurrentIsNext
    <3> QED
      BY <2>1, <3>1, <3>2
  <2> QED
    BY <2>1, <2>2, <2>3
<1> QED
  BY <1>2, <1>3, MarksGrow

\* What is read from the staging tables is what one pass makes of them.
LEMMA EnrichedIsDirect ==
  ASSUME TypeOK, Phases, Staging, ~OutOfOrder, pc = "files", NEW f, Current(f),
         Kind[f] = "Estabelecimentos", NEW b \in Bases
  PROVE  Enriched(b) = DirectData(b)
<1>1. f \in queue /\ Kinds[phase] = "Estabelecimentos" /\ staging # None
  BY DEF Current, TypeOK, OfKind
<1>2. phase = 4
  BY <1>1, KindsAre DEF TypeOK
<1>3. Firsts("Empresas") \subseteq done /\ Firsts("Simples") \subseteq done
  <2>1. 2 \in 1..(phase - 1) /\ 3 \in 1..(phase - 1)
    BY <1>2
  <2> QED
    BY <1>1, <2>1, KindsAre DEF Phases
<1>4. Firsts("Empresas") \subseteq marks /\ Firsts("Simples") \subseteq marks
  BY <1>3, OnlyFirsts DEF Ordered, Firsts
<1>5. ~(Firsts("Estabelecimentos") \subseteq marks)
  BY <1>1, CurrentIsNext DEF Ordered
<1>6. /\ Resumes(staging.names, Bases, "Empresas", NameAt, marks, queue, pos)
      /\ Resumes(staging.simples, Bases, "Simples", SimplesAt, marks, queue, pos)
  BY <1>1, <1>5 DEF Staging
<1> DEFINE E == Firsts("Empresas")
           S == Firsts("Simples")
<1>7. staging.names[b] = Latest(NameAt, E, b) /\ staging.simples[b] = Latest(SimplesAt, S, b)
  BY <1>4, <1>6, ResumesAll
<1>8. E \in SUBSET Files /\ S \in SUBSET Files /\ E \subseteq OfKind("Empresas")
      /\ S \subseteq OfKind("Simples")
  BY DEF Firsts, OfKind
<1>9. None \notin Names /\ None \notin BOOLEAN
  BY IngestionAssumption
<1>10. CASE With(E, b) = {}
  BY <1>7, <1>10 DEF Latest, Enriched, DirectData
<1>11. CASE With(E, b) # {}
  <2> DEFINE g == Max(With(E, b))
             i == Max(LinesOf(g, b))
  <2>1. g \in E /\ g \in Files /\ i \in Lines(g)
    BY <1>8, <1>11, NewestIs, LinesOfAreNumbers
  <2>2. Latest(NameAt, E, b) = Rows[g][i].name /\ Newest(E, b) = Rows[g][i]
    BY <1>11, <2>1 DEF Latest, NameAt, Newest
  <2>3. Rows[g][i].name \in Names
    BY <1>8, <2>1 DEF Names
  <2>4. staging.names[b] # None /\ staging.names[b] = Newest(E, b).name
    BY <1>7, <1>9, <2>2, <2>3
  <2> HIDE DEF g, i
  <2>5. (staging.simples[b] = TRUE) = (With(S, b) # {} /\ Newest(S, b).simples)
    <3>1. CASE With(S, b) = {}
      <4>1. staging.simples[b] = None
        BY <1>7, <3>1 DEF Latest
      <4> QED
        BY <1>9, <3>1, <4>1
    <3>2. CASE With(S, b) # {}
      <4> DEFINE h == Max(With(S, b))
                 j == Max(LinesOf(h, b))
      <4>1. h \in S /\ h \in Files /\ j \in Lines(h)
        BY <1>8, <3>2, NewestIs, LinesOfAreNumbers
      <4>2. Latest(SimplesAt, S, b) = Rows[h][j].simples /\ Newest(S, b) = Rows[h][j]
        BY <3>2, <4>1 DEF Latest, SimplesAt, Newest
      <4>3. Rows[h][j].simples \in BOOLEAN
        BY <1>8, <4>1, IngestionAssumption
      <4> HIDE DEF h, j
      <4>4. staging.simples[b] = Newest(S, b).simples /\ Newest(S, b).simples \in BOOLEAN
        BY <1>7, <4>2, <4>3
      <4> QED
        BY <3>2, <4>4
    <3> QED
      BY <3>1, <3>2
  <2> QED
    BY <1>11, <2>4, <2>5 DEF Enriched, DirectData
<1> QED
  BY <1>10, <1>11

\* The steps that fill none of these tables: they leave the table as it is, and forget how
\* far the current file is or leave that as it is too.
LEMMA OtherSteps ==
  ASSUME TypeOK, [Next]_vars
  PROVE  \/ \E f \in queue : SendBatch(f)
         \/ \E f \in queue : MarkDone(f)
         \/ \E known \in SUBSET marks : StartKnowing(known)
         \/ DropStagingTables
         \/ /\ UNCHANGED <<marks, staging, companies>>
            /\ pos' = 0 \/ UNCHANGED <<queue, pos>>
  BY DEF Next, Step, Start, StartUnread, ReadFails, FindFiles, MarkFails, FileIsThrough,
         NextPhase, DropFails, FetchPending, CallFails, CallAnswers, CreateHNSWIndex, Crash,
         Interrupt, Ends, AddFile, vars, disk, tables, locals

\* A batch of a file of such a kind, sent to the column fun of its table.
LEMMA BatchFills ==
  ASSUME TypeOK, Phases, ~OutOfOrder, NEW f \in queue, SendBatch(f), Kind[f] \in Ordered,
         NEW fun, NEW val, Resumes(fun, DOMAIN fun, Kind[f], val, marks, queue, pos),
         NEW values, values = [i \in NextBatch(f) |-> val[f][i]]
  PROVE  Resumes(Upsert(fun, f, values), DOMAIN fun, Kind[f], val, marks', queue', pos')
<1>1. f \in Files /\ queue \in SUBSET Files /\ pos \in Nat
  BY DEF TypeOK
<1>2. /\ Current(f) /\ Left(f) # {} /\ pos' = Max(NextBatch(f)) /\ pc = "files"
      /\ marks' = marks /\ queue' = queue
  BY DEF SendBatch, disk
<1>3. /\ pos' \in Nat /\ pos <= pos'
      /\ NextBatch(f) = {i \in Lines(f) : pos < i /\ i <= pos'}
  BY <1>1, <1>2, BatchIs
<1>4. /\ f \in Firsts(Kind[f]) \ marks /\ \A g \in Firsts(Kind[f]) \ marks : f <= g
      /\ \A g \in queue : f <= g
  BY <1>2, CurrentIsNext DEF Current
<1> DEFINE k == Kind[f]
           batch == NextBatch(f)
           last == pos'
<1>5. /\ last \in Nat /\ pos <= last /\ batch = {i \in Lines(f) : pos < i /\ i <= last}
      /\ f \in Firsts(k) \ marks /\ \A g \in Firsts(k) \ marks : f <= g
      /\ values = [i \in batch |-> val[f][i]]
      /\ Resumes(fun, DOMAIN fun, k, val, marks, queue, pos)
  BY <1>3, <1>4
<1> HIDE DEF k, batch, last
<1>6. Resumes(Upsert(fun, f, values), DOMAIN fun, k, val, marks, queue, last)
  BY <1>1, <1>4, <1>5, ResumesBatch
<1> QED
  BY <1>2, <1>6 DEF k, last

\* A file is noted: what the table of its kind has is what one pass makes of the noted files.
LEMMA NoteFills ==
  ASSUME TypeOK, Phases, Noting, ~OutOfOrder, NEW f \in queue, MarkDone(f),
         NEW k \in Ordered, NEW fun, NEW keys, NEW val,
         Resumes(fun, keys, k, val, marks, queue, pos)
  PROVE  Resumes(fun, keys, k, val, marks', queue', pos')
<1>1. /\ f \in Files /\ queue \in SUBSET Files /\ pos \in Nat /\ pc = "files"
      /\ Current(f) /\ Left(f) = {} /\ pos' = 0 /\ marks' = marks \cup {f}
  BY DEF TypeOK, MarkDone, FileIsThrough
<1>2. CASE Kind[f] = k
  <2>1. /\ f \in Firsts(k) \ marks /\ \A g \in Firsts(k) \ marks : f <= g
        /\ \A g \in queue : f <= g
    BY <1>1, <1>2, CurrentIsNext DEF Current
  <2>2. \A i \in Lines(f) : i <= pos
    BY <1>1, LinesAreNumbers DEF Left
  <2>3. \A g \in marks \cap OfKind(k) : \A h \in Firsts(k) : h < g => h \in marks
    BY DEF Noting
  <2>4. Resumes(fun, keys, k, val, marks \cup {f}, queue', 0)
    BY <1>1, <2>1, <2>2, <2>3, ResumesNoted
  <2> QED
    BY <1>1, <2>4
<1>3. CASE Kind[f] # k
  <2>1. Firsts(k) \cap marks' = Firsts(k) \cap marks
    BY <1>1, <1>3 DEF Firsts, OfKind
  <2> QED
    BY <1>1, <2>1, ResumesOther
<1> QED
  BY <1>2, <1>3

\* A file of another kind is sent.
LEMMA OtherFills ==
  ASSUME NEW f \in queue, SendBatch(f), TypeOK, NEW k, Kind[f] # k,
         NEW fun, NEW keys, NEW val, Resumes(fun, keys, k, val, marks, queue, pos)
  PROVE  Resumes(fun, keys, k, val, marks', queue', pos')
<1>1. marks' = marks /\ queue' = queue /\ \A g \in queue : Kind[g] # k
  BY DEF SendBatch, TypeOK, OfKind, disk
<1> QED
  BY <1>1, ResumesOther

\* The staging tables.
LEMMA StagingKept ==
  ASSUME TypeOK, Phases, Noting, Staging, [Next]_vars
  PROVE  Staging'
<1> DEFINE E == Firsts("Estabelecimentos")
           N(t, m, q, p) == Resumes(t, Bases, "Empresas", NameAt, m, q, p)
           S(t, m, q, p) == Resumes(t, Bases, "Simples", SimplesAt, m, q, p)
<1> SUFFICES ASSUME ~OutOfOrder', ~(E \subseteq marks')
             PROVE  IF staging' = None THEN marks' = {}
                    ELSE /\ N(staging'.names, marks', queue', pos')
                         /\ S(staging'.simples, marks', queue', pos')
  BY DEF Staging
<1>1. ~OutOfOrder /\ ~(E \subseteq marks)
  BY OutOfOrderKept, MarksGrow DEF MarkDone
<1>2. IF staging = None THEN marks = {}
      ELSE N(staging.names, marks, queue, pos) /\ S(staging.simples, marks, queue, pos)
  BY <1>1 DEF Staging
<1> HIDE DEF N, S
<1>3. ASSUME NEW f \in queue, SendBatch(f)
      PROVE  /\ staging' # None
             /\ N(staging'.names, marks', queue', pos') /\ S(staging'.simples, marks', queue', pos')
  <2>1. /\ staging # None /\ staging \in StagingTables /\ Import(f, NextBatch(f))
        /\ TypeOK' /\ pc' = "files" /\ f \in Files
    BY <1>3, BatchTypes DEF SendBatch, TypeOK
  <2>2. DOMAIN staging.names = Bases /\ DOMAIN staging.simples = Bases /\ staging' # None
    BY <2>1 DEF StagingTables, TypeOK
  <2>3. N(staging.names, marks, queue, pos) /\ S(staging.simples, marks, queue, pos)
    BY <1>2, <2>1
  <2>4. CASE Kind[f] = "Empresas"
    <3> DEFINE values == [i \in NextBatch(f) |-> Rows[f][i].name]
    <3>1. staging' = [staging EXCEPT !.names = Upsert(staging.names, f, values)]
      BY <2>1, <2>4 DEF Import, UpsertEmpresas
    <3>2. values = [i \in NextBatch(f) |-> NameAt[f][i]]
      BY <2>1 DEF NextBatch, Left, NameAt
    <3> HIDE DEF values
    <3>3. staging'.names = Upsert(staging.names, f, values) /\ staging'.simples = staging.simples
      BY <2>1, <3>1 DEF StagingTables
    <3>4. N(Upsert(staging.names, f, values), marks', queue', pos')
      BY <1>1, <1>3, <2>2, <2>3, <2>4, <3>2, BatchFills DEF N, Ordered
    <3>5. S(staging.simples, marks', queue', pos')
      BY <1>3, <2>3, <2>4, OtherFills DEF S
    <3> QED
      BY <2>2, <3>3, <3>4, <3>5
  <2>5. CASE Kind[f] = "Simples"
    <3> DEFINE values == [i \in NextBatch(f) |-> Rows[f][i].simples]
    <3>1. staging' = [staging EXCEPT !.simples = Upsert(staging.simples, f, values)]
      BY <2>1, <2>5 DEF Import, UpsertSimples
    <3>2. values = [i \in NextBatch(f) |-> SimplesAt[f][i]]
      BY <2>1 DEF NextBatch, Left, SimplesAt
    <3> HIDE DEF values
    <3>3. staging'.simples = Upsert(staging.simples, f, values) /\ staging'.names = staging.names
      BY <2>1, <3>1 DEF StagingTables
    <3>4. S(Upsert(staging.simples, f, values), marks', queue', pos')
      BY <1>1, <1>3, <2>2, <2>3, <2>5, <3>2, BatchFills DEF S, Ordered
    <3>5. N(staging.names, marks', queue', pos')
      BY <1>3, <2>3, <2>5, OtherFills DEF N
    <3> QED
      BY <2>2, <3>3, <3>4, <3>5
  <2>6. CASE Kind[f] # "Empresas" /\ Kind[f] # "Simples"
    <3>1. staging' = staging
      BY <2>1, <2>6 DEF Import, UpsertCNAEs, UpsertEstabelecimentos, UpsertSocios
    <3>2. N(staging.names, marks', queue', pos') /\ S(staging.simples, marks', queue', pos')
      BY <1>3, <2>3, <2>6, OtherFills DEF N, S
    <3> QED
      BY <2>1, <3>1, <3>2
  <2> QED
    BY <2>4, <2>5, <2>6
<1>4. ASSUME NEW f \in queue, MarkDone(f)
      PROVE  /\ staging' # None
             /\ N(staging'.names, marks', queue', pos') /\ S(staging'.simples, marks', queue', pos')
  <2>1. staging' = staging /\ staging # None
    BY <1>4 DEF MarkDone, FileIsThrough, tables, TypeOK
  <2>2. N(staging.names, marks', queue', pos') /\ S(staging.simples, marks', queue', pos')
    BY <1>1, <1>2, <1>4, <2>1, NoteFills DEF N, S, Ordered
  <2> QED
    BY <2>1, <2>2
<1>5. ASSUME NEW known \in SUBSET marks, StartKnowing(known)
      PROVE  /\ staging' # None
             /\ N(staging'.names, marks', queue', pos') /\ S(staging'.simples, marks', queue', pos')
  <2>0. NoStaging # None
    <3>1. NoStaging \in StagingTables
      BY DEF NoStaging, StagingTables
    <3> QED
      BY <3>1, IngestionAssumption
  <2>1. /\ marks' = marks /\ queue' = {} /\ queue = {} /\ pos' = pos
        /\ staging' = IF staging = None THEN NoStaging ELSE staging
    BY <1>5 DEF StartKnowing, disk, TypeOK
  <2>2. CASE staging = None
    <3>1. /\ marks = {}
          /\ \A b \in Bases : NoStaging.names[b] = None /\ NoStaging.simples[b] = None
      BY <1>2, <2>2 DEF NoStaging
    <3>2. N(NoStaging.names, {}, {}, pos) /\ S(NoStaging.simples, {}, {}, pos)
      <4>1. \A k : Firsts(k) \cap {} = {}
        OBVIOUS
      <4> QED
        BY <3>1, <4>1, ResumesFresh DEF N, S
    <3> QED
      BY <2>0, <2>1, <2>2, <3>1, <3>2
  <2>3. CASE staging # None
    BY <1>2, <2>1, <2>3
  <2> QED
    BY <2>2, <2>3
<1>6. CASE DropStagingTables
  <2>1. pc = "drop" /\ marks' = marks
    BY <1>6 DEF DropStagingTables, disk
  <2>2. E \subseteq done
    BY <2>1, KindsAre DEF Phases, Past
  <2> QED
    BY <1>1, <2>2, OnlyFirsts DEF Ordered, Firsts
<1>7. CASE /\ UNCHANGED <<marks, staging, companies>>
           /\ pos' = 0 \/ UNCHANGED <<queue, pos>>
  <2>1. CASE staging = None
    BY <1>2, <1>7, <2>1
  <2>2. CASE staging # None
    <3>1. CASE UNCHANGED <<queue, pos>>
      BY <1>2, <1>7, <2>2, <3>1
    <3>2. CASE pos' = 0
      <4>1. N(staging.names, marks, queue', 0) /\ S(staging.simples, marks, queue', 0)
        BY <1>2, <2>2, ResumesOther DEF N, S
      <4> QED
        BY <1>7, <2>2, <3>2, <4>1
    <3> QED
      BY <1>7, <3>1, <3>2
  <2> QED
    BY <2>1, <2>2
<1> QED
  BY <1>3, <1>4, <1>5, <1>6, <1>7, OtherSteps

\* The companies.
LEMMA FillingKept ==
  ASSUME TypeOK, Phases, Noting, Staging, Filling, [Next]_vars
  PROVE  Filling'
<1> DEFINE C(t, m, q, p) == Resumes(t, Cnpjs, "Estabelecimentos", DataAt, m, q, p)
<1> SUFFICES ASSUME ~OutOfOrder'
             PROVE  C(companies', marks', queue', pos')
  BY DEF Filling
<1>1. ~OutOfOrder
  BY OutOfOrderKept
<1>2. C(companies, marks, queue, pos)
  BY <1>1 DEF Filling
<1> HIDE DEF C
<1>3. ASSUME NEW f \in queue, SendBatch(f)
      PROVE  C(companies', marks', queue', pos')
  <2>1. /\ Import(f, NextBatch(f)) /\ Current(f) /\ f \in Files /\ DOMAIN companies = Cnpjs
        /\ pc = "files"
    BY <1>3 DEF SendBatch, TypeOK
  <2>2. CASE Kind[f] = "Estabelecimentos"
    <3> DEFINE values == [i \in NextBatch(f) |-> Enriched(Rows[f][i].base)]
    <3>1. companies' = Upsert(companies, f, values)
      BY <2>1, <2>2 DEF Import, UpsertEstabelecimentos
    <3>2. \A i \in NextBatch(f) : i \in Lines(f) /\ Rows[f][i].base \in Bases
      BY <2>1, <2>2, IngestionAssumption DEF NextBatch, Left, OfKind
    <3>3. \A i \in NextBatch(f) : Enriched(Rows[f][i].base) = DataAt[f][i]
      BY <1>1, <2>1, <2>2, <3>2, EnrichedIsDirect DEF DataAt
    <3>4. values = [i \in NextBatch(f) |-> DataAt[f][i]]
      BY <3>3
    <3> HIDE DEF values
    <3> QED
      BY <1>1, <1>2, <1>3, <2>1, <2>2, <3>1, <3>4, BatchFills DEF C, Ordered
  <2>3. CASE Kind[f] # "Estabelecimentos"
    <3>1. companies' = companies
      BY <2>1, <2>3 DEF Import, UpsertCNAEs, UpsertEmpresas, UpsertSimples, UpsertSocios
    <3> QED
      BY <1>2, <1>3, <2>3, <3>1, OtherFills DEF C
  <2> QED
    BY <2>2, <2>3
<1>4. ASSUME NEW f \in queue, MarkDone(f)
      PROVE  C(companies', marks', queue', pos')
  <2>1. companies' = companies
    BY <1>4 DEF MarkDone, FileIsThrough, tables
  <2> QED
    BY <1>1, <1>2, <1>4, <2>1, NoteFills DEF C, Ordered
<1>5. CASE (\E known \in SUBSET marks : StartKnowing(known)) \/ DropStagingTables
  <2>1. UNCHANGED <<companies, marks, queue, pos>>
    BY <1>5 DEF StartKnowing, DropStagingTables, disk, locals, TypeOK
  <2> QED
    BY <1>2, <2>1
<1>6. CASE /\ UNCHANGED <<marks, staging, companies>>
           /\ pos' = 0 \/ UNCHANGED <<queue, pos>>
  <2>1. CASE UNCHANGED <<queue, pos>>
    BY <1>2, <1>6, <2>1
  <2>2. CASE pos' = 0
    <3>1. C(companies, marks, queue', 0)
      BY <1>2, ResumesOther DEF C
    <3> QED
      BY <1>6, <2>2, <3>1
  <2> QED
    BY <1>6, <2>1, <2>2
<1> QED
  BY <1>3, <1>4, <1>5, <1>6, OtherSteps

\* Embeddings are made of the companies that one pass makes, of all of them in the end.
Embedding ==
  /\ ~OutOfOrder =>
       \A c \in Cnpjs : vector[c] # None =>
         Firsts("Estabelecimentos") \subseteq marks /\ vector[c] = companies[c].name
  /\ pc \in {"index", "done"} => \A c \in Cnpjs : companies[c] # None => vector[c] # None

\* The steps that make no company and no embedding.
LEMMA OtherEmbedding ==
  ASSUME [Next]_vars
  PROVE  \/ \E f \in queue : SendBatch(f) /\ Kind[f] = "Estabelecimentos"
         \/ \E some \in SUBSET asked : CallAnswers(some)
         \/ FetchPending
         \/ /\ UNCHANGED <<companies, vector>> /\ marks \subseteq marks'
            /\ pc' \in {"index", "done"} => pc \in {"index", "done"}
  BY DEF Next, Step, Start, StartUnread, StartKnowing, ReadFails, FindFiles, SendBatch,
         Import, UpsertCNAEs, UpsertEmpresas, UpsertSimples, UpsertSocios, MarkDone,
         MarkFails, FileIsThrough, NextPhase, DropStagingTables, DropFails, CallFails,
         CreateHNSWIndex, Crash, Interrupt, Ends, AddFile, vars, disk, tables

\* Every step.
LEMMA EmbeddingKept ==
  ASSUME TypeOK, Phases, Embedding, [Next]_vars
  PROVE  Embedding'
<1> DEFINE E == Firsts("Estabelecimentos")
<1>1. ~OutOfOrder' => ~OutOfOrder
  BY OutOfOrderKept
<1>2. ASSUME NEW f \in queue, SendBatch(f), Kind[f] = "Estabelecimentos"
      PROVE  Embedding'
  <2>1. pc' = "files" /\ pc = "files" /\ vector' = vector /\ Current(f)
    BY <1>2 DEF SendBatch
  <2>2. ~OutOfOrder => ~(E \subseteq marks)
    BY <1>2, <2>1, CurrentIsNext DEF Ordered
  <2> QED
    BY <1>1, <2>1, <2>2 DEF Embedding
<1>3. ASSUME NEW some \in SUBSET asked, CallAnswers(some)
      PROVE  Embedding'
  <2>1. /\ UNCHANGED <<companies, marks>> /\ pc' = "embed" /\ pc = "call"
        /\ vector' = [c \in Cnpjs |-> IF c \in some THEN companies[c].name ELSE vector[c]]
    BY <1>3 DEF CallAnswers, tables, disk
  <2>2. ~OutOfOrder => E \subseteq marks
    <3>1. E \subseteq done
      BY <2>1, KindsAre DEF Phases, Past
    <3> QED
      BY <3>1, OnlyFirsts DEF Ordered, Firsts
  <2> QED
    BY <1>1, <2>1, <2>2 DEF Embedding
<1>4. CASE FetchPending
  <2> DEFINE pending == {c \in Cnpjs : companies[c] # None /\ vector[c] = None}
  <2>1. /\ UNCHANGED <<companies, marks, vector>>
        /\ (pc' = "index" /\ pending = {}) \/ pc' = "call"
    BY <1>4 DEF FetchPending, tables, disk
  <2> QED
    BY <1>1, <2>1 DEF Embedding
<1>5. CASE /\ UNCHANGED <<companies, vector>> /\ marks \subseteq marks'
           /\ pc' \in {"index", "done"} => pc \in {"index", "done"}
  BY <1>1, <1>5 DEF Embedding
<1> QED
  BY <1>2, <1>3, <1>4, <1>5, OtherEmbedding

-----------------------------------------------------------------------------
(* What the files make of the tables that only grow *)

\* Line i of f is sent: f is noted or done, or i is a line that has been sent of it.
Sent(f, i) == (f \in marks \cup done) \/ (Current(f) /\ i <= pos)

\* Codes of lines that are sent are there, and no others but those of files.
Growing ==
  /\ \A f \in OfKind("Cnaes") : \A i \in Lines(f) : Sent(f, i) => Rows[f][i].code \in cnaes
  /\ cnaes \subseteq {r.code : r \in RowsOf(present \cap OfKind("Cnaes"))}
  /\ \A f \in OfKind("Estabelecimentos") : \A i \in Lines(f) : Sent(f, i) =>
       MainCodes({Rows[f][i]}) \subseteq mains /\ Codes({Rows[f][i]}) \subseteq links
  /\ mains \subseteq MainCodes(RowsOf(present \cap OfKind("Estabelecimentos")))
  /\ links \subseteq Codes(RowsOf(present \cap OfKind("Estabelecimentos")))

\* Codes of more lines are more codes.
LEMMA CodesGrow ==
  ASSUME NEW R, NEW S, R \subseteq S
  PROVE  MainCodes(R) \subseteq MainCodes(S) /\ Codes(R) \subseteq Codes(S)
  BY DEF MainCodes, Codes

\* Codes of lines are the codes of each of them.
LEMMA CodesOfEach ==
  ASSUME NEW R, NEW M, NEW C
  PROVE  /\ (\A r \in R : MainCodes({r}) \subseteq M) <=> MainCodes(R) \subseteq M
         /\ (\A r \in R : Codes({r}) \subseteq C) <=> Codes(R) \subseteq C
<1>1. (\A r \in R : MainCodes({r}) \subseteq M) <=> MainCodes(R) \subseteq M
  BY DEF MainCodes
<1>2. ASSUME \A r \in R : Codes({r}) \subseteq C, NEW l \in Codes(R)
      PROVE  l \in C
  <2>1. CASE l \in MainCodes(R)
    <3>1. PICK r \in R : l \in MainCodes({r})
      BY <2>1 DEF MainCodes
    <3> QED
      BY <1>2, <3>1 DEF Codes
  <2>2. CASE l \in UNION {{r.cnpj} \X r.others : r \in R}
    <3>1. PICK r \in R : l \in {r.cnpj} \X r.others
      BY <2>2
    <3>2. l \in Codes({r})
      BY <3>1 DEF Codes
    <3> QED
      BY <1>2, <3>1, <3>2
  <2> QED
    BY <1>2, <2>1, <2>2 DEF Codes
<1>3. \A r \in R : Codes({r}) \subseteq Codes(R)
  <2>1. \A r \in R : {r} \subseteq R
    OBVIOUS
  <2> QED
    BY <2>1, CodesGrow
<1> QED
  BY <1>1, <1>2, <1>3

\* A line that is sent by a step was sent, or is one of the batch.
LEMMA SentBatch ==
  ASSUME TypeOK, NEW f \in queue, SendBatch(f),
         NEW g \in Files, NEW i \in Lines(g), Sent(g, i)'
  PROVE  Sent(g, i) \/ (g = f /\ i \in NextBatch(f))
<1>1. /\ UNCHANGED <<marks, done, queue>> /\ pos' = Max(NextBatch(f)) /\ Current(f)
      /\ Left(f) # {} /\ f \in Files /\ pos \in Nat
  BY DEF SendBatch, disk, TypeOK
<1>2. Current(g)' <=> Current(g)
  BY <1>1 DEF Current
<1>3. CASE g \in marks \cup done
  BY <1>3 DEF Sent
<1>4. CASE Current(g) /\ i <= pos'
  <2>1. g = f
    BY <1>1, <1>4, OneCurrent
  <2>2. pos < i => i \in NextBatch(f)
    BY <1>1, <1>4, <2>1, BatchIs
  <2>3. i \in Nat
    BY LinesAreNumbers
  <2> QED
    BY <1>1, <1>4, <2>1, <2>2, <2>3 DEF Sent
<1> QED
  BY <1>1, <1>2, <1>3, <1>4 DEF Sent

\* The other steps send no line.
LEMMA SentOther ==
  ASSUME TypeOK, [Next]_vars, ~(\E f \in queue : SendBatch(f)),
         NEW g \in Files, NEW i \in Lines(g), Sent(g, i)'
  PROVE  Sent(g, i)
<1>0. i \in Nat /\ i > 0
  BY LinesAreNumbers
<1>1. CASE \E f \in queue : MarkDone(f) \/ MarkFails(f)
  <2>1. PICK f \in queue : MarkDone(f) \/ MarkFails(f)
    BY <1>1
  <2>2. /\ FileIsThrough(f) /\ pos' = 0 /\ done' = done \cup {f} /\ marks' \subseteq marks \cup {f}
    BY <2>1 DEF MarkDone, MarkFails, FileIsThrough
  <2>3. g \in marks \cup done \cup {f}
    BY <1>0, <2>2 DEF Sent
  <2>4. g = f => Current(g) /\ i <= pos
    BY <1>0, <2>2 DEF FileIsThrough, Left, TypeOK
  <2> QED
    BY <2>3, <2>4 DEF Sent
<1>2. CASE ~(\E f \in queue : MarkDone(f) \/ MarkFails(f))
  <2>1. /\ marks' = marks /\ done' \subseteq marks \cup done
        /\ pos' = 0 \/ UNCHANGED <<queue, pos>>
    BY <1>2 DEF Next, Step, Start, StartUnread, StartKnowing, ReadFails, FindFiles,
           NextPhase, DropStagingTables, DropFails, FetchPending, CallFails, CallAnswers,
           CreateHNSWIndex, Crash, Interrupt, Ends, AddFile, vars, disk, locals
  <2> QED
    BY <1>0, <2>1 DEF Sent, Current
<1> QED
  BY <1>1, <1>2

\* Every step.
LEMMA GrowingKept ==
  ASSUME TypeOK, Growing, [Next]_vars
  PROVE  Growing'
<1> DEFINE Cnae(files) == {r.code : r \in RowsOf(files \cap OfKind("Cnaes"))}
           Ests(files) == RowsOf(files \cap OfKind("Estabelecimentos"))
<1>1. ASSUME ~(\E f \in queue : SendBatch(f))
      PROVE  Growing'
  <2>1. UNCHANGED <<cnaes, mains, links>> /\ present \subseteq present'
    BY <1>1 DEF Next, Step, Start, StartUnread, StartKnowing, ReadFails, FindFiles,
           MarkDone, MarkFails, FileIsThrough, NextPhase, DropStagingTables, DropFails,
           FetchPending, CallFails, CallAnswers, CreateHNSWIndex, Crash, Interrupt, Ends,
           AddFile, vars, disk, tables
  <2>2. \A f \in Files : \A i \in Lines(f) : Sent(f, i)' => Sent(f, i)
    BY <1>1, SentOther
  <2>3. Cnae(present) \subseteq Cnae(present') /\ Ests(present) \subseteq Ests(present')
    BY <2>1 DEF RowsOf
  <2>4. /\ MainCodes(Ests(present)) \subseteq MainCodes(Ests(present'))
        /\ Codes(Ests(present)) \subseteq Codes(Ests(present'))
    BY <2>3, CodesGrow
  <2> HIDE DEF Cnae, Ests
  <2>5. OfKind("Cnaes") \subseteq Files /\ OfKind("Estabelecimentos") \subseteq Files
    BY DEF OfKind
  <2>6. /\ cnaes \subseteq Cnae(present) /\ mains \subseteq MainCodes(Ests(present))
        /\ links \subseteq Codes(Ests(present))
    BY DEF Growing, Cnae, Ests
  <2>7. /\ cnaes' \subseteq Cnae(present') /\ mains' \subseteq MainCodes(Ests(present'))
        /\ links' \subseteq Codes(Ests(present'))
    BY <2>1, <2>3, <2>4, <2>6
  <2> QED
    BY <2>1, <2>2, <2>5, <2>7 DEF Growing, Cnae, Ests
<1>2. ASSUME NEW f \in queue, SendBatch(f)
      PROVE  Growing'
  <2> DEFINE batch == NextBatch(f)
             rows == {Rows[f][i] : i \in batch}
  <2>1. /\ f \in Files /\ f \in present /\ batch \subseteq Lines(f) /\ Import(f, batch)
        /\ present' = present
    BY <1>2 DEF SendBatch, TypeOK, NextBatch, Left, disk
  <2>2. \A g \in Files : \A i \in Lines(g) : Sent(g, i)' => Sent(g, i) \/ (g = f /\ i \in batch)
    BY <1>2, SentBatch
  <2> HIDE DEF batch
  <2>3. CASE Kind[f] = "Cnaes"
    <3>1. cnaes' = cnaes \cup {Rows[f][i].code : i \in batch} /\ UNCHANGED <<mains, links>>
      BY <2>1, <2>3 DEF Import, UpsertCNAEs
    <3>2. f \in present \cap OfKind("Cnaes") /\ f \notin OfKind("Estabelecimentos")
      BY <2>1, <2>3 DEF OfKind
    <3>3. cnaes' \subseteq Cnae(present)
      BY <2>1, <3>1, <3>2 DEF Growing, RowsOf
    <3> QED
      BY <2>1, <2>2, <3>1, <3>2, <3>3 DEF Growing, OfKind
  <2>4. CASE Kind[f] = "Estabelecimentos"
    <3>1. /\ mains' = mains \cup MainCodes(rows) /\ links' = links \cup Codes(rows)
          /\ cnaes' = cnaes
      BY <2>1, <2>4 DEF Import, UpsertEstabelecimentos
    <3>2. f \in present \cap OfKind("Estabelecimentos") /\ f \notin OfKind("Cnaes")
      BY <2>1, <2>4 DEF OfKind
    <3>3. rows \subseteq Ests(present)
      BY <2>1, <3>2 DEF RowsOf
    <3>4. /\ MainCodes(rows) \subseteq MainCodes(Ests(present))
          /\ Codes(rows) \subseteq Codes(Ests(present))
      BY <3>3, CodesGrow
    <3>5. mains' \subseteq MainCodes(Ests(present)) /\ links' \subseteq Codes(Ests(present))
      BY <3>1, <3>4 DEF Growing
    <3>6. \A i \in batch : /\ MainCodes({Rows[f][i]}) \subseteq mains'
                           /\ Codes({Rows[f][i]}) \subseteq links'
      <4>1. MainCodes(rows) \subseteq mains' /\ Codes(rows) \subseteq links'
        BY <3>1
      <4>2. \A i \in batch : {Rows[f][i]} \subseteq rows
        OBVIOUS
      <4> HIDE DEF rows
      <4>3. \A i \in batch : MainCodes({Rows[f][i]}) \subseteq MainCodes(rows)
                            /\ Codes({Rows[f][i]}) \subseteq Codes(rows)
        BY <4>2, CodesGrow
      <4> QED
        BY <4>1, <4>3
    <3>7. /\ \A g \in OfKind("Cnaes") : \A i \in Lines(g) :
               Sent(g, i)' => Rows[g][i].code \in cnaes'
          /\ cnaes' \subseteq Cnae(present)
      BY <2>2, <3>1, <3>2 DEF Growing, OfKind
    <3>8. ASSUME NEW g \in OfKind("Estabelecimentos"), NEW i \in Lines(g), Sent(g, i)'
          PROVE  MainCodes({Rows[g][i]}) \subseteq mains' /\ Codes({Rows[g][i]}) \subseteq links'
      <4>1. CASE Sent(g, i)
        BY <3>1, <4>1 DEF Growing
      <4>2. CASE g = f /\ i \in batch
        BY <3>6, <4>2
      <4>3. g \in Files
        BY DEF OfKind
      <4> QED
        BY <2>2, <3>8, <4>1, <4>2, <4>3
    <3> QED
      BY <2>1, <3>5, <3>7, <3>8 DEF Growing
  <2>5. CASE Kind[f] # "Cnaes" /\ Kind[f] # "Estabelecimentos"
    <3>1. UNCHANGED <<cnaes, mains, links>>
      BY <2>1, <2>5 DEF Import, UpsertEmpresas, UpsertSimples, UpsertSocios
    <3>2. f \notin OfKind("Cnaes") /\ f \notin OfKind("Estabelecimentos")
      BY <2>5 DEF OfKind
    <3> QED
      BY <2>1, <2>2, <3>1, <3>2 DEF Growing, OfKind
  <2> QED
    BY <2>3, <2>4, <2>5
<1> QED
  BY <1>1, <1>2

\* The company of a line that is sent is there.
Existing ==
  \A f \in OfKind("Estabelecimentos") : \A i \in Lines(f) :
    Sent(f, i) => companies[Rows[f][i].cnpj] # None

\* Every step.
LEMMA ExistingKept ==
  ASSUME TypeOK, Existing, [Next]_vars
  PROVE  Existing'
<1> SUFFICES ASSUME NEW g \in OfKind("Estabelecimentos"), NEW i \in Lines(g), Sent(g, i)'
             PROVE  companies'[Rows[g][i].cnpj] # None
  BY DEF Existing
<1>1. g \in Files /\ Rows[g][i].cnpj \in Cnpjs
  BY IngestionAssumption DEF OfKind
<1>2. CASE \E f \in queue : SendBatch(f) /\ Kind[f] = "Estabelecimentos"
  <2>1. PICK f \in queue : SendBatch(f) /\ Kind[f] = "Estabelecimentos"
    BY <1>2
  <2> DEFINE batch == NextBatch(f)
             data == [j \in batch |-> Enriched(Rows[f][j].base)]
  <2>2. /\ f \in Files /\ batch \subseteq Lines(f) /\ staging # None
        /\ companies' = Upsert(companies, f, data)
        /\ DOMAIN companies = Cnpjs
    BY <2>1 DEF SendBatch, Import, UpsertEstabelecimentos, NextBatch, Left, TypeOK
  <2>3. \A j \in batch : data[j] # None
    <3>1. \A j \in batch : Rows[f][j].base \in Bases
      BY <2>1, <2>2, IngestionAssumption DEF OfKind
    <3>2. \A j \in batch : data[j] \in Company
      BY <2>2, <3>1, EnrichedIs
    <3> HIDE DEF data, batch
    <3> QED
      BY <3>2, IngestionAssumption
  <2>4. Sent(g, i) \/ (g = f /\ i \in batch)
    BY <1>1, <2>1, SentBatch
  <2>5. DOMAIN data = batch /\ \A j \in batch : Key(f, j) = Rows[f][j].cnpj
    BY <2>1 DEF Key
  <2> HIDE DEF data, batch
  <2>6. /\ \A c \in Cnpjs : companies[c] # None => companies'[c] # None
        /\ \A j \in batch : Rows[f][j].cnpj \in Cnpjs => companies'[Rows[f][j].cnpj] # None
    BY <2>2, <2>3, <2>5, UpsertIs
  <2> QED
    BY <1>1, <2>4, <2>6 DEF Existing
<1>3. CASE ~(\E f \in queue : SendBatch(f) /\ Kind[f] = "Estabelecimentos")
  <2>1. companies' = companies
    BY <1>3 DEF Next, Step, Start, StartUnread, StartKnowing, ReadFails, FindFiles,
           SendBatch, Import, UpsertCNAEs, UpsertEmpresas, UpsertSimples, UpsertSocios,
           MarkDone, MarkFails, FileIsThrough, NextPhase, DropStagingTables, DropFails,
           FetchPending, CallFails, CallAnswers, CreateHNSWIndex, Crash, Interrupt, Ends,
           AddFile, vars, tables
  <2>2. Sent(g, i)
    <3>1. CASE \E f \in queue : SendBatch(f)
      <4>1. PICK f \in queue : SendBatch(f)
        BY <3>1
      <4>2. Sent(g, i) \/ g = f
        BY <1>1, <4>1, SentBatch
      <4>3. g # f
        BY <1>3, <4>1 DEF OfKind
      <4> QED
        BY <4>2, <4>3
    <3>2. CASE ~(\E f \in queue : SendBatch(f))
      BY <1>1, <3>2, SentOther
    <3> QED
      BY <3>1, <3>2
  <2> QED
    BY <2>1, <2>2 DEF Existing
<1> QED
  BY <1>2, <1>3

-----------------------------------------------------------------------------
(* Partners *)

\* The places that say r and have been sent.
SentPlaces(r) == {p \in Places(r) : Sent(p[1], p[2])}

\* Those that have been sent once more than failures account for: those of the files that
\* are noted, and known to be by the program if it runs, and of the file that it reads.
Through(f) == f \in marks /\ (pc = "off" \/ f \in done)
OncePlaces(r) ==
  {p \in Places(r) : Through(p[1]) \/ (pc = "files" /\ Current(p[1]) /\ p[2] <= pos)}

\* A partner is there for every place that is sent, and for every place once per failure.
Repeating ==
  \A r \in DOMAIN partners :
    /\ Cardinality(SentPlaces(r)) <= partners[r]
    /\ partners[r] <= faults * Cardinality(Places(r)) + Cardinality(OncePlaces(r))

\* Places are finitely many.
LEMMA PlacesFinite ==
  ASSUME NEW r
  PROVE  /\ IsFiniteSet(Places(r)) /\ Cardinality(Places(r)) \in Nat
         /\ \A T \in SUBSET Places(r) :
              IsFiniteSet(T) /\ Cardinality(T) \in Nat /\ Cardinality(T) <= Cardinality(Places(r))
<1> DEFINE at(f) == {f} \X {i \in Lines(f) : Rows[f][i] = r}
           all == {at(f) : f \in OfKind("Socios")}
<1>1. \A f \in OfKind("Socios") : IsFiniteSet(at(f))
  <2> SUFFICES ASSUME NEW f \in OfKind("Socios")
               PROVE  IsFiniteSet(at(f))
    OBVIOUS
  <2>1. f \in Files /\ {i \in Lines(f) : Rows[f][i] = r} \subseteq Lines(f)
    BY DEF OfKind
  <2>2. IsFiniteSet({i \in Lines(f) : Rows[f][i] = r}) /\ IsFiniteSet({f})
    BY <2>1, LinesAreNumbers, FS_Subset, FS_Singleton
  <2> QED
    BY <2>2, FS_Product
<1>2. IsFiniteSet(OfKind("Socios"))
  <2>1. OfKind("Socios") \subseteq Files
    BY DEF OfKind
  <2> QED
    BY <2>1, FilesAreNumbers, FS_Subset
<1>3. IsFiniteSet(all)
  <2> DEFINE image == [f \in OfKind("Socios") |-> at(f)]
  <2> HIDE DEF at
  <2>1. image \in Surjection(OfKind("Socios"), all)
    BY DEF Surjection
  <2> HIDE DEF image, all
  <2> QED
    BY <1>2, <2>1, FS_Surjection
<1>4. IsFiniteSet(UNION all)
  <2>1. \A T \in all : IsFiniteSet(T)
    BY <1>1
  <2> HIDE DEF all
  <2> QED
    BY <1>3, <2>1, FS_UNION
<1>5. Places(r) = UNION all
  BY DEF Places
<1> HIDE DEF all
<1>6. IsFiniteSet(Places(r))
  BY <1>4, <1>5
<1> QED
  BY <1>6, FS_Subset, FS_CardinalityType

\* One more failure pays for all places once more.
LEMMA OneMore ==
  ASSUME NEW n \in Nat, NEW p \in Nat
  PROVE  (n + 1) * p = n * p + p /\ n * p \in Nat
  OBVIOUS

\* The batch of a file of Socios is added to the partners, and its places to those sent.
LEMMA PartnerBatch ==
  ASSUME TypeOK, Phases, NEW f \in queue, SendBatch(f), Kind[f] = "Socios",
         NEW r \in DOMAIN partners
  PROVE  \E n \in Nat :
           /\ partners'[r] = partners[r] + n
           /\ Cardinality(SentPlaces(r)') <= Cardinality(SentPlaces(r)) + n
           /\ Cardinality(OncePlaces(r)') = Cardinality(OncePlaces(r)) + n
<1> DEFINE batch == NextBatch(f)
           lines == {i \in batch : Rows[f][i] = r}
           new == {f} \X lines
<1>1. /\ UNCHANGED <<marks, done, queue, pc>> /\ pos' = Max(batch) /\ Current(f) /\ pc = "files"
      /\ Left(f) # {} /\ f \in Files /\ pos \in Nat /\ Import(f, batch) /\ f \notin done
      /\ f \in OfKind("Socios")
  BY DEF SendBatch, disk, TypeOK, OfKind, Phases
<1>2. /\ IsFiniteSet(batch) /\ batch = {i \in Lines(f) : pos < i /\ i <= pos'}
      /\ pos' \in Nat /\ pos <= pos'
  BY <1>1, BatchIs
<1>3. \A g : Current(g)' <=> Current(g)
  BY <1>1 DEF Current
<1>4. \A g : Current(g) <=> g = f
  BY <1>1, OneCurrent
<1>5. \A p \in Places(r) : /\ p = <<p[1], p[2]>> /\ p[1] \in Files /\ p[2] \in Lines(p[1])
                           /\ p[2] \in Nat /\ Rows[p[1]][p[2]] = r
  <2>1. \A g \in Files : Lines(g) \subseteq Nat
    BY LinesAreNumbers
  <2> QED
    BY <2>1 DEF Places, OfKind
<1> HIDE DEF batch
<1>6. new \subseteq Places(r) /\ \A p \in Places(r) : p \in new <=> p[1] = f /\ pos < p[2] /\ p[2] <= pos'
  BY <1>1, <1>2, <1>5 DEF Places
<1>7. OncePlaces(r)' = OncePlaces(r) \cup new /\ OncePlaces(r) \cap new = {}
  <2>1. OncePlaces(r)' = {p \in Places(r) : (p[1] \in marks \cap done) \/ (p[1] = f /\ p[2] <= pos')}
    BY <1>1, <1>3, <1>4 DEF OncePlaces, Through
  <2>2. OncePlaces(r) = {p \in Places(r) : (p[1] \in marks \cap done) \/ (p[1] = f /\ p[2] <= pos)}
    BY <1>1, <1>4 DEF OncePlaces, Through
  <2> HIDE DEF new
  <2> QED
    BY <1>1, <1>2, <1>5, <1>6, <2>1, <2>2
<1>8. SentPlaces(r)' \subseteq SentPlaces(r) \cup new
  <2>1. \A p \in Places(r) : Sent(p[1], p[2])' => Sent(p[1], p[2]) \/ (p[1] = f /\ p[2] \in batch)
    BY <1>5, SentBatch DEF batch
  <2> HIDE DEF new
  <2> QED
    BY <1>2, <1>6, <2>1 DEF SentPlaces
<1>9. IsFiniteSet(lines) /\ Cardinality(lines) \in Nat
  <2>1. lines \subseteq batch
    OBVIOUS
  <2> QED
    BY <1>2, <2>1, FS_Subset, FS_CardinalityType
<1>10. IsFiniteSet(new) /\ Cardinality(new) = Cardinality(lines)
  <2>1. IsFiniteSet({f}) /\ Cardinality({f}) = 1
    BY FS_Singleton
  <2> HIDE DEF lines
  <2>2. IsFiniteSet(new) /\ Cardinality(new) = Cardinality({f}) * Cardinality(lines)
    BY <1>9, <2>1, FS_Product
  <2> QED
    BY <1>9, <2>1, <2>2
<1>11. /\ IsFiniteSet(SentPlaces(r)) /\ Cardinality(SentPlaces(r)) \in Nat
       /\ IsFiniteSet(OncePlaces(r)) /\ Cardinality(OncePlaces(r)) \in Nat
  <2>1. SentPlaces(r) \in SUBSET Places(r) /\ OncePlaces(r) \in SUBSET Places(r)
    BY DEF SentPlaces, OncePlaces
  <2> QED
    BY <2>1, PlacesFinite
<1> HIDE DEF new, lines
<1>12. Cardinality(OncePlaces(r)') = Cardinality(OncePlaces(r)) + Cardinality(lines)
  <2>1. Cardinality(OncePlaces(r) \cup new)
          = Cardinality(OncePlaces(r)) + Cardinality(new) - Cardinality(OncePlaces(r) \cap new)
    BY <1>10, <1>11, FS_Union
  <2>2. Cardinality(OncePlaces(r) \cap new) = 0
    BY <1>7, FS_EmptySet
  <2> QED
    BY <1>7, <1>9, <1>10, <1>11, <2>1, <2>2
<1>13. Cardinality(SentPlaces(r)') <= Cardinality(SentPlaces(r)) + Cardinality(lines)
  <2>1. /\ IsFiniteSet(SentPlaces(r) \cup new) /\ Cardinality(SentPlaces(r) \cup new) \in Nat
        /\ Cardinality(SentPlaces(r) \cup new)
             = Cardinality(SentPlaces(r)) + Cardinality(new) - Cardinality(SentPlaces(r) \cap new)
    BY <1>10, <1>11, FS_Union, FS_CardinalityType
  <2>2. Cardinality(SentPlaces(r) \cap new) \in Nat
    <3>1. SentPlaces(r) \cap new \in SUBSET new
      OBVIOUS
    <3> QED
      BY <1>10, <3>1, FS_Subset, FS_CardinalityType
  <2>3. /\ Cardinality(SentPlaces(r)') <= Cardinality(SentPlaces(r) \cup new)
        /\ Cardinality(SentPlaces(r)') \in Nat
    BY <1>8, <2>1, FS_Subset, FS_CardinalityType
  <2> QED
    BY <1>9, <1>10, <1>11, <2>1, <2>2, <2>3
<1>14. partners'[r] = partners[r] + Cardinality(lines)
  BY <1>1 DEF Import, UpsertSocios, lines
<1> QED
  BY <1>9, <1>12, <1>13, <1>14

\* The steps that send no Socios insert no partner and send no place, and leave the places
\* that are sent once, but for a failure.
LEMMA PlacesOther ==
  ASSUME TypeOK, [Next]_vars, ~(\E f \in queue : SendBatch(f) /\ Kind[f] = "Socios")
  PROVE  /\ partners' = partners
         /\ \A r : SentPlaces(r)' \subseteq SentPlaces(r)
         /\ \/ faults' = faults + 1
            \/ UNCHANGED faults /\ \A r : OncePlaces(r) \subseteq OncePlaces(r)'
<1>1. partners' = partners
  BY DEF Next, Step, Start, StartUnread, StartKnowing, ReadFails, FindFiles, SendBatch,
         Import, UpsertCNAEs, UpsertEmpresas, UpsertSimples, UpsertEstabelecimentos,
         MarkDone, MarkFails, FileIsThrough, NextPhase, DropStagingTables, DropFails,
         FetchPending, CallFails, CallAnswers, CreateHNSWIndex, Crash, Interrupt, Ends,
         AddFile, vars, disk, tables
<1>2. ASSUME NEW r, NEW p \in Places(r)
      PROVE  p[1] \in Files /\ Kind[p[1]] = "Socios" /\ p[2] \in Lines(p[1]) /\ p[2] \in Nat \ {0}
  <2>1. p[1] \in Files /\ Kind[p[1]] = "Socios" /\ p[2] \in Lines(p[1])
    BY DEF Places, OfKind
  <2> QED
    BY <2>1, LinesAreNumbers
<1>3. \A r : SentPlaces(r)' \subseteq SentPlaces(r)
  <2> SUFFICES ASSUME NEW r, NEW p \in Places(r), Sent(p[1], p[2])'
               PROVE  Sent(p[1], p[2])
    BY DEF SentPlaces
  <2>1. CASE \E f \in queue : SendBatch(f)
    <3>1. PICK f \in queue : SendBatch(f)
      BY <2>1
    <3>2. p[1] # f
      BY <1>2, <3>1
    <3> QED
      BY <1>2, <3>1, <3>2, SentBatch
  <2>2. CASE ~(\E f \in queue : SendBatch(f))
    BY <1>2, <2>2, SentOther
  <2> QED
    BY <2>1, <2>2
<1>4. ASSUME NEW f \in queue, SendBatch(f), Kind[f] # "Socios"
      PROVE  UNCHANGED faults /\ \A r : OncePlaces(r) \subseteq OncePlaces(r)'
  <2>1. UNCHANGED <<marks, done, pc, faults>> /\ \A g \in queue : Kind[g] # "Socios"
    BY <1>4 DEF SendBatch, disk, TypeOK, OfKind
  <2>2. \A r : \A p \in Places(r) : ~Current(p[1])
    BY <1>2, <2>1 DEF Current
  <2> QED
    BY <2>1, <2>2 DEF OncePlaces, Through
<1>5. ASSUME NEW f \in queue, MarkDone(f)
      PROVE  UNCHANGED faults /\ \A r : OncePlaces(r) \subseteq OncePlaces(r)'
  <2>1. /\ marks' = marks \cup {f} /\ done' = done \cup {f} /\ Current(f) /\ pc = "files"
        /\ UNCHANGED <<faults, pc>>
    BY <1>5 DEF MarkDone, FileIsThrough
  <2>2. \A g : Current(g) <=> g = f
    BY <2>1, OneCurrent
  <2> QED
    BY <2>1, <2>2 DEF OncePlaces, Through
<1>6. CASE Start \/ (Ends /\ UNCHANGED faults /\ pc # "files")
  <2>1. /\ UNCHANGED <<marks, faults>> /\ pc # "files"
        /\ pc' = "off" \/ (pc' = "list" /\ done' = marks)
    BY <1>6 DEF Start, StartKnowing, Ends, disk
  <2> QED
    BY <1>1, <1>3, <2>1 DEF OncePlaces, Through
<1>7. CASE ~(\E f \in queue : SendBatch(f) \/ MarkDone(f)) /\ ~Start /\ ~Ends
  <2>1. \/ faults' = faults + 1
        \/ UNCHANGED <<marks, done, pc, queue, pos, faults>>
        \/ /\ UNCHANGED <<marks, done, faults>> /\ pc # "off"
           /\ pc = "files" => queue = {}
    BY <1>7 DEF Next, Step, StartUnread, ReadFails, FindFiles, MarkFails, FileIsThrough,
           NextPhase, DropStagingTables, DropFails, FetchPending, CallFails, CallAnswers,
           CreateHNSWIndex, Crash, Interrupt, AddFile, vars, disk, locals
  <2>2. UNCHANGED <<marks, done, pc, queue, pos>> => \A r : OncePlaces(r)' = OncePlaces(r)
    BY DEF OncePlaces, Through, Current
  <2>3. ASSUME UNCHANGED <<marks, done>>, pc # "off", pc = "files" => queue = {}, NEW r
        PROVE  OncePlaces(r) \subseteq OncePlaces(r)'
    BY <2>3 DEF OncePlaces, Through, Current
  <2> QED
    BY <1>1, <1>3, <2>1, <2>2, <2>3
<1>8. Ends => faults' = faults + 1 \/ (UNCHANGED faults /\ pc # "files")
  <2>1. Ends => pc' = "off"
    BY DEF Ends
  <2>2. pc' = "off" => \/ Crash \/ Interrupt \/ CallFails \/ UNCHANGED <<pc, faults>>
    BY DEF Next, Step, Start, StartUnread, StartKnowing, ReadFails, FindFiles, SendBatch,
           MarkDone, MarkFails, FileIsThrough, NextPhase, DropStagingTables, DropFails,
           FetchPending, CallAnswers, CreateHNSWIndex, AddFile, vars
  <2> QED
    BY <2>1, <2>2 DEF Crash, Interrupt, CallFails
<1> QED
  BY <1>1, <1>3, <1>4, <1>5, <1>6, <1>7, <1>8

\* Every step.
LEMMA RepeatingKept ==
  ASSUME TypeOK, Phases, Repeating, [Next]_vars
  PROVE  Repeating'
<1> DEFINE S(r) == Cardinality(SentPlaces(r))
           O(r) == Cardinality(OncePlaces(r))
           P(r) == Cardinality(Places(r))
<1>1. ASSUME NEW r
      PROVE  /\ S(r) \in Nat /\ S(r)' \in Nat /\ O(r) \in Nat /\ O(r)' \in Nat /\ P(r) \in Nat
             /\ O(r) <= P(r) /\ IsFiniteSet(SentPlaces(r)) /\ IsFiniteSet(OncePlaces(r)')
  <2>1. /\ SentPlaces(r) \in SUBSET Places(r) /\ SentPlaces(r)' \in SUBSET Places(r)
        /\ OncePlaces(r) \in SUBSET Places(r) /\ OncePlaces(r)' \in SUBSET Places(r)
    BY DEF SentPlaces, OncePlaces
  <2> QED
    BY <2>1, PlacesFinite
<1>2. faults \in Nat
  BY IngestionAssumption DEF TypeOK
<1>3. ASSUME NEW f \in queue, SendBatch(f), Kind[f] = "Socios"
      PROVE  Repeating'
  <2>1. DOMAIN partners' = DOMAIN partners /\ faults' = faults
    <3>1. Import(f, NextBatch(f)) /\ faults' = faults
      BY <1>3 DEF SendBatch
    <3> QED
      BY <1>3, <3>1 DEF Import, UpsertSocios
  <2>2. ASSUME NEW r \in DOMAIN partners
        PROVE  S(r)' <= partners'[r] /\ partners'[r] <= faults * P(r) + O(r)'
    <3>1. PICK n \in Nat : /\ partners'[r] = partners[r] + n
                           /\ S(r)' <= S(r) + n /\ O(r)' = O(r) + n
      BY <1>3, PartnerBatch
    <3>2. S(r) <= partners[r] /\ partners[r] <= faults * P(r) + O(r) /\ partners[r] \in Nat
      BY DEF Repeating, TypeOK
    <3>3. faults * P(r) \in Nat
      BY <1>1, <1>2, OneMore
    <3> HIDE DEF S, O, P
    <3> QED
      BY <1>1, <3>1, <3>2, <3>3
  <2> QED
    BY <2>1, <2>2 DEF Repeating
<1>4. CASE ~(\E f \in queue : SendBatch(f) /\ Kind[f] = "Socios")
  <2>1. partners' = partners
    BY <1>4, PlacesOther
  <2>2. ASSUME NEW r \in DOMAIN partners
        PROVE  S(r)' <= partners[r] /\ partners[r] <= faults' * P(r) + O(r)'
    <3>1. S(r) <= partners[r] /\ partners[r] <= faults * P(r) + O(r) /\ partners[r] \in Nat
      BY DEF Repeating, TypeOK
    <3>2. faults * P(r) \in Nat /\ (faults + 1) * P(r) = faults * P(r) + P(r)
      BY <1>1, <1>2, OneMore
    <3>3. S(r)' <= S(r)
      <4>1. SentPlaces(r)' \subseteq SentPlaces(r)
        BY <1>4, PlacesOther
      <4> QED
        BY <1>1, <4>1, FS_Subset
    <3>4. faults' = faults + 1 \/ (faults' = faults /\ O(r) <= O(r)')
      <4>1. faults' = faults + 1 \/ (faults' = faults /\ OncePlaces(r) \subseteq OncePlaces(r)')
        BY <1>4, PlacesOther
      <4> QED
        BY <1>1, <4>1, FS_Subset
    <3> HIDE DEF S, O, P
    <3> QED
      BY <1>1, <1>2, <3>1, <3>2, <3>3, <3>4
  <2> QED
    BY <2>1, <2>2 DEF Repeating
<1> QED
  BY <1>3, <1>4

-----------------------------------------------------------------------------
(* What holds of an import *)

\* The inductive invariant.
IInv ==
  /\ TypeOK
  /\ Phases
  /\ Noting
  /\ Staging
  /\ Filling
  /\ Embedding
  /\ Growing
  /\ Existing
  /\ Repeating

\* The start.
LEMMA InitInvariant == Init => IInv
<1> SUFFICES ASSUME Init
             PROVE  IInv
  OBVIOUS
<1>1. /\ marks = {} /\ done = {} /\ staging = None /\ queue = {} /\ pos = 0 /\ pc = "off"
      /\ cnaes = {} /\ mains = {} /\ links = {} /\ faults = 0
      /\ companies = [c \in Cnpjs |-> None] /\ vector = [c \in Cnpjs |-> None]
      /\ partners = [r \in RowsOf(OfKind("Socios")) |-> 0]
  BY DEF Init
<1>2. TypeOK /\ Phases
  BY InitTypes, InitPhases
<1>3. Noting /\ Staging /\ Embedding
  BY <1>1 DEF Noting, Staging, Embedding
<1>4. Filling
  <2>1. \A c \in Cnpjs : companies[c] = None
    BY <1>1
  <2>2. Firsts("Estabelecimentos") \cap marks = {}
    BY <1>1
  <2>3. Resumes(companies, Cnpjs, "Estabelecimentos", DataAt, marks, {}, pos)
    BY <2>1, <2>2, ResumesFresh
  <2> QED
    BY <1>1, <2>3 DEF Filling
<1>5. Growing /\ Existing
  BY <1>1 DEF Growing, Existing, Sent, Current
<1>6. Repeating
  <2>1. \A r : SentPlaces(r) = {} /\ OncePlaces(r) = {}
    BY <1>1 DEF SentPlaces, OncePlaces, Through, Sent, Current
  <2>2. \A r : /\ Cardinality(SentPlaces(r)) = 0 /\ Cardinality(OncePlaces(r)) = 0
               /\ Cardinality(Places(r)) \in Nat
    BY <2>1, FS_EmptySet, PlacesFinite
  <2>3. \A r \in DOMAIN partners : partners[r] = 0
    BY <1>1
  <2> QED
    BY <1>1, <2>2, <2>3 DEF Repeating
<1> QED
  BY <1>2, <1>3, <1>4, <1>5, <1>6 DEF IInv

\* Every step.
LEMMA InvariantKept == IInv /\ [Next]_vars => IInv'
  BY TypesKept, PhasesKept, NotingKept, StagingKept, FillingKept, EmbeddingKept, GrowingKept,
     ExistingKept, RepeatingKept DEF IInv

\* It holds of every behaviour.
THEOREM Invariance == Spec => []IInv
  BY InitInvariant, InvariantKept, PTL DEF Spec

\* An import that ends, however often it was cut off, has made the tables of one that was
\* not, for any files: the companies enriched with the last lines of Empresas and Simples,
\* every code, and an embedding of each company's name.
THEOREM ResumingIsComplete == Spec => []ResumedImportIsComplete
<1> DEFINE E == Firsts("Estabelecimentos")
           C == Firsts("Cnaes")
<1>1. ASSUME IInv, pc = "done", ~OutOfOrder
      PROVE  /\ cnaes = {r.code : r \in RowsOf(C)}
             /\ \A c \in Cnpjs : companies[c] = Direct(c)
             /\ mains = MainCodes(RowsOf(E))
             /\ links = Codes(RowsOf(E))
             /\ \A c \in Cnpjs : companies[c] # None => vector[c] = companies[c].name
  <2>1. TypeOK /\ Phases /\ Filling /\ Embedding /\ Growing
    BY <1>1 DEF IInv
  <2>2. E \subseteq done /\ C \subseteq done
    BY <1>1, <2>1, KindsAre DEF Phases, Past
  <2>3. E \subseteq marks /\ present = Files \ Late
    BY <1>1, <2>1, <2>2, OnlyFirsts DEF Ordered, Firsts
  <2>4. present \cap OfKind("Cnaes") = C /\ present \cap OfKind("Estabelecimentos") = E
    BY <2>3 DEF Firsts, OfKind
  <2>5. \A c \in Cnpjs : companies[c] = Direct(c)
    <3>1. \A c \in Cnpjs : companies[c] = Latest(DataAt, E, c)
      <4>1. Resumes(companies, Cnpjs, "Estabelecimentos", DataAt, marks, queue, pos)
        BY <1>1, <2>1 DEF Filling
      <4> QED
        BY <2>3, <4>1, ResumesAll
    <3>2. \A c \in Cnpjs : Latest(DataAt, E, c) = Direct(c)
      <4> SUFFICES ASSUME NEW c \in Cnpjs
                   PROVE  Latest(DataAt, E, c) = Direct(c)
        OBVIOUS
      <4>1. CASE With(E, c) = {}
        BY <4>1 DEF Latest, Direct
      <4>2. CASE With(E, c) # {}
        <5> DEFINE f == Max(With(E, c))
                   i == Max(LinesOf(f, c))
        <5>1. E \in SUBSET Files
          BY DEF Firsts, OfKind
        <5>2. f \in Files /\ i \in Lines(f)
          BY <4>2, <5>1, NewestIs, LinesOfAreNumbers
        <5>3. Newest(E, c) = Rows[f][i] /\ Latest(DataAt, E, c) = DataAt[f][i]
          BY <4>2 DEF Newest, Latest
        <5>4. DataAt[f][i] = DirectData(Rows[f][i].base)
          BY <5>2 DEF DataAt
        <5> HIDE DEF f, i
        <5> QED
          BY <4>2, <5>3, <5>4 DEF Direct
      <4> QED
        BY <4>1, <4>2
    <3> QED
      BY <3>1, <3>2
  <2>6. cnaes = {r.code : r \in RowsOf(C)}
    <3>1. cnaes \subseteq {r.code : r \in RowsOf(C)}
      BY <2>1, <2>4 DEF Growing
    <3>2. ASSUME NEW f \in C, NEW i \in Lines(f)
          PROVE  Rows[f][i].code \in cnaes
      <4>1. f \in OfKind("Cnaes") /\ Sent(f, i)
        BY <2>2 DEF Sent, Firsts
      <4> QED
        BY <2>1, <4>1 DEF Growing
    <3> QED
      BY <3>1, <3>2 DEF RowsOf
  <2>7. mains = MainCodes(RowsOf(E)) /\ links = Codes(RowsOf(E))
    <3>1. mains \subseteq MainCodes(RowsOf(E)) /\ links \subseteq Codes(RowsOf(E))
      BY <2>1, <2>4 DEF Growing
    <3>2. \A r \in RowsOf(E) : MainCodes({r}) \subseteq mains /\ Codes({r}) \subseteq links
      <4>1. ASSUME NEW f \in E, NEW i \in Lines(f)
            PROVE  MainCodes({Rows[f][i]}) \subseteq mains /\ Codes({Rows[f][i]}) \subseteq links
        <5>1. f \in OfKind("Estabelecimentos") /\ Sent(f, i)
          BY <2>2 DEF Sent, Firsts
        <5> QED
          BY <2>1, <5>1 DEF Growing
      <4> QED
        BY <4>1 DEF RowsOf
    <3>3. MainCodes(RowsOf(E)) \subseteq mains /\ Codes(RowsOf(E)) \subseteq links
      BY <3>2, CodesOfEach
    <3> QED
      BY <3>1, <3>3
  <2>8. \A c \in Cnpjs : companies[c] # None => vector[c] = companies[c].name
    BY <1>1, <2>1 DEF Embedding
  <2> QED
    BY <2>5, <2>6, <2>7, <2>8
<1>2. IInv => ResumedImportIsComplete
  BY <1>1 DEF ResumedImportIsComplete
<1> QED
  BY <1>2, Invariance, PTL

\* An import that ends lacks nothing of the first files and of those that are noted, whatever
\* failed and in whatever order the files were imported.
THEOREM EndsWhole == Spec => []NothingIsMissing
<1> DEFINE imported == marks \cup (Files \ Late)
           ests == RowsOf(imported \cap OfKind("Estabelecimentos"))
<1>1. ASSUME IInv, pc = "done"
      PROVE  /\ {r.code : r \in RowsOf(imported \cap OfKind("Cnaes"))} \subseteq cnaes
             /\ MainCodes(ests) \subseteq mains
             /\ Codes(ests) \subseteq links
             /\ \A r \in ests : companies[r.cnpj] # None
             /\ \A c \in Cnpjs : companies[c] # None => vector[c] # None
  <2>1. TypeOK /\ Phases /\ Embedding /\ Growing /\ Existing
    BY <1>1 DEF IInv
  <2>2. \A f \in imported : f \in Files /\ f \in marks \cup done
    <3>1. \A f \in Files \ Late : \E i \in 1..5 : f \in Firsts(Kinds[i])
      BY KindOfFile DEF Firsts, OfKind
    <3>2. \A i \in 1..5 : Firsts(Kinds[i]) \subseteq done
      BY <1>1, <2>1 DEF Phases, Past
    <3> QED
      BY <2>1, <3>1, <3>2 DEF TypeOK
  <2>3. \A f \in imported : \A i \in Lines(f) : Sent(f, i)
    BY <2>2 DEF Sent
  <2> HIDE DEF imported
  <2>4. {r.code : r \in RowsOf(imported \cap OfKind("Cnaes"))} \subseteq cnaes
    BY <2>1, <2>3 DEF Growing, RowsOf
  <2>5. \A r \in ests : /\ MainCodes({r}) \subseteq mains /\ Codes({r}) \subseteq links
                       /\ companies[r.cnpj] # None
    BY <2>1, <2>3 DEF Growing, Existing, RowsOf
  <2>6. MainCodes(ests) \subseteq mains /\ Codes(ests) \subseteq links
    BY <2>5, CodesOfEach
  <2>7. \A c \in Cnpjs : companies[c] # None => vector[c] # None
    BY <1>1, <2>1 DEF Embedding
  <2> QED
    BY <2>4, <2>5, <2>6, <2>7
<1>2. IInv => NothingIsMissing
  BY <1>1 DEF NothingIsMissing
<1> QED
  BY <1>2, Invariance, PTL

\* A partner is in the table for every line of the noted files that names it, and at most
\* once more for each failure, whatever the batches and wherever the program was cut off.
THEOREM PartnersAreCounted == Spec => []PartnersWithinFaults
<1>1. ASSUME IInv, NEW r \in DOMAIN partners
      PROVE  /\ Cardinality(Noted(r)) <= partners[r]
             /\ partners[r] <= (1 + faults) * Cardinality(Places(r))
  <2>1. /\ Cardinality(SentPlaces(r)) <= partners[r] /\ partners[r] \in Nat /\ faults \in Nat
        /\ partners[r] <= faults * Cardinality(Places(r)) + Cardinality(OncePlaces(r))
    BY <1>1, IngestionAssumption DEF IInv, Repeating, TypeOK
  <2>2. /\ SentPlaces(r) \in SUBSET Places(r) /\ Noted(r) \in SUBSET SentPlaces(r)
        /\ OncePlaces(r) \in SUBSET Places(r)
    BY DEF SentPlaces, OncePlaces, Noted, Sent
  <2>3. /\ IsFiniteSet(SentPlaces(r)) /\ Cardinality(SentPlaces(r)) \in Nat
        /\ Cardinality(OncePlaces(r)) \in Nat
        /\ Cardinality(OncePlaces(r)) <= Cardinality(Places(r)) /\ Cardinality(Places(r)) \in Nat
    BY <2>2, PlacesFinite
  <2>4. Cardinality(Noted(r)) \in Nat /\ Cardinality(Noted(r)) <= Cardinality(SentPlaces(r))
    BY <2>2, <2>3, FS_Subset, FS_CardinalityType
  <2>5. /\ faults * Cardinality(Places(r)) \in Nat
        /\ (faults + 1) * Cardinality(Places(r))
             = faults * Cardinality(Places(r)) + Cardinality(Places(r))
    BY <2>1, <2>3, OneMore
  <2>6. 1 + faults = faults + 1
    BY <2>1
  <2> QED
    BY <2>1, <2>3, <2>4, <2>5, <2>6
<1>2. IInv => PartnersWithinFaults
  BY <1>1 DEF PartnersWithinFaults
<1> QED
  BY <1>2, Invariance, PTL

=============================================================================
