------------------------------ MODULE Ingestion ------------------------------
(***************************************************************************)
(* cmd/ingestion: the program that fills the company tables from the files *)
(* of the Receita Federal.                                                 *)
(*                                                                         *)
(* It takes the files of one kind after the other, in batches that are one *)
(* implicit transaction each, and notes a file that is through in a        *)
(* progress file.  Empresas and Simples go to staging tables, from which   *)
(* Estabelecimentos are enriched, and which are dropped after the last     *)
(* file; then every company without an embedding gets one, and the index   *)
(* is built.  Any error ends the program; the operator starts it again,    *)
(* and it skips the files that the progress file names.                    *)
(*                                                                         *)
(* A company is its CNPJ (with its UF), its name and its opcao_simples;    *)
(* its other columns come from the same row as its CNPJ, or from the same  *)
(* staging row as its name.  The map of municipios, which each run loads   *)
(* again, is among them.                                                   *)
(***************************************************************************)
EXTENDS Integers, Sequences, FiniteSets, FiniteSetsExt

CONSTANTS Kind,        \* the files in the order in which os.ReadDir sorts them: Kind[f]
                       \* is the prefix of the directory of file f
          Rows,        \* Rows[f]: its lines
          Late,        \* files that the operator adds after the first start
          Bases,       \* values of cnpj_basico
          Cnpjs,       \* CNPJs
          BatchSize,   \* --batch-size
          EmbedBatch,  \* --embedding-batch
          MaxAttempts, \* maxRetries of callAPI (5)
          MaxFaults,   \* bound: crashes, and reads and writes that fail
          Blank,       \* the empty string
          None

Files == DOMAIN Kind
Kinds == <<"Cnaes", "Empresas", "Simples", "Estabelecimentos", "Socios">>
OfKind(k) == {f \in Files : Kind[f] = k}

\* The kinds whose order matters: a later line replaces what an earlier one made.
Ordered == {"Empresas", "Simples", "Estabelecimentos"}

\* The lines that the Parse and Stream functions hand on: one that is malformed, has too few
\* columns or lacks its key is skipped.  (A read that fails is ReadFails.)
Lines(f) == {i \in DOMAIN Rows[f] : Rows[f][i].well}

\* The column that the table of its kind has a row for, and its lines with one value of it.
Key(f, i) == IF Kind[f] = "Estabelecimentos" THEN Rows[f][i].cnpj ELSE Rows[f][i].base
LinesOf(f, key) == {i \in Lines(f) : Key(f, i) = key}

\* Names of companies, with the one of a company that no line of Empresas names.
Names == {Blank} \cup UNION {{Rows[f][i].name : i \in Lines(f)} : f \in OfKind("Empresas")}

\* What tb_companies has of a company, and the staging tables.
Company == [name : Names, simples : BOOLEAN]
StagingTables == [names : [Bases -> Names \cup {None}], simples : [Bases -> BOOLEAN \cup {None}]]

ASSUME IngestionAssumption ==
  /\ Kind \in Seq({Kinds[i] : i \in DOMAIN Kinds})
  /\ \A f \in Files : Len(Rows[f]) \in Nat /\ DOMAIN Rows[f] = 1..Len(Rows[f])
  /\ \A f \in OfKind("Empresas") : \A i \in Lines(f) : Rows[f][i].base \in Bases
  /\ \A f \in OfKind("Simples") : \A i \in Lines(f) :
       Rows[f][i].base \in Bases /\ Rows[f][i].simples \in BOOLEAN
  /\ \A f \in OfKind("Estabelecimentos") : \A i \in Lines(f) :
       Rows[f][i].base \in Bases /\ Rows[f][i].cnpj \in Cnpjs
  /\ Late \subseteq Files
  /\ BatchSize \in Nat \ {0}
  /\ EmbedBatch \in Nat \ {0}
  /\ MaxAttempts \in Nat \ {0}
  /\ MaxFaults \in Nat
  /\ None \notin Names \cup BOOLEAN \cup Company \cup StagingTables

VARIABLES
  \* The disk
  present,   \* files that are in the directory
  marks,     \* lines of the progress file
  \* PostgreSQL
  staging,   \* [names, simples] of staging_empresas and staging_simples, or None
  cnaes,     \* codes in tb_cnaes
  companies, \* companies[c]: the row of tb_companies, or None
  links,     \* tb_company_cnaes: pairs of CNPJ and code,
  mains,     \* and those with is_primary
  partners,  \* partners[r]: rows of tb_partners that were made of r
  vector,    \* vector[c]: the name that the embedding of c was made of, or None
  indexed,   \* idx_companies_embedding exists
  \* The program
  pc,        \* where main is
  phase,     \* place of the kind in Kinds
  queue,     \* files of the kind that are still to be imported
  pos,       \* last line of the current file that has been sent, or 0
  done,      \* the map progress
  asked,     \* companies whose embeddings are asked for
  tries,     \* failed attempts at it
  \* History
  faults,    \* failures so far
  lost       \* the line of a file whose order matters was not written, or not read

disk == <<present, marks>>
tables == <<staging, cnaes, companies, links, mains, partners>>
locals == <<phase, queue, pos, done, asked, tries>>
vars == <<disk, tables, vector, indexed, pc, locals, faults, lost>>

\* The value of fun after an upsert of values, one for each line of a batch of f, in order.
Upsert(fun, f, values) ==
  [k \in DOMAIN fun |->
     LET at == LinesOf(f, k) \cap DOMAIN values
     IN IF at = {} THEN fun[k] ELSE values[Max(at)]]

\* Well-formed lines of files.
RowsOf(files) == UNION {{Rows[f][i] : i \in Lines(f)} : f \in files}

\* The codes of lines of Estabelecimentos: the main one, which may be missing, and all.
MainCodes(rows) == {<<r.cnpj, r.main>> : r \in {q \in rows : q.main # Blank}}
Codes(rows) == MainCodes(rows) \cup UNION {{r.cnpj} \X r.others : r \in rows}

NoStaging == [names |-> [b \in Bases |-> None], simples |-> [b \in Bases |-> None]]

Init ==
  /\ present = Files \ Late
  /\ marks = {}
  /\ staging = None
  /\ cnaes = {}
  /\ companies = [c \in Cnpjs |-> None]
  /\ links = {}
  /\ mains = {}
  /\ partners = [r \in RowsOf(OfKind("Socios")) |-> 0]
  /\ vector = [c \in Cnpjs |-> None]
  /\ indexed = FALSE
  /\ pc = "off"
  /\ phase = 1 /\ queue = {} /\ pos = 0 /\ done = {} /\ asked = {} /\ tries = 0
  /\ faults = 0
  /\ lost = FALSE

---------------------------------------------------------------------------
(* Batches: lines of file f.                                               *)

UpsertCNAEs(f, batch) ==
  /\ cnaes' = cnaes \cup {Rows[f][i].code : i \in batch}
  /\ UNCHANGED <<staging, companies, links, mains, partners>>

UpsertEmpresas(f, batch) ==
  /\ staging' = [staging EXCEPT
       !.names = Upsert(@, f, [i \in batch |-> Rows[f][i].name])]
  /\ UNCHANGED <<cnaes, companies, links, mains, partners>>

UpsertSimples(f, batch) ==
  /\ staging' = [staging EXCEPT
       !.simples = Upsert(@, f, [i \in batch |-> Rows[f][i].simples])]
  /\ UNCHANGED <<cnaes, companies, links, mains, partners>>

\* fetchStagingData, and the zero value for what it does not find.
Enriched(b) ==
  IF staging.names[b] = None
    THEN [name |-> Blank, simples |-> FALSE]
    ELSE [name |-> staging.names[b], simples |-> staging.simples[b] = TRUE]

\* The embedding of a company that is there stays as it is.
UpsertEstabelecimentos(f, batch) ==
  /\ companies' = Upsert(companies, f, [i \in batch |-> Enriched(Rows[f][i].base)])
  /\ mains' = mains \cup MainCodes({Rows[f][i] : i \in batch})
  /\ links' = links \cup Codes({Rows[f][i] : i \in batch})
  /\ UNCHANGED <<staging, cnaes, partners>>

\* A plain INSERT.
UpsertSocios(f, batch) ==
  /\ partners' = [r \in DOMAIN partners |->
                    partners[r] + Cardinality({i \in batch : Rows[f][i] = r})]
  /\ UNCHANGED <<staging, cnaes, companies, links, mains>>

Import(f, batch) ==
  \/ Kind[f] = "Cnaes" /\ UpsertCNAEs(f, batch)
  \/ Kind[f] = "Empresas" /\ UpsertEmpresas(f, batch)
  \/ Kind[f] = "Simples" /\ UpsertSimples(f, batch)
  \/ Kind[f] = "Estabelecimentos" /\ UpsertEstabelecimentos(f, batch)
  \/ Kind[f] = "Socios" /\ UpsertSocios(f, batch)

---------------------------------------------------------------------------
(* main.                                                                   *)

\* The program is gone.
Ends ==
  /\ pc' = "off"
  /\ phase' = 1 /\ queue' = {} /\ pos' = 0 /\ done' = {} /\ asked' = {} /\ tries' = 0
  /\ UNCHANGED <<disk, tables, vector, indexed, lost>>

\* Mutant of Start: the staging tables are made by the first run only.
StartFirst ==
  /\ pc \in {"off", "done"}
  /\ staging' = IF staging = None /\ marks = {} THEN NoStaging ELSE staging
  /\ done' = marks
  /\ phase' = 1
  /\ pc' = "list"
  /\ UNCHANGED <<disk, cnaes, companies, links, mains, partners, vector, indexed,
                 queue, pos, asked, tries, faults, lost>>

\* Mutant of StartKnowing: each run makes new staging tables.
StartFresh(known) ==
  /\ pc \in {"off", "done"}
  /\ staging' = NoStaging
  /\ done' = known
  /\ phase' = 1
  /\ pc' = "list"
  /\ UNCHANGED <<disk, cnaes, companies, links, mains, partners, vector, indexed,
                 queue, pos, asked, tries>>

\* A run that knows of these files that they are done; CreateStagingTables has IF NOT EXISTS.
StartKnowing(known) ==
  /\ pc \in {"off", "done"}
  /\ staging' = IF staging = None THEN NoStaging ELSE staging
  /\ done' = known
  /\ phase' = 1
  /\ pc' = "list"
  /\ UNCHANGED <<disk, cnaes, companies, links, mains, partners, vector, indexed,
                 queue, pos, asked, tries>>

\* loadProgress reads the progress file, or there is none yet.
Start ==
  /\ StartKnowing(marks)
  /\ UNCHANGED <<faults, lost>>

\* The progress file cannot be opened, which is taken for none, or cannot be read to its
\* end, which is not looked at.  (marks has no order: any part of it may be what was read.)
StartUnread(known) ==
  /\ known # marks
  /\ StartKnowing(known)
  /\ faults < MaxFaults
  /\ faults' = faults + 1
  /\ lost' = (lost \/ \E f \in marks \ known : Kind[f] \in Ordered)

\* Mutant of FindFiles: files of the progress file are imported too.
FindAllFiles ==
  /\ pc = "list"
  /\ queue' = present \cap OfKind(Kinds[phase])
  /\ pos' = 0
  /\ pc' = "files"
  /\ UNCHANGED <<disk, tables, vector, indexed, phase, done, asked, tries, faults, lost>>

\* findFiles, and the skipping of files that are done.
FindFiles ==
  /\ pc = "list"
  /\ queue' = (present \ done) \cap OfKind(Kinds[phase])
  /\ pos' = 0
  /\ pc' = "files"
  /\ UNCHANGED <<disk, tables, vector, indexed, phase, done, asked, tries, faults, lost>>

\* The file that is being imported, and the lines of it that have not been sent.
Current(f) == f \in queue /\ \A g \in queue : f <= g
Left(f) == {i \in Lines(f) : i > pos}

\* Those that are sent next: BatchSize lines, or what is left; a file of Cnaes at once.
NextBatch(f) ==
  {i \in Left(f) : Kind[f] = "Cnaes" \/ Cardinality({j \in Left(f) : j <= i}) <= BatchSize}

\* Mutant of SendBatch: the file is noted with its first batch.
SendBatchAndMark(f) ==
  /\ pc = "files"
  /\ Current(f)
  /\ Left(f) # {}
  /\ Import(f, NextBatch(f))
  /\ pos' = Max(NextBatch(f))
  /\ marks' = marks \cup {f}
  /\ UNCHANGED <<present, vector, indexed, pc, phase, queue, done, asked, tries, faults, lost>>

\* streamAndBatch and sendBatch: all rows of the batch or none.
SendBatch(f) ==
  /\ pc = "files"
  /\ Current(f)
  /\ Left(f) # {}
  /\ Import(f, NextBatch(f))
  /\ pos' = Max(NextBatch(f))
  /\ UNCHANGED <<disk, vector, indexed, pc, phase, queue, done, asked, tries, faults, lost>>

\* The reader has not come to the end of the current file: there are lines that have not
\* been sent, or a batch was full with the last one.
Unfinished(f) ==
  \/ Left(f) # {}
  \/ pos = 0
  \/ Kind[f] # "Cnaes" /\ Cardinality(Lines(f)) % BatchSize = 0

\* A read fails, of the current file or of the municipios, which are loaded before Empresas.
\* The error is skipped as a malformed line is, the next read has the same error, and
\* so on: the program reads for ever.
ReadFails ==
  /\ \/ pc = "files" /\ \E f \in queue : Current(f) /\ Unfinished(f)
     \/ pc = "list" /\ Kinds[phase] = "Empresas"
  /\ faults < MaxFaults
  /\ faults' = faults + 1
  /\ pc' = "reads"
  /\ UNCHANGED <<disk, tables, vector, indexed, locals, lost>>

FileIsThrough(f) ==
  /\ pc = "files"
  /\ Current(f)
  /\ Left(f) = {}
  /\ done' = done \cup {f}
  /\ queue' = queue \ {f}
  /\ pos' = 0
  /\ UNCHANGED <<present, tables, vector, indexed, pc, phase, asked, tries>>

MarkDone(f) ==
  /\ FileIsThrough(f)
  /\ marks' = marks \cup {f}
  /\ UNCHANGED <<faults, lost>>

\* The progress file cannot be written: a warning.
MarkFails(f) ==
  /\ FileIsThrough(f)
  /\ faults < MaxFaults
  /\ faults' = faults + 1
  /\ lost' = (lost \/ Kind[f] \in Ordered)
  /\ UNCHANGED marks

NextPhase ==
  /\ pc = "files"
  /\ queue = {}
  /\ IF phase < Len(Kinds) THEN phase' = phase + 1 /\ pc' = "list"
                           ELSE phase' = phase /\ pc' = "drop"
  /\ UNCHANGED <<disk, tables, vector, indexed, queue, pos, done, asked, tries, faults, lost>>

DropStagingTables ==
  /\ pc = "drop"
  /\ staging' = None
  /\ pc' = "embed"
  /\ UNCHANGED <<disk, cnaes, companies, links, mains, partners, vector, indexed, locals,
                 faults, lost>>

\* A failed DROP is a warning.
DropFails ==
  /\ pc = "drop"
  /\ faults < MaxFaults
  /\ faults' = faults + 1
  /\ pc' = "embed"
  /\ UNCHANGED <<disk, tables, vector, indexed, locals, lost>>

---------------------------------------------------------------------------
(* Embeddings: RunAll.                                                     *)

\* Mutant of FetchPending: companies that have an embedding are taken too.
FetchAny ==
  /\ pc = "embed"
  /\ LET pending == {c \in Cnpjs : companies[c] # None}
     IN IF pending = {}
          THEN pc' = "index" /\ UNCHANGED <<asked, tries>>
          ELSE /\ asked' \in kSubset(Min({EmbedBatch, Cardinality(pending)}), pending)
               /\ tries' = 0
               /\ pc' = "call"
  /\ UNCHANGED <<disk, tables, vector, indexed, phase, queue, pos, done, faults, lost>>

\* A LIMIT without an order.
FetchPending ==
  /\ pc = "embed"
  /\ LET pending == {c \in Cnpjs : companies[c] # None /\ vector[c] = None}
     IN IF pending = {}
          THEN pc' = "index" /\ UNCHANGED <<asked, tries>>
          ELSE /\ asked' \in kSubset(Min({EmbedBatch, Cardinality(pending)}), pending)
               /\ tries' = 0
               /\ pc' = "call"
  /\ UNCHANGED <<disk, tables, vector, indexed, phase, queue, pos, done, faults, lost>>

\* An attempt of callAPI fails; the last one ends the program.
CallFails ==
  /\ pc = "call"
  /\ \/ /\ tries + 1 < MaxAttempts
        /\ tries' = tries + 1
        /\ UNCHANGED <<disk, tables, vector, indexed, pc, phase, queue, pos, done, asked, lost>>
     \/ tries + 1 = MaxAttempts /\ Ends
  /\ UNCHANGED faults

\* The answer has vectors for some of the texts; saveEmbeddings skips the others.
CallAnswers(some) ==
  /\ pc = "call"
  /\ vector' = [c \in Cnpjs |-> IF c \in some THEN companies[c].name ELSE vector[c]]
  /\ asked' = {}
  /\ tries' = 0
  /\ pc' = "embed"
  /\ UNCHANGED <<disk, tables, indexed, phase, queue, pos, done, faults, lost>>

CreateHNSWIndex ==
  /\ pc = "index"
  /\ indexed' = TRUE
  /\ pc' = "done"
  /\ UNCHANGED <<disk, tables, vector, locals, faults, lost>>

---------------------------------------------------------------------------
\* The program is stopped, or ends with log.Fatalf because a statement failed.
Crash ==
  /\ pc \notin {"off", "done", "reads"}
  /\ Ends
  /\ faults < MaxFaults
  /\ faults' = faults + 1

\* The operator stops a program that reads for ever.
Interrupt ==
  /\ pc = "reads"
  /\ Ends
  /\ UNCHANGED faults

\* The operator adds a file.
AddFile(f) ==
  /\ f \notin present
  /\ present' = present \cup {f}
  /\ UNCHANGED <<marks, tables, vector, indexed, pc, locals, faults, lost>>

Step ==
  \/ FindFiles
  \/ \E f \in queue : SendBatch(f) \/ MarkDone(f) \/ MarkFails(f)
  \/ NextPhase
  \/ DropStagingTables
  \/ DropFails
  \/ FetchPending
  \/ CallFails
  \/ \E some \in SUBSET asked : CallAnswers(some)
  \/ CreateHNSWIndex

Next ==
  \/ Start
  \/ \E known \in SUBSET marks : StartUnread(known)
  \/ Step
  \/ ReadFails
  \/ Crash
  \/ Interrupt
  \/ \E f \in Late : AddFile(f)

Spec == Init /\ [][Next]_vars

\* The program goes on, an operator starts it again after an error, and the embedding
\* service gives a whole answer now and then.
FairSpec ==
  /\ Spec
  /\ WF_vars(Step)
  /\ WF_vars(pc = "off" /\ Start)
  /\ SF_vars(CallAnswers(asked))

---------------------------------------------------------------------------
(* Properties.                                                             *)

\* Types; the staging tables are there while files are imported, only companies have
\* embeddings and codes, and a file is noted, or known to be through, when it was there.
TypeOK ==
  /\ marks \cup done \subseteq present /\ present \subseteq Files
  /\ staging \in StagingTables \cup {None}
  /\ pc \in {"list", "files"} => staging # None
  /\ companies \in [Cnpjs -> Company \cup {None}]
  /\ mains \subseteq links
  /\ \A l \in links : l[1] \in Cnpjs /\ companies[l[1]] # None
  /\ partners \in [RowsOf(OfKind("Socios")) -> Nat]
  /\ vector \in [Cnpjs -> Names \cup {None}]
  /\ \A c \in Cnpjs : vector[c] # None => companies[c] # None
  /\ indexed \in BOOLEAN
  /\ pc \in {"off", "list", "files", "reads", "drop", "embed", "call", "index", "done"}
  /\ phase \in 1..Len(Kinds)
  /\ queue \subseteq present \cap OfKind(Kinds[phase])
  /\ queue # {} => pc \in {"files", "reads"}
  /\ pos \in Nat /\ \A f \in queue : Current(f) => pos \in {0} \cup Lines(f)
  /\ \A c \in asked : companies[c] # None /\ vector[c] = None
  /\ asked \subseteq Cnpjs /\ (asked # {} => pc = "call")
  /\ tries \in 0..(MaxAttempts - 1)
  /\ faults \in 0..MaxFaults
  /\ lost \in BOOLEAN

\* The files of a kind that are there at the first start.
Firsts(k) == OfKind(k) \ Late

\* Those of files that have a line with key, and the last such line of them.
With(files, key) == {f \in files : LinesOf(f, key) # {}}
Newest(files, key) ==
  LET f == Max(With(files, key))
  IN Rows[f][Max(LinesOf(f, key))]

\* What one undisturbed pass over the first files makes of c: its last line, with the
\* last line of Empresas and of Simples that have its base.
DirectData(b) ==
  IF With(Firsts("Empresas"), b) = {}
    THEN [name |-> Blank, simples |-> FALSE]
    ELSE [name |-> Newest(Firsts("Empresas"), b).name,
          simples |-> With(Firsts("Simples"), b) # {} /\ Newest(Firsts("Simples"), b).simples]
Direct(c) ==
  IF With(Firsts("Estabelecimentos"), c) = {} THEN None
  ELSE DirectData(Newest(Firsts("Estabelecimentos"), c).base)

\* A run may import files out of order, an older Empresas over a newer one, or
\* Estabelecimentos when the staging tables have been dropped: files that are added later,
\* and files that are imported again because their line was not written or not read.
OutOfOrder == lost \/ present \cap Late # {}

\* An import that was cut off any number of times ends with the tables of one that was
\* not: nothing that the progress file names is missing, and nothing is enriched from
\* staging tables that a crash left empty.  Its vectors are those of the names it ends
\* with.  (main's phases, progress file and staging tables; it does not hold with
\* late files, nor when the line of such a file could not be written or read.)
ResumedImportIsComplete ==
  pc = "done" /\ ~OutOfOrder =>
    /\ cnaes = {r.code : r \in RowsOf(Firsts("Cnaes"))}
    /\ \A c \in Cnpjs : companies[c] = Direct(c)
    /\ mains = MainCodes(RowsOf(Firsts("Estabelecimentos")))
    /\ links = Codes(RowsOf(Firsts("Estabelecimentos")))
    /\ \A c \in Cnpjs : companies[c] # None => vector[c] = companies[c].name

\* Whatever failed, and in whatever order files were imported, an import that ends lacks
\* nothing of the first files or of those that are noted: no CNAE, no company, no code of
\* one, and no company without an embedding.  (The order of sendBatch and markDone, and
\* loadProgress: a file is skipped by a run only if all its lines were sent before.)
NothingIsMissing ==
  pc = "done" =>
    LET imported == marks \cup (Files \ Late)
        ests == RowsOf(imported \cap OfKind("Estabelecimentos"))
    IN /\ {r.code : r \in RowsOf(imported \cap OfKind("Cnaes"))} \subseteq cnaes
       /\ MainCodes(ests) \subseteq mains
       /\ Codes(ests) \subseteq links
       /\ \A r \in ests : companies[r.cnpj] # None
       /\ \A c \in Cnpjs : companies[c] # None => vector[c] # None

\* The lines of Socios that say r, and those in files that are noted.
Places(r) == UNION {{f} \X {i \in Lines(f) : Rows[f][i] = r} : f \in OfKind("Socios")}
Noted(r) == {p \in Places(r) : p[1] \in marks}

\* UpsertSocios inserts: a partner is in the table for every line of a file that is
\* noted, and no more often than the import of its files was repeated, which takes a
\* failure for each repetition.
PartnersWithinFaults ==
  \A r \in DOMAIN partners :
    /\ Cardinality(Noted(r)) <= partners[r]
    /\ partners[r] <= (1 + faults) * Cardinality(Places(r))

\* A run ends with every company embedded and the index built, after any failures that
\* end the program and any line that is not written or read: no company is fetched for ever,
\* and no file is in the way.  But one failure holds the program for ever, unless the
\* operator sees it: that of reading a file.
EveryImportEnds == []<>(pc = "done" /\ indexed) \/ <>[](pc = "reads")
=============================================================================
