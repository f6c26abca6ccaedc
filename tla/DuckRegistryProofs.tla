------------------------- MODULE DuckRegistryProofs -------------------------
(***************************************************************************)
(* Proofs about DuckRegistry, for every set of instances, tables, columns  *)
(* and calls.                                                              *)
(*                                                                         *)
(*   TypeCorrect        Spec => []TypeOK                                   *)
(*   OnlyCreates        Spec => []OnlyCreatesPersist                       *)
(*                      in every deployment, with every fault              *)
(*   CreatedPersist     Spec => []CreatedTablesPersist                     *)
(*   CatalogImplemented Spec => ImplementsCatalog                          *)
(*                      when loads do not fail, whatever provisioners race *)
(*   OpenedAgree        Spec => []OpenedTablesAgree                        *)
(*   ListingsGrow       Spec => ListedTablesStay                           *)
(*                      when also one provisioner runs at a time           *)
(*   UnreadableMidSave  Spec => []UnreadableOnlyMidSave                    *)
(*                      when also no process dies and no save fails        *)
(***************************************************************************)
EXTENDS DuckRegistry, SchemaRulesProofs

Creating(i) == pc[i] \in {"saving", "writing", "written"}

(* Between register() and its return, create_table holds the entry it is
   about to save: TypeOK is inductive only with this. *)
CallInv ==
  \A i \in Instances : Creating(i) =>
    call[i] \in CreateCalls /\ call[i].table \in DOMAIN registry[i]

TypeInv == TypeOK /\ CallInv

-----------------------------------------------------------------------------
(* Dict assignment keeps a registry a registry. *)
LEMMA PutIsRegistry ==
  ASSUME NEW f, NEW t \in Tables, NEW e \in Entry, IsRegistry(f)
  PROVE  IsRegistry(Put(f, t, e)) /\ DOMAIN Put(f, t, e) = DOMAIN f \cup {t}
BY DEF IsRegistry, Put

(* The empty registry is one. *)
LEMMA NoTablesIsRegistry == IsRegistry(NoTables) /\ DOMAIN NoTables = {}
BY DEF IsRegistry, NoTables

(* register() keeps a registry a registry, with the table in it. *)
LEMMA RegisterIsRegistry ==
  ASSUME NEW reg, NEW t \in Tables, NEW decl \in Entry, IsRegistry(reg)
  PROVE  IsRegistry(Register(reg, t, decl)) /\ t \in DOMAIN Register(reg, t, decl)
<1>1. CASE Changes(reg, t, decl)
  <2>1. Register(reg, t, decl) = Put(reg, t, decl)
    BY <1>1 DEF Register
  <2>2. IsRegistry(Put(reg, t, decl))
    BY PutIsRegistry
  <2>3. t \in DOMAIN Put(reg, t, decl)
    BY DEF Put
  <2> QED BY <2>1, <2>2, <2>3
<1>2. CASE ~ Changes(reg, t, decl)
  BY <1>2 DEF Register, Changes
<1> QED BY <1>1, <1>2

(* The parts of a call. *)
LEMMA CallParts ==
  /\ \A c \in CreateCalls \cup RegisterCalls : c.table \in Tables /\ c.decl \in Entry
  /\ \A c \in CreateCalls \cup RegisterCalls :
        c = [table |-> c.table, decl |-> c.decl]
BY CallsAssumption DEF Calls

(* What a load returns is a registry. *)
LEMMA LoadsAreRegistries ==
  ASSUME TypeOK, NEW loaded \in Loads
  PROVE  IsRegistry(loaded)
BY NoTablesIsRegistry DEF Loads, TypeOK

(* The file stays a file whatever is written into it. *)
FileOK(f) ==
  /\ f = File(f.state, f.tables) /\ IsRegistry(f.tables)
  /\ f.state \in {"absent", "empty", "garbled", "legacy", "current"}

LEMMA FileStates ==
  ASSUME FileOK(file)
  PROVE  /\ FileOK(Truncated)
         /\ \A at : \A f \in Abandoned(at) : FileOK(f)
         /\ \A reg : IsRegistry(reg) => \A f \in Written(reg) : FileOK(f)
         /\ FileOK(Absent)
         /\ \A reg : IsRegistry(reg) => FileOK(Legacy(reg))
BY NoTablesIsRegistry
   DEF FileOK, File, Truncated, Abandoned, Written, Empty, Garbled, Current,
       Absent, Legacy

-----------------------------------------------------------------------------
(* The first state has the right types, and no call in progress. *)
LEMMA TypeInit == Init => TypeInv
<1> SUFFICES ASSUME Init PROVE TypeInv
  OBVIOUS
<1>1. FileOK(file)
  BY LegacyAssumption, NoTablesIsRegistry
     DEF Init, FileOK, File, Absent, Legacy
<1>2. TypeOK
  BY <1>1, NoTablesIsRegistry DEF Init, TypeOK, FileOK
<1>3. CallInv
  BY DEF Init, CallInv, Creating
<1> QED BY <1>2, <1>3 DEF TypeInv

(* Every step keeps the types, action by action. *)
LEMMA TypeStep == TypeInv /\ [Next]_vars => TypeInv'
<1> SUFFICES ASSUME TypeInv, [Next]_vars PROVE TypeInv'
  OBVIOUS
<1> USE DEF TypeInv
<1>0. FileOK(file)
  BY DEF TypeOK, FileOK
<1>1. ASSUME NEW i \in Instances, Open(i) PROVE TypeInv'
  <2>1. PICK loaded \in Loads :
          /\ registry' = [registry EXCEPT ![i] = loaded]
          /\ meta' = [meta EXCEPT ![i] = loaded]
          /\ opened' = [opened EXCEPT ![i] = loaded]
    BY <1>1 DEF Open
  <2>2. IsRegistry(loaded)
    BY LoadsAreRegistries
  <2>3. TypeOK'
    BY <1>1, <2>1, <2>2 DEF Open, TypeOK, fileVars
  <2>4. CallInv'
    BY <1>1, <2>1 DEF Open, CallInv, Creating, TypeOK
  <2> QED BY <2>3, <2>4
<1>2. ASSUME NEW i \in Instances, Exit(i) PROVE TypeInv'
  <2>1. FileOK(file)'
    BY <1>0, <1>2, FileStates DEF Exit, FileOK
  <2>2. TypeOK'
    BY <1>2, <2>1, NoTablesIsRegistry DEF Exit, TypeOK, FileOK
  <2>3. CallInv'
    BY <1>2 DEF Exit, CallInv, Creating, TypeOK
  <2> QED BY <2>2, <2>3
<1>3. ASSUME NEW i \in Instances, NEW c \in RegisterCalls, RegisterTable(i, c)
      PROVE  TypeInv'
  <2> DEFINE reg == Register(registry[i], c.table, c.decl)
  <2>1. c.table \in Tables /\ c.decl \in Entry
    BY CallParts
  <2>2. IsRegistry(reg) /\ c.table \in DOMAIN reg
    BY <2>1, RegisterIsRegistry DEF TypeOK
  <2>3. reg[c.table] \in Entry
    BY <2>2 DEF IsRegistry
  <2>4. IsRegistry(Put(meta[i], c.table, reg[c.table]))
    BY <2>1, <2>3, PutIsRegistry DEF TypeOK
  <2>5. TypeOK'
    BY <1>3, <2>4 DEF RegisterTable, TypeOK, fileVars
  <2>6. CallInv'
    BY <1>3 DEF RegisterTable, CallInv, Creating
  <2> QED BY <2>5, <2>6
<1>4. ASSUME NEW i \in Instances, NEW c \in CreateCalls, BeginCreate(i, c)
      PROVE  TypeInv'
  <2>1. PICK loaded \in Loads :
          registry' = [registry EXCEPT ![i] = Register(loaded, c.table, c.decl)]
    BY <1>4 DEF BeginCreate
  <2>2. c.table \in Tables /\ c.decl \in Entry
    BY CallParts
  <2>3. /\ IsRegistry(Register(loaded, c.table, c.decl))
        /\ c.table \in DOMAIN Register(loaded, c.table, c.decl)
    BY <2>2, LoadsAreRegistries, RegisterIsRegistry
  <2>4. TypeOK'
    BY <1>4, <2>1, <2>3 DEF BeginCreate, AloneIfFirst, TypeOK, fileVars
  <2>5. CallInv'
    BY <1>4, <2>1, <2>3 DEF BeginCreate, CallInv, Creating, TypeOK
  <2> QED BY <2>4, <2>5
<1>5. ASSUME NEW i \in Instances, NEW c \in CreateCalls, RefuseCreate(i, c)
      PROVE  TypeInv'
  <2>1. PICK loaded \in Loads : registry' = [registry EXCEPT ![i] = loaded]
    BY <1>5 DEF RefuseCreate
  <2>2. TypeOK'
    BY <1>5, <2>1, LoadsAreRegistries DEF RefuseCreate, TypeOK, fileVars
  <2>3. CallInv'
    BY <1>5, <2>1 DEF RefuseCreate, CallInv, Creating, TypeOK
  <2> QED BY <2>2, <2>3
<1>6. ASSUME NEW i \in Instances, OpenStream(i) PROVE TypeInv'
  <2>1. FileOK(file)'
    BY <1>0, <1>6, FileStates DEF OpenStream, FileOK
  <2>2. TypeOK'
    BY <1>6, <2>1 DEF OpenStream, TypeOK, FileOK
  <2>3. CallInv'
    BY <1>6 DEF OpenStream, CallInv, Creating, TypeOK
  <2> QED BY <2>2, <2>3
<1>7. ASSUME NEW i \in Instances, WriteStream(i) PROVE TypeInv'
  <2>1. FileOK(file)'
    BY <1>0, <1>7, FileStates DEF WriteStream, FileOK, TypeOK
  <2>2. TypeOK'
    BY <1>7, <2>1 DEF WriteStream, TypeOK, FileOK
  <2>3. CallInv'
    BY <1>7 DEF WriteStream, CallInv, Creating, TypeOK
  <2> QED BY <2>2, <2>3
<1>8. ASSUME NEW i \in Instances, SaveFails(i) PROVE TypeInv'
  <2>1. FileOK(file)'
    BY <1>0, <1>8, FileStates DEF SaveFails, FileOK
  <2>2. TypeOK'
    BY <1>8, <2>1 DEF SaveFails, TypeOK, FileOK
  <2>3. CallInv'
    BY <1>8 DEF SaveFails, CallInv, Creating, TypeOK
  <2> QED BY <2>2, <2>3
<1>9. ASSUME NEW i \in Instances, CreateReturns(i) PROVE TypeInv'
  <2> DEFINE t == call[i].table
  <2>1. call[i] \in CreateCalls /\ t \in DOMAIN registry[i]
    BY <1>9 DEF CreateReturns, CallInv, Creating
  <2>2. t \in Tables /\ registry[i][t] \in Entry
    BY <2>1 DEF TypeOK, IsRegistry
  <2>3. /\ IsRegistry(Put(meta[i], t, registry[i][t]))
        /\ IsRegistry(Put(created, t, registry[i][t]))
    BY <2>2, PutIsRegistry DEF TypeOK
  <2>4. TypeOK'
    BY <1>9, <2>3 DEF CreateReturns, TypeOK, fileVars
  <2>5. CallInv'
    BY <1>9 DEF CreateReturns, CallInv, Creating, TypeOK
  <2> QED BY <2>4, <2>5
<1>10. ASSUME ListTables PROVE TypeInv'
  <2>1. \A loaded \in Loads : DOMAIN loaded \subseteq Tables
    BY LoadsAreRegistries DEF IsRegistry
  <2>2. listed' \in [ok : BOOLEAN, names : SUBSET Tables]
    <3>1. CASE \E loaded \in Loads :
                 listed' = [ok |-> TRUE, names |-> DOMAIN loaded]
      BY <3>1, <2>1
    <3>2. CASE listed' = [listed EXCEPT !.ok = FALSE]
      BY <3>2 DEF TypeOK
    <3> QED BY <1>10, <3>1, <3>2 DEF ListTables
  <2>3. UNCHANGED <<alone, created>> /\ UNCHANGED fileVars /\ UNCHANGED instanceVars
    BY <1>10 DEF ListTables
  <2>4. TypeOK'
    BY <2>2, <2>3 DEF TypeOK, fileVars, instanceVars
  <2>5. CallInv'
    BY <1>10 DEF ListTables, CallInv, Creating, instanceVars
  <2> QED BY <2>4, <2>5
<1>11. ASSUME Migrate PROVE TypeInv'
  <2> DEFINE MigratorOK(m) ==
        /\ m = [pc |-> m.pc, tables |-> m.tables]
        /\ m.pc \in {"idle", "saving", "writing"} /\ IsRegistry(m.tables)
  <2>1. FileOK(file)' /\ MigratorOK(migrator)'
    <3>1. CASE MigrateRead
      BY <1>0, <3>1 DEF MigrateRead, TypeOK, FileOK
    <3>2. CASE MigrateOpen
      <4>1. FileOK(file)'
        BY <1>0, <3>2, FileStates DEF MigrateOpen, FileOK
      <4> QED BY <3>2, <4>1 DEF MigrateOpen, TypeOK
    <3>3. CASE MigrateWrite
      <4>1. FileOK(file)'
        BY <1>0, <3>3, FileStates DEF MigrateWrite, FileOK, TypeOK
      <4> QED BY <3>3, <4>1, NoTablesIsRegistry DEF MigrateWrite
    <3>4. CASE MigrateDies
      <4>1. FileOK(file)'
        BY <1>0, <3>4, FileStates DEF MigrateDies, FileOK
      <4> QED BY <3>4, <4>1, NoTablesIsRegistry DEF MigrateDies
    <3> QED BY <1>11, <3>1, <3>2, <3>3, <3>4 DEF Migrate
  <2>3. /\ UNCHANGED <<created, listed>> /\ UNCHANGED instanceVars
        /\ alone' \in {alone, {}}
    BY <1>11 DEF Migrate, MigrateRead, MigrateOpen, MigrateWrite, MigrateDies
  <2>4. TypeOK'
    BY <2>1, <2>3 DEF TypeOK, FileOK, instanceVars
  <2>5. CallInv'
    BY <2>3 DEF CallInv, Creating, instanceVars
  <2> QED BY <2>4, <2>5
<1>12. CASE UNCHANGED vars
  BY <1>12 DEF vars, TypeOK, CallInv, Creating
<1> QED
  BY <1>1, <1>2, <1>3, <1>4, <1>5, <1>6, <1>7, <1>8, <1>9, <1>10, <1>11, <1>12
     DEF Next, CreateStep

(* TypeOK holds in every deployment. *)
LEMMA TypeInvariant == Spec => []TypeInv
BY TypeInit, TypeStep, PTL DEF Spec

THEOREM TypeCorrect == Spec => []TypeOK
<1>1. TypeInv => TypeOK
  BY DEF TypeInv
<1> QED BY <1>1, TypeInvariant, PTL

-----------------------------------------------------------------------------
(***************************************************************************)
(* Only create_table reaches the file.  Inductive: all that may ever be    *)
(* written, each _registry and what a migration has read, holds create     *)
(* declarations only; _table_meta may hold others and is never written.    *)
(***************************************************************************)
Declared(f) ==
  \A t \in DOMAIN f :
    [table |-> t, decl |-> f[t]] \in CreateCalls /\ Prepared(f[t])

DeclaredInv ==
  /\ Declared(file.tables)
  /\ Declared(migrator.tables)
  /\ Declared(created)
  /\ \A i \in Instances : Declared(registry[i])

(* The empty registry, a load and a registration hold create declarations. *)
LEMMA DeclaredRegistries ==
  /\ Declared(NoTables)
  /\ DeclaredInv => \A loaded \in Loads : Declared(loaded)
  /\ \A reg : \A c \in CreateCalls :
       Declared(reg) /\ Prepared(c.decl) => Declared(Register(reg, c.table, c.decl))
<1>1. Declared(NoTables)
  BY NoTablesIsRegistry DEF Declared
<1>2. DeclaredInv => \A loaded \in Loads : Declared(loaded)
  BY <1>1 DEF DeclaredInv, Loads
<1>3. ASSUME NEW reg, NEW c \in CreateCalls, Declared(reg), Prepared(c.decl)
      PROVE  Declared(Register(reg, c.table, c.decl))
  <2>1. [table |-> c.table, decl |-> c.decl] \in CreateCalls
    BY CallParts
  <2>2. Declared(Put(reg, c.table, c.decl))
    BY <1>3, <2>1 DEF Declared, Put
  <2> QED BY <1>3, <2>2 DEF Register
<1> QED BY <1>1, <1>2, <1>3

(* What a writer leaves in the file holds create declarations. *)
LEMMA DeclaredFiles ==
  ASSUME Declared(file.tables)
  PROVE  /\ Declared(Truncated.tables)
         /\ \A at : \A f \in Abandoned(at) : Declared(f.tables)
         /\ \A reg : Declared(reg) => \A f \in Written(reg) : Declared(f.tables)
BY DeclaredRegistries
   DEF File, Truncated, Abandoned, Written, Empty, Garbled, Current

LEMMA DeclaredInit == Init => DeclaredInv
<1> SUFFICES ASSUME Init PROVE DeclaredInv
  OBVIOUS
<1>1. Declared(file.tables)
  BY LegacyAssumption, DeclaredRegistries DEF Init, Declared, File, Absent, Legacy
<1> QED BY <1>1, DeclaredRegistries DEF Init, DeclaredInv

LEMMA DeclaredStep == TypeInv /\ DeclaredInv /\ [Next]_vars => DeclaredInv'
<1> SUFFICES ASSUME TypeInv, DeclaredInv, [Next]_vars PROVE DeclaredInv'
  OBVIOUS
<1> USE DEF DeclaredInv
<1>1. ASSUME NEW i \in Instances, Open(i) PROVE DeclaredInv'
  BY <1>1, DeclaredRegistries DEF Open, fileVars, TypeInv, TypeOK
<1>2. ASSUME NEW i \in Instances, Exit(i) PROVE DeclaredInv'
  BY <1>2, DeclaredRegistries, DeclaredFiles DEF Exit, TypeInv, TypeOK
<1>3. ASSUME NEW i \in Instances, NEW c \in RegisterCalls, RegisterTable(i, c)
      PROVE  DeclaredInv'
  BY <1>3 DEF RegisterTable, fileVars
<1>4. ASSUME NEW i \in Instances, NEW c \in CreateCalls, BeginCreate(i, c)
      PROVE  DeclaredInv'
  <2>1. PICK loaded \in Loads :
          registry' = [registry EXCEPT ![i] = Register(loaded, c.table, c.decl)]
    BY <1>4 DEF BeginCreate
  <2>2. Declared(Register(loaded, c.table, c.decl))
    BY <1>4, DeclaredRegistries DEF BeginCreate
  <2> QED BY <1>4, <2>1, <2>2 DEF BeginCreate, fileVars, TypeInv, TypeOK
<1>5. ASSUME NEW i \in Instances, NEW c \in CreateCalls, RefuseCreate(i, c)
      PROVE  DeclaredInv'
  BY <1>5, DeclaredRegistries DEF RefuseCreate, fileVars, TypeInv, TypeOK
<1>6. ASSUME NEW i \in Instances, OpenStream(i) \/ WriteStream(i) \/ SaveFails(i)
      PROVE  DeclaredInv'
  BY <1>6, DeclaredFiles DEF OpenStream, WriteStream, SaveFails
<1>7. ASSUME NEW i \in Instances, CreateReturns(i) PROVE DeclaredInv'
  <2> DEFINE t == call[i].table
  <2>1. t \in DOMAIN registry[i]
    BY <1>7 DEF CreateReturns, TypeInv, CallInv, Creating
  <2>2. Declared(Put(created, t, registry[i][t]))
    BY <2>1 DEF Declared, Put
  <2> QED BY <1>7, <2>2 DEF CreateReturns, fileVars
<1>8. ASSUME ListTables PROVE DeclaredInv'
  BY <1>8 DEF ListTables, fileVars, instanceVars
<1>9. ASSUME Migrate PROVE DeclaredInv'
  <2>1. CASE MigrateRead
    BY <2>1 DEF MigrateRead, instanceVars
  <2>2. CASE MigrateOpen \/ MigrateWrite \/ MigrateDies
    BY <2>2, DeclaredFiles, DeclaredRegistries
       DEF MigrateOpen, MigrateWrite, MigrateDies, instanceVars, TypeInv, TypeOK
  <2> QED BY <1>9, <2>1, <2>2 DEF Migrate
<1>10. CASE UNCHANGED vars
  BY <1>10 DEF vars, Declared
<1> QED
  BY <1>1, <1>2, <1>3, <1>4, <1>5, <1>6, <1>7, <1>8, <1>9, <1>10
     DEF Next, CreateStep

LEMMA DeclaredInvariant == Spec => [](TypeInv /\ DeclaredInv)
<1>1. Init => TypeInv /\ DeclaredInv
  BY TypeInit, DeclaredInit
<1>2. TypeInv /\ DeclaredInv /\ [Next]_vars => (TypeInv /\ DeclaredInv)'
  BY TypeStep, DeclaredStep
<1> QED BY <1>1, <1>2, PTL DEF Spec

(* In every deployment, with every race and every fault, the file holds only
   what some create_table call declared: register_table never reaches it. *)
THEOREM OnlyCreates == Spec => []OnlyCreatesPersist
<1>1. DeclaredInv => OnlyCreatesPersist
  BY DEF DeclaredInv, Declared, OnlyCreatesPersist
<1> QED BY <1>1, DeclaredInvariant, PTL

-----------------------------------------------------------------------------
(***************************************************************************)
(* No created table is lost while loads do not fail.  CreatedTablesPersist *)
(* alone is not inductive: while the file is truncated its contents live   *)
(* only in the registries that are about to be written, by instances in    *)
(* create_table or by a migration.  There may be several, and each of them *)
(* has loaded what was created before it began.  What is created while     *)
(* they run is created by a call that overlaps one of them, and only a     *)
(* call that is alone adds to `created'.                                   *)
(***************************************************************************)
Keeps(f) ==
  \A t \in DOMAIN created : t \in DOMAIN f /\ Serves(f[t], created[t])

AloneInv ==
  \A i \in alone :
    /\ Creating(i) /\ migrator.pc = "idle"
    /\ \A j \in Instances : Creating(j) => j = i
    /\ pc[i] = "written" /\ Readable => file.tables = registry[i]

PersistInv ==
  /\ AloneInv
  /\ Readable => Keeps(file.tables)
  /\ \A i \in Instances : Creating(i) => Keeps(registry[i])
  /\ migrator.pc # "idle" => Keeps(migrator.tables)

(* A load that returns is of a file that can be read, and of all of it. *)
LEMMA LoadsAreTheFile ==
  ASSUME ~ ReadFaults, NEW loaded \in Loads
  PROVE  loaded = file.tables /\ Readable
BY DEF Loads, Readable

(* Registering one more declaration keeps the created tables. *)
LEMMA RegisterKeeps ==
  ASSUME NEW reg, IsRegistry(reg), Keeps(reg), NEW c \in CreateCalls,
         ~ Conflicts(reg, c.table, c.decl)
  PROVE  Keeps(Register(reg, c.table, c.decl))
<1> DEFINE after == Register(reg, c.table, c.decl)
<1>1. /\ DOMAIN after = DOMAIN reg \cup {c.table}
      /\ \A t \in DOMAIN reg : Serves(after[t], reg[t])
  BY RegisterServes, CallParts DEF IsRegistry
<1>2. ASSUME NEW t \in DOMAIN created
      PROVE  t \in DOMAIN after /\ Serves(after[t], created[t])
  <2>1. t \in DOMAIN reg /\ Serves(reg[t], created[t])
    BY DEF Keeps
  <2>2. Serves(after[t], reg[t])
    BY <1>1, <2>1
  <2> QED BY <1>1, <2>1, <2>2, ServesTransitive
<1> QED BY <1>2 DEF Keeps

(* A file that an abandoned or a completed write leaves readable holds what
   it held before, or what was written. *)
LEMMA ReadableFiles ==
  /\ Truncated.state \in {"absent", "legacy", "current"} => Truncated = file
  /\ \A at : \A f \in Abandoned(at) :
        f.state \in {"absent", "legacy", "current"} => f = file
  /\ \A reg : \A f \in Written(reg) :
        f.state \in {"absent", "legacy", "current"} => f.tables = reg
BY DEF Truncated, Abandoned, Written, Empty, Garbled, Current, File

LEMMA PersistInit == Init => PersistInv
<1> SUFFICES ASSUME Init PROVE PersistInv
  OBVIOUS
<1>1. Keeps(file.tables)
  BY ServesReflexive DEF Init, Keeps
<1> QED BY <1>1 DEF Init, PersistInv, AloneInv, Creating

LEMMA PersistStep ==
  ~ ReadFaults /\ TypeInv /\ PersistInv /\ [Next]_vars => PersistInv'
<1> SUFFICES ASSUME ~ ReadFaults, TypeInv, PersistInv, [Next]_vars
             PROVE  PersistInv'
  OBVIOUS
<1> USE DEF PersistInv
<1>0. alone \subseteq Instances
  BY DEF TypeInv, TypeOK
<1>1. ASSUME NEW i \in Instances, Open(i) PROVE PersistInv'
  <2>1. /\ ~ Creating(i) /\ UNCHANGED <<file, migrator, alone, created>>
        /\ \A j \in Instances : Creating(j)' <=> Creating(j)
        /\ \A j \in Instances \ {i} : pc'[j] = pc[j] /\ registry'[j] = registry[j]
    BY <1>1 DEF Open, fileVars, Creating, TypeInv, TypeOK
  <2>2. AloneInv'
    BY <1>0, <2>1 DEF AloneInv, Readable
  <2> QED BY <2>1, <2>2 DEF Keeps, Readable
<1>2. ASSUME NEW i \in Instances, Exit(i) PROVE PersistInv'
  <2>1. /\ Readable' => Readable /\ file' = file
        /\ UNCHANGED <<migrator, created>> /\ alone' = alone \ {i}
        /\ \A j \in Instances : Creating(j)' => Creating(j) /\ j # i
        /\ \A j \in Instances \ {i} : pc'[j] = pc[j] /\ registry'[j] = registry[j]
    BY <1>2, ReadableFiles DEF Exit, Readable, Creating, TypeInv, TypeOK
  <2>2. AloneInv'
    BY <1>0, <2>1 DEF AloneInv, Creating
  <2> QED BY <2>1, <2>2 DEF Keeps
<1>3. ASSUME NEW i \in Instances, NEW c \in RegisterCalls, RegisterTable(i, c)
      PROVE  PersistInv'
  BY <1>3 DEF RegisterTable, fileVars, AloneInv, Creating, Keeps, Readable
<1>4. ASSUME NEW i \in Instances, NEW c \in CreateCalls, BeginCreate(i, c)
      PROVE  PersistInv'
  <2> DEFINE after == Register(file.tables, c.table, c.decl)
  <2>1. /\ Readable /\ ~ Conflicts(file.tables, c.table, c.decl)
        /\ registry' = [registry EXCEPT ![i] = after]
        /\ UNCHANGED <<file, migrator, created>>
        /\ pc' = [pc EXCEPT ![i] = "saving"]
        /\ alone' = IF NobodyWrites THEN {i} ELSE {}
    BY <1>4, LoadsAreTheFile DEF BeginCreate, AloneIfFirst, fileVars
  <2>2. Keeps(after)
    BY <2>1, RegisterKeeps DEF TypeInv, TypeOK
  <2> HIDE DEF after
  <2>3. registry'[i] = after /\ \A j \in Instances \ {i} : registry'[j] = registry[j]
    BY <2>1 DEF TypeInv, TypeOK
  <2>4. /\ Creating(i)' /\ pc'[i] # "written"
        /\ \A j \in Instances \ {i} : Creating(j)' <=> Creating(j)
    BY <2>1 DEF Creating, TypeInv, TypeOK
  <2>5. AloneInv'
    <3>1. CASE NobodyWrites
      <4>1. alone' = {i} /\ migrator.pc = "idle"
            /\ \A j \in Instances : ~ Creating(j)
        BY <2>1, <3>1 DEF NobodyWrites, Creating
      <4> QED BY <2>1, <2>4, <4>1 DEF AloneInv
    <3>2. CASE ~ NobodyWrites
      BY <2>1, <3>2 DEF AloneInv
    <3> QED BY <3>1, <3>2
  <2>6. (\A j \in Instances : Creating(j) => Keeps(registry[j]))'
    BY <2>1, <2>2, <2>3, <2>4 DEF Keeps
  <2> QED BY <2>1, <2>5, <2>6 DEF Keeps, Readable
<1>5. ASSUME NEW i \in Instances, NEW c \in CreateCalls, RefuseCreate(i, c)
      PROVE  PersistInv'
  <2>1. /\ ~ Creating(i) /\ UNCHANGED <<pc, file, migrator, alone, created>>
        /\ \A j \in Instances \ {i} : registry'[j] = registry[j]
    BY <1>5 DEF RefuseCreate, fileVars, Creating, TypeInv, TypeOK
  <2>2. AloneInv'
    BY <1>0, <2>1 DEF AloneInv, Creating, Readable
  <2> QED BY <2>1, <2>2 DEF Keeps, Creating, Readable
<1>6. ASSUME NEW i \in Instances, OpenStream(i) PROVE PersistInv'
  <2>1. /\ Readable' => Readable /\ file' = file
        /\ UNCHANGED <<migrator, registry, alone, created>>
        /\ \A j \in Instances : Creating(j)' <=> Creating(j)
        /\ \A j \in Instances : pc'[j] = "written" => pc[j] = "written"
    BY <1>6, ReadableFiles DEF OpenStream, Readable, Creating, TypeInv, TypeOK
  <2>2. AloneInv'
    BY <1>0, <2>1 DEF AloneInv
  <2> QED BY <2>1, <2>2 DEF Keeps
<1>7. ASSUME NEW i \in Instances, WriteStream(i) PROVE PersistInv'
  <2>1. /\ Creating(i) /\ file' \in Written(registry[i])
        /\ UNCHANGED <<registry, migrator, alone, created>>
        /\ \A j \in Instances : Creating(j)' <=> Creating(j)
    BY <1>7 DEF WriteStream, Creating, TypeInv, TypeOK
  <2>2. Readable' => file'.tables = registry[i]
    BY <2>1, ReadableFiles DEF Readable
  <2>3. AloneInv'
    BY <1>0, <2>1, <2>2 DEF AloneInv
  <2> QED BY <2>1, <2>2, <2>3 DEF Keeps
<1>8. ASSUME NEW i \in Instances, SaveFails(i) PROVE PersistInv'
  <2>1. /\ Readable' => Readable /\ file' = file
        /\ UNCHANGED <<migrator, registry, created>> /\ alone' = alone \ {i}
        /\ \A j \in Instances : Creating(j)' => Creating(j) /\ j # i
        /\ \A j \in Instances \ {i} : pc'[j] = pc[j]
    BY <1>8, ReadableFiles DEF SaveFails, Readable, Creating, TypeInv, TypeOK
  <2>2. AloneInv'
    BY <1>0, <2>1 DEF AloneInv, Creating
  <2> QED BY <2>1, <2>2 DEF Keeps
<1>9. ASSUME NEW i \in Instances, CreateReturns(i) PROVE PersistInv'
  <2> DEFINE t == call[i].table
  <2>1. /\ Creating(i) /\ pc[i] = "written" /\ t \in DOMAIN registry[i]
        /\ UNCHANGED <<file, migrator, registry>> /\ alone' = alone \ {i}
        /\ \A j \in Instances : Creating(j)' => Creating(j) /\ j # i
        /\ \A j \in Instances \ {i} : pc'[j] = pc[j]
    BY <1>9 DEF CreateReturns, fileVars, Creating, TypeInv, TypeOK, CallInv
  <2>2. AloneInv'
    BY <1>0, <2>1 DEF AloneInv, Creating, Readable
  <2>3. CASE i \notin alone
    <3>1. created' = created
      BY <1>9, <2>3 DEF CreateReturns
    <3> QED BY <2>1, <2>2, <3>1 DEF Keeps, Readable
  <2>4. CASE i \in alone
    <3>1. created' = Put(created, t, registry[i][t])
      BY <1>9, <2>4 DEF CreateReturns
    <3>2. /\ migrator.pc = "idle" /\ \A j \in Instances : ~ Creating(j)'
          /\ Readable => file.tables = registry[i]
      BY <2>1, <2>4 DEF AloneInv
    <3>3. Keeps(registry[i])
      BY <2>1
    <3>4. ASSUME NEW u \in DOMAIN created'
          PROVE  u \in DOMAIN registry[i] /\ Serves(registry[i][u], created'[u])
      <4>1. CASE u = t
        BY <4>1, <2>1, <3>1, ServesReflexive DEF Put
      <4>2. CASE u # t
        BY <4>2, <3>1, <3>3 DEF Put, Keeps
      <4> QED BY <4>1, <4>2
    <3>5. Readable => Keeps(file.tables)'
      BY <2>1, <3>2, <3>4 DEF Keeps
    <3> QED BY <2>1, <2>2, <3>2, <3>5 DEF Readable
  <2> QED BY <2>3, <2>4
<1>10. ASSUME ListTables PROVE PersistInv'
  BY <1>10 DEF ListTables, fileVars, instanceVars, AloneInv, Creating, Keeps, Readable
<1>11. ASSUME Migrate PROVE PersistInv'
  <2>1. CASE MigrateRead
    <3>1. /\ Readable /\ alone' = {} /\ migrator'.tables = file.tables
          /\ UNCHANGED <<file, created, instanceVars>>
      BY <2>1 DEF MigrateRead, Readable
    <3> QED BY <3>1 DEF instanceVars, AloneInv, Creating, Keeps, Readable
  <2>2. CASE MigrateOpen \/ MigrateDies
    <3>1. /\ Readable' => Readable /\ file' = file
          /\ UNCHANGED <<alone, created, instanceVars>>
          /\ migrator'.pc # "idle" => migrator.pc # "idle" /\ migrator'.tables = migrator.tables
      BY <2>2, ReadableFiles DEF MigrateOpen, MigrateDies, Readable, TypeInv, TypeOK
    <3> QED BY <1>0, <3>1 DEF instanceVars, AloneInv, Creating, Keeps
  <2>3. CASE MigrateWrite
    <3>1. /\ migrator.pc # "idle" /\ migrator'.pc = "idle"
          /\ Readable' => file'.tables = migrator.tables
          /\ UNCHANGED <<alone, created, instanceVars>>
      BY <2>3, ReadableFiles DEF MigrateWrite, Readable
    <3>2. alone = {}
      BY <3>1 DEF AloneInv
    <3> QED BY <3>1, <3>2 DEF instanceVars, AloneInv, Creating, Keeps
  <2> QED BY <1>11, <2>1, <2>2, <2>3 DEF Migrate
<1>12. CASE UNCHANGED vars
  BY <1>12 DEF vars, AloneInv, Creating, Keeps, Readable
<1> QED
  BY <1>1, <1>2, <1>3, <1>4, <1>5, <1>6, <1>7, <1>8, <1>9, <1>10, <1>11, <1>12
     DEF Next, CreateStep

LEMMA PersistInvariant ==
  ASSUME ~ ReadFaults
  PROVE  Spec => [](TypeInv /\ DeclaredInv /\ PersistInv)
<1>1. Init => TypeInv /\ DeclaredInv /\ PersistInv
  BY TypeInit, DeclaredInit, PersistInit
<1>2. TypeInv /\ DeclaredInv /\ PersistInv /\ [Next]_vars
        => (TypeInv /\ DeclaredInv /\ PersistInv)'
  BY TypeStep, DeclaredStep, PersistStep
<1> QED BY <1>1, <1>2, PTL DEF Spec

(* Crashes, failed writes and races of later provisioners included, every load
   that returns has each table whose create_table returned without a rival. *)
THEOREM CreatedPersist ==
  ASSUME ~ ReadFaults
  PROVE  Spec => []CreatedTablesPersist
<1>1. PersistInv => CreatedTablesPersist
  BY DEF PersistInv, Keeps, CreatedTablesPersist
<1> QED BY <1>1, PersistInvariant, PTL

-----------------------------------------------------------------------------
(***************************************************************************)
(* Under the documented discipline one provisioner at a time is at work.   *)
(***************************************************************************)
Disciplined == Serialized /\ ~ ReadFaults

OneWriter ==
  \A i \in Instances : Creating(i) =>
    /\ migrator.pc = "idle"
    /\ \A j \in Instances : Creating(j) => j = i

(* A provisioner starts only when no instance and no migration is writing. *)
LEMMA ProvisionerIsAlone ==
  ASSUME TypeInv, Disciplined, MayProvision
  PROVE  migrator.pc = "idle" /\ \A i \in Instances : ~ Creating(i)
BY DEF MayProvision, NobodyWrites, Disciplined, Creating

LEMMA OneWriterStep ==
  ASSUME Disciplined, TypeInv, OneWriter, [Next]_vars
  PROVE  OneWriter'
<1>1. ASSUME NEW i \in Instances, NEW c \in CreateCalls, BeginCreate(i, c)
      PROVE  OneWriter'
  <2>1. migrator'.pc = "idle" /\ \A j \in Instances : Creating(j)' => j = i
    BY <1>1, ProvisionerIsAlone DEF BeginCreate, fileVars, Creating, TypeInv, TypeOK
  <2> QED BY <2>1 DEF OneWriter
<1>2. ASSUME NEW i \in Instances,
             \/ Open(i) \/ Exit(i) \/ CreateStep(i)
             \/ \E c \in RegisterCalls : RegisterTable(i, c)
             \/ \E c \in CreateCalls : RefuseCreate(i, c)
      PROVE  OneWriter'
  <2>1. /\ UNCHANGED migrator
        /\ \A j \in Instances : Creating(j)' => Creating(j)
    BY <1>2 DEF Open, Exit, CreateStep, OpenStream, WriteStream, SaveFails,
                CreateReturns, RegisterTable, RefuseCreate, fileVars, Creating,
                TypeInv, TypeOK
  <2> QED BY <2>1 DEF OneWriter
<1>3. ASSUME Migrate PROVE OneWriter'
  <2>1. CASE MigrateRead
    BY <2>1, ProvisionerIsAlone DEF MigrateRead, instanceVars, OneWriter, Creating
  <2>2. CASE MigrateOpen \/ MigrateWrite \/ MigrateDies
    <3>1. migrator.pc # "idle" /\ UNCHANGED instanceVars
      BY <2>2 DEF MigrateOpen, MigrateWrite, MigrateDies
    <3> QED BY <3>1 DEF instanceVars, OneWriter, Creating
  <2> QED BY <1>3, <2>1, <2>2 DEF Migrate
<1>4. CASE ListTables \/ UNCHANGED vars
  BY <1>4 DEF ListTables, fileVars, instanceVars, vars, OneWriter, Creating
<1> QED BY <1>1, <1>2, <1>3, <1>4 DEF Next

LEMMA OneWriterInvariant ==
  ASSUME Disciplined
  PROVE  Spec => [](TypeInv /\ OneWriter)
<1>1. Init => TypeInv /\ OneWriter
  BY TypeInit DEF Init, OneWriter, Creating
<1>2. TypeInv /\ OneWriter /\ [Next]_vars => (TypeInv /\ OneWriter)'
  BY TypeStep, OneWriterStep
<1> QED BY <1>1, <1>2, PTL DEF Spec

-----------------------------------------------------------------------------
(***************************************************************************)
(* What an instance found when it was constructed.  The file is behind the *)
(* one registry that is about to be written to it, and both are ahead of   *)
(* what any instance found, as is what that instance believes.             *)
(***************************************************************************)
Follows(reg, old) == \A t \in DOMAIN old : t \in DOMAIN reg /\ Serves(reg[t], old[t])

FollowInv ==
  /\ \A i \in Instances : Creating(i) /\ Readable => Follows(registry[i], file.tables)
  /\ migrator.pc # "idle" /\ Readable => Follows(migrator.tables, file.tables)

OpenedInv ==
  \A k \in Instances :
    /\ Follows(meta[k], opened[k]) /\ Follows(registry[k], opened[k])
    /\ Readable => Follows(file.tables, opened[k])
    /\ \A i \in Instances : Creating(i) => Follows(registry[i], opened[k])
    /\ migrator.pc # "idle" => Follows(migrator.tables, opened[k])

LEMMA FollowsOrder ==
  /\ \A reg : Follows(reg, reg) /\ Follows(reg, NoTables)
  /\ \A a, b, c : Follows(b, a) /\ Follows(c, b) => Follows(c, a)
<1>1. \A reg : Follows(reg, reg) /\ Follows(reg, NoTables)
  BY ServesReflexive DEF Follows, NoTables
<1>2. \A a, b, c : Follows(b, a) /\ Follows(c, b) => Follows(c, a)
  BY ServesTransitive DEF Follows
<1> QED BY <1>1, <1>2

(* register() leaves a registry that follows the one it was given. *)
LEMMA RegisterFollows ==
  ASSUME NEW reg, IsRegistry(reg), NEW c \in CreateCalls \cup RegisterCalls,
         ~ Conflicts(reg, c.table, c.decl)
  PROVE  Follows(Register(reg, c.table, c.decl), reg)
<1> DEFINE after == Register(reg, c.table, c.decl)
<1>1. /\ DOMAIN after = DOMAIN reg \cup {c.table}
      /\ \A t \in DOMAIN reg : Serves(after[t], reg[t])
  BY RegisterServes, CallParts DEF IsRegistry
<1> QED BY <1>1 DEF Follows

(* Nor does taking over one entry of a registry that follows lose anything. *)
LEMMA PutFollows ==
  ASSUME NEW reg, NEW more, NEW old, NEW t, Follows(reg, old), Follows(more, old)
  PROVE  Follows(Put(reg, t, more[t]), old)
BY DEF Follows, Put

LEMMA FollowInit == Init => FollowInv /\ OpenedInv
BY FollowsOrder DEF Init, FollowInv, OpenedInv, Creating

LEMMA FollowStep ==
  ASSUME Disciplined, TypeInv, OneWriter, FollowInv, OpenedInv, [Next]_vars
  PROVE  FollowInv' /\ OpenedInv'
<1> USE DEF FollowInv, OpenedInv
<1>1. ASSUME NEW i \in Instances, Open(i) PROVE FollowInv' /\ OpenedInv'
  <2>1. /\ Readable /\ UNCHANGED <<file, migrator>>
        /\ registry' = [registry EXCEPT ![i] = file.tables]
        /\ meta' = [meta EXCEPT ![i] = file.tables]
        /\ opened' = [opened EXCEPT ![i] = file.tables]
    BY <1>1, LoadsAreTheFile DEF Disciplined, Open, fileVars
  <2>2. \A j \in Instances : Creating(j)' => Creating(j) /\ j # i
    BY <1>1 DEF Open, Creating, TypeInv, TypeOK
  <2>3. \A j \in Instances \ {i} : registry'[j] = registry[j] /\ meta'[j] = meta[j]
                                   /\ opened'[j] = opened[j]
    BY <2>1 DEF TypeInv, TypeOK
  <2>4. registry'[i] = file.tables /\ meta'[i] = file.tables /\ opened'[i] = file.tables
    BY <2>1 DEF TypeInv, TypeOK
  <2>5. FollowInv'
    BY <2>1, <2>2, <2>3 DEF Readable
  <2>6. ASSUME NEW k \in Instances
        PROVE  /\ Follows(meta'[k], opened'[k]) /\ Follows(registry'[k], opened'[k])
               /\ Readable => Follows(file.tables, opened'[k])
               /\ \A j \in Instances : Creating(j)' => Follows(registry'[j], opened'[k])
               /\ migrator.pc # "idle" => Follows(migrator.tables, opened'[k])
    <3>1. CASE k = i
      BY <2>1, <2>2, <2>3, <2>4, <3>1, FollowsOrder
    <3>2. CASE k # i
      BY <2>2, <2>3, <3>2
    <3> QED BY <3>1, <3>2
  <2> QED BY <2>1, <2>5, <2>6 DEF Readable
<1>2. ASSUME NEW i \in Instances, Exit(i) PROVE FollowInv' /\ OpenedInv'
  <2>1. /\ Readable' => Readable /\ file' = file
        /\ UNCHANGED migrator
        /\ \A j \in Instances : Creating(j)' => Creating(j) /\ j # i
    BY <1>2, ReadableFiles DEF Exit, Readable, Creating, TypeInv, TypeOK
  <2>2. \A j \in Instances \ {i} : registry'[j] = registry[j] /\ meta'[j] = meta[j]
                                   /\ opened'[j] = opened[j]
    BY <1>2 DEF Exit, TypeInv, TypeOK
  <2>3. opened'[i] = NoTables
    BY <1>2 DEF Exit, TypeInv, TypeOK
  <2> QED BY <2>1, <2>2, <2>3, FollowsOrder
<1>3. ASSUME NEW i \in Instances, NEW c \in RegisterCalls, RegisterTable(i, c)
      PROVE  FollowInv' /\ OpenedInv'
  <2> DEFINE after == Register(registry[i], c.table, c.decl)
  <2>1. /\ ~ Conflicts(registry[i], c.table, c.decl) /\ IsRegistry(registry[i])
        /\ meta' = [meta EXCEPT ![i] = Put(meta[i], c.table, after[c.table])]
        /\ UNCHANGED <<pc, file, migrator, registry, opened>>
    BY <1>3 DEF RegisterTable, fileVars, TypeInv, TypeOK
  <2>2. Follows(after, registry[i])
    BY <2>1, RegisterFollows
  <2> HIDE DEF after
  <2>3. Follows(Put(meta[i], c.table, after[c.table]), opened[i])
    BY <2>2, PutFollows, FollowsOrder
  <2>4. \A j \in Instances : Follows(meta'[j], opened[j])
    BY <2>1, <2>3 DEF TypeInv, TypeOK
  <2> QED BY <2>1, <2>4 DEF Readable, Creating
<1>4. ASSUME NEW i \in Instances, NEW c \in CreateCalls, BeginCreate(i, c)
      PROVE  FollowInv' /\ OpenedInv'
  <2> DEFINE after == Register(file.tables, c.table, c.decl)
  <2>1. /\ Readable /\ ~ Conflicts(file.tables, c.table, c.decl)
        /\ registry' = [registry EXCEPT ![i] = after]
        /\ UNCHANGED <<file, migrator, meta, opened>>
    BY <1>4, LoadsAreTheFile DEF Disciplined, BeginCreate, fileVars
  <2>2. Follows(after, file.tables)
    BY <2>1, RegisterFollows DEF TypeInv, TypeOK
  <2> HIDE DEF after
  <2>3. \A k \in Instances : Follows(after, opened[k])
    BY <2>1, <2>2, FollowsOrder
  <2>4. \A j \in Instances : Creating(j)' => j = i
    BY <1>4, ProvisionerIsAlone DEF BeginCreate, Creating, TypeInv, TypeOK
  <2>5. registry'[i] = after /\ \A j \in Instances \ {i} : registry'[j] = registry[j]
    BY <2>1 DEF TypeInv, TypeOK
  <2> QED BY <2>1, <2>2, <2>3, <2>4, <2>5 DEF Readable
<1>5. ASSUME NEW i \in Instances, NEW c \in CreateCalls, RefuseCreate(i, c)
      PROVE  FollowInv' /\ OpenedInv'
  <2>1. /\ Readable
        /\ registry' = [registry EXCEPT ![i] = file.tables]
        /\ UNCHANGED <<pc, file, migrator, meta, opened>>
    BY <1>5, LoadsAreTheFile DEF Disciplined, RefuseCreate, fileVars
  <2>2. \A j \in Instances : ~ Creating(j)
    BY <1>5, ProvisionerIsAlone DEF RefuseCreate
  <2>3. \A j \in Instances : registry'[j] \in {registry[j], file.tables}
    BY <2>1 DEF TypeInv, TypeOK
  <2> QED BY <2>1, <2>2, <2>3 DEF Readable, Creating
<1>6. ASSUME NEW i \in Instances, OpenStream(i) \/ SaveFails(i)
      PROVE  FollowInv' /\ OpenedInv'
  <2>1. /\ Readable' => Readable /\ file' = file
        /\ UNCHANGED <<migrator, registry, meta, opened>>
        /\ \A j \in Instances : Creating(j)' => Creating(j)
    BY <1>6, ReadableFiles
       DEF OpenStream, SaveFails, Readable, Creating, TypeInv, TypeOK
  <2> QED BY <2>1
<1>7. ASSUME NEW i \in Instances, WriteStream(i) PROVE FollowInv' /\ OpenedInv'
  <2>1. /\ Readable' => file'.tables = registry[i]
        /\ UNCHANGED <<migrator, registry, meta, opened>>
        /\ Creating(i) /\ migrator.pc = "idle"
        /\ \A j \in Instances : Creating(j)' => j = i
    BY <1>7, ReadableFiles
       DEF WriteStream, OneWriter, Readable, Creating, TypeInv, TypeOK
  <2> QED BY <2>1, FollowsOrder
<1>8. ASSUME NEW i \in Instances, CreateReturns(i) PROVE FollowInv' /\ OpenedInv'
  <2> DEFINE t == call[i].table
  <2>1. /\ meta' = [meta EXCEPT ![i] = Put(meta[i], t, registry[i][t])]
        /\ UNCHANGED <<file, migrator, registry, opened>>
        /\ \A j \in Instances : Creating(j)' => Creating(j)
    BY <1>8 DEF CreateReturns, fileVars, Creating, TypeInv, TypeOK
  <2> HIDE DEF t
  <2>2. Follows(Put(meta[i], t, registry[i][t]), opened[i])
    BY PutFollows
  <2>3. \A j \in Instances : Follows(meta'[j], opened[j])
    BY <2>1, <2>2 DEF TypeInv, TypeOK
  <2> QED BY <2>1, <2>3 DEF Readable
<1>9. ASSUME Migrate PROVE FollowInv' /\ OpenedInv'
  <2>1. CASE MigrateRead
    <3>1. Readable /\ \A j \in Instances : ~ Creating(j)
      BY <2>1, ProvisionerIsAlone DEF MigrateRead, Readable
    <3>2. UNCHANGED <<file, instanceVars>> /\ migrator'.tables = file.tables
      BY <2>1 DEF MigrateRead
    <3> QED BY <3>1, <3>2, FollowsOrder DEF instanceVars, Readable, Creating
  <2>2. CASE MigrateOpen \/ MigrateDies
    <3>1. /\ Readable' => Readable /\ file' = file
          /\ UNCHANGED instanceVars
          /\ migrator'.pc # "idle" => migrator.pc # "idle" /\ migrator'.tables = migrator.tables
      BY <2>2, ReadableFiles DEF MigrateOpen, MigrateDies, Readable, TypeInv, TypeOK
    <3> QED BY <3>1 DEF instanceVars, Creating
  <2>3. CASE MigrateWrite
    <3>1. /\ migrator.pc # "idle" /\ migrator'.pc = "idle"
          /\ Readable' => file'.tables = migrator.tables
          /\ UNCHANGED instanceVars
          /\ \A j \in Instances : ~ Creating(j)
      BY <2>3, ReadableFiles DEF MigrateWrite, OneWriter, Readable
    <3> QED BY <3>1 DEF instanceVars, Creating
  <2> QED BY <1>9, <2>1, <2>2, <2>3 DEF Migrate
<1>10. CASE ListTables \/ UNCHANGED vars
  BY <1>10 DEF ListTables, fileVars, instanceVars, vars, Readable, Creating
<1> QED BY <1>1, <1>2, <1>3, <1>4, <1>5, <1>6, <1>7, <1>8, <1>9, <1>10
        DEF Next, CreateStep

(* However stale an instance's snapshot, and whatever has been created since,
   what it believes and what the file holds both serve what it found. *)
THEOREM OpenedAgree ==
  ASSUME Disciplined
  PROVE  Spec => []OpenedTablesAgree
<1>1. Init => FollowInv /\ OpenedInv
  BY FollowInit
<1>2. TypeInv /\ OneWriter /\ FollowInv /\ OpenedInv /\ [Next]_vars
        => FollowInv' /\ OpenedInv'
  BY FollowStep
<1>3. OpenedInv => OpenedTablesAgree
  BY DEF OpenedInv, Follows, OpenedTablesAgree
<1> QED BY <1>1, <1>2, <1>3, OneWriterInvariant, PTL DEF Spec

(* The names that list_tables has reported are in the file, and in what is
   about to be written to it. *)
ListedInv ==
  /\ Readable => listed.names \subseteq DOMAIN file.tables
  /\ \A i \in Instances : Creating(i) => listed.names \subseteq DOMAIN registry[i]
  /\ migrator.pc # "idle" => listed.names \subseteq DOMAIN migrator.tables

LEMMA ListedStep ==
  ASSUME Disciplined, TypeInv, OneWriter, FollowInv, ListedInv, [Next]_vars
  PROVE  ListedInv' /\ listed.names \subseteq listed'.names
<1> USE DEF ListedInv
<1>1. ASSUME NEW i \in Instances,
             \/ Open(i) \/ Exit(i) \/ OpenStream(i) \/ SaveFails(i) \/ CreateReturns(i)
             \/ \E c \in RegisterCalls : RegisterTable(i, c)
             \/ \E c \in CreateCalls : RefuseCreate(i, c)
      PROVE  ListedInv' /\ listed' = listed
  <2>1. /\ Readable' => Readable /\ file' = file
        /\ UNCHANGED <<migrator, listed>>
    BY <1>1, ReadableFiles
       DEF Open, Exit, OpenStream, SaveFails, CreateReturns, RegisterTable,
           RefuseCreate, fileVars, Readable
  <2>2. \A j \in Instances : Creating(j)' => Creating(j) /\ registry'[j] = registry[j]
    BY <1>1, ProvisionerIsAlone
       DEF Open, Exit, OpenStream, SaveFails, CreateReturns, RegisterTable,
           RefuseCreate, Creating, TypeInv, TypeOK
  <2> QED BY <2>1, <2>2
<1>2. ASSUME NEW i \in Instances, NEW c \in CreateCalls, BeginCreate(i, c)
      PROVE  ListedInv' /\ listed' = listed
  <2> DEFINE after == Register(file.tables, c.table, c.decl)
  <2>1. /\ Readable /\ ~ Conflicts(file.tables, c.table, c.decl)
        /\ registry' = [registry EXCEPT ![i] = after]
        /\ UNCHANGED <<file, migrator, listed>>
    BY <1>2, LoadsAreTheFile DEF Disciplined, BeginCreate, fileVars
  <2>2. DOMAIN file.tables \subseteq DOMAIN after
    BY <2>1, RegisterFollows DEF TypeInv, TypeOK, Follows
  <2> HIDE DEF after
  <2>3. \A j \in Instances : Creating(j)' => j = i
    BY <1>2, ProvisionerIsAlone DEF BeginCreate, Creating, TypeInv, TypeOK
  <2>4. registry'[i] = after
    BY <2>1 DEF TypeInv, TypeOK
  <2> QED BY <2>1, <2>2, <2>3, <2>4 DEF Readable
<1>3. ASSUME NEW i \in Instances, WriteStream(i) PROVE ListedInv' /\ listed' = listed
  <2>1. /\ Readable' => file'.tables = registry[i]
        /\ UNCHANGED <<migrator, registry, listed>>
        /\ Creating(i) /\ migrator.pc = "idle"
        /\ \A j \in Instances : Creating(j)' => j = i
    BY <1>3, ReadableFiles
       DEF WriteStream, OneWriter, Readable, Creating, TypeInv, TypeOK
  <2> QED BY <2>1
<1>4. ASSUME ListTables PROVE ListedInv' /\ listed.names \subseteq listed'.names
  <2>1. /\ UNCHANGED <<file, migrator, instanceVars>>
        /\ \/ Readable /\ listed'.names = DOMAIN file.tables
           \/ listed'.names = listed.names
    <3>1. CASE \E loaded \in Loads : listed' = [ok |-> TRUE, names |-> DOMAIN loaded]
      BY <1>4, <3>1, LoadsAreTheFile DEF Disciplined, ListTables, fileVars
    <3>2. CASE listed' = [listed EXCEPT !.ok = FALSE]
      BY <1>4, <3>2 DEF ListTables, fileVars, TypeInv, TypeOK
    <3> QED BY <1>4, <3>1, <3>2 DEF ListTables
  <2>2. CASE listed'.names = listed.names
    BY <2>1, <2>2 DEF instanceVars, Readable, Creating
  <2>3. CASE Readable /\ listed'.names = DOMAIN file.tables
    BY <2>1, <2>3 DEF FollowInv, Follows, instanceVars, Readable, Creating
  <2> QED BY <2>1, <2>2, <2>3
<1>5. ASSUME Migrate PROVE ListedInv' /\ listed' = listed
  <2>1. CASE MigrateRead
    <3>1. Readable /\ migrator'.tables = file.tables /\ UNCHANGED <<file, listed, instanceVars>>
      BY <2>1 DEF MigrateRead, Readable
    <3> QED BY <3>1 DEF instanceVars, Readable, Creating
  <2>2. CASE MigrateOpen \/ MigrateDies
    <3>1. /\ Readable' => Readable /\ file' = file
          /\ UNCHANGED <<listed, instanceVars>>
          /\ migrator'.pc # "idle" => migrator.pc # "idle" /\ migrator'.tables = migrator.tables
      BY <2>2, ReadableFiles DEF MigrateOpen, MigrateDies, Readable, TypeInv, TypeOK
    <3> QED BY <3>1 DEF instanceVars, Creating
  <2>3. CASE MigrateWrite
    <3>1. /\ migrator.pc # "idle" /\ migrator'.pc = "idle"
          /\ Readable' => file'.tables = migrator.tables
          /\ UNCHANGED <<listed, instanceVars>>
      BY <2>3, ReadableFiles DEF MigrateWrite, Readable
    <3> QED BY <3>1 DEF instanceVars, Creating
  <2> QED BY <1>5, <2>1, <2>2, <2>3 DEF Migrate
<1>6. CASE UNCHANGED vars
  BY <1>6 DEF vars, Readable, Creating
<1> QED BY <1>1, <1>2, <1>3, <1>4, <1>5, <1>6 DEF Next, CreateStep

(* Under the same discipline no answer of list_tables lacks a table that an
   earlier one had, whoever dies while rewriting the file. *)
THEOREM ListingsGrow ==
  ASSUME Disciplined
  PROVE  Spec => ListedTablesStay
<1>1. Init => FollowInv /\ OpenedInv /\ ListedInv
  BY FollowInit DEF Init, ListedInv, Creating
<1>2. TypeInv /\ OneWriter /\ FollowInv /\ OpenedInv /\ ListedInv /\ [Next]_vars
        => /\ (FollowInv /\ OpenedInv /\ ListedInv)'
           /\ [listed.names \subseteq listed'.names]_listed
  BY FollowStep, ListedStep
<1> QED BY <1>1, <1>2, OneWriterInvariant, PTL DEF Spec, ListedTablesStay

-----------------------------------------------------------------------------
(* Where no process dies and no disk fails, the file is unreadable only while
   its one writer is between truncating it and writing it. *)
MidSaveInv ==
  /\ UnreadableOnlyMidSave
  /\ ~ Local => file \notin {Empty, Garbled}
  /\ Local =>
       /\ \A i \in Instances : pc[i] = "writing" => file = Empty
       /\ migrator.pc = "writing" => file = Empty

LEMMA MidSaveStep ==
  ASSUME Disciplined, ~ CanCrash, ~ WriteFaults,
         TypeInv, OneWriter, MidSaveInv, [Next]_vars
  PROVE  MidSaveInv'
<1> USE DEF MidSaveInv, UnreadableOnlyMidSave
<1>0. /\ \A i \in Instances : pc[i] = "writing" => Creating(i)
      /\ \A reg : Current(reg) \notin {Empty, Garbled} /\ Current(reg) # Empty
  BY DEF Creating, Current, Empty, Garbled, File
<1>1. ASSUME NEW i \in Instances, Open(i) \/ CreateReturns(i) PROVE MidSaveInv'
  <2>1. /\ UNCHANGED <<file, migrator>>
        /\ \A j \in Instances : pc'[j] = "writing" <=> pc[j] = "writing"
    BY <1>1 DEF Open, CreateReturns, fileVars, TypeInv, TypeOK
  <2> QED BY <2>1
<1>2. ASSUME NEW i \in Instances, Exit(i) \/ SaveFails(i) PROVE MidSaveInv'
  <2>1. /\ UNCHANGED <<file, migrator>>
        /\ \A j \in Instances : pc'[j] = "writing" <=> pc[j] = "writing"
    BY <1>2 DEF Exit, SaveFails, Abandoned, TypeInv, TypeOK
  <2> QED BY <2>1
<1>3. ASSUME NEW i \in Instances,
             \/ \E c \in RegisterCalls : RegisterTable(i, c)
             \/ \E c \in CreateCalls : BeginCreate(i, c) \/ RefuseCreate(i, c)
      PROVE  MidSaveInv'
  <2>1. /\ UNCHANGED <<file, migrator>>
        /\ \A j \in Instances : pc'[j] = "writing" <=> pc[j] = "writing"
    BY <1>3 DEF RegisterTable, BeginCreate, RefuseCreate, fileVars, TypeInv, TypeOK
  <2> QED BY <2>1
<1>4. ASSUME NEW i \in Instances, OpenStream(i) PROVE MidSaveInv'
  <2>1. /\ file' = IF Local THEN Empty ELSE file
        /\ pc'[i] = "writing" /\ UNCHANGED migrator
        /\ \A j \in Instances : j # i => ~ Creating(j) /\ pc'[j] = pc[j]
        /\ migrator.pc = "idle"
    BY <1>0, <1>4 DEF OpenStream, Truncated, OneWriter, Creating, TypeInv, TypeOK
  <2> QED BY <1>0, <2>1
<1>5. ASSUME NEW i \in Instances, WriteStream(i) PROVE MidSaveInv'
  <2>1. /\ file' = Current(registry[i])
        /\ \A j \in Instances : pc'[j] # "writing"
        /\ migrator'.pc = "idle"
    BY <1>0, <1>5 DEF WriteStream, Written, OneWriter, Creating, TypeInv, TypeOK
  <2> QED BY <1>0, <2>1
<1>6. ASSUME Migrate PROVE MidSaveInv'
  <2>1. migrator.pc # "idle" => \A j \in Instances : pc[j] # "writing"
    BY <1>0 DEF OneWriter
  <2>2. CASE MigrateRead
    <3>1. migrator'.pc = "saving" /\ migrator.pc = "idle" /\ UNCHANGED <<file, pc>>
      BY <2>2 DEF MigrateRead, instanceVars
    <3> QED BY <3>1
  <2>3. CASE MigrateOpen
    <3>1. /\ file' = IF Local THEN Empty ELSE file
          /\ migrator'.pc = "writing" /\ migrator.pc = "saving" /\ UNCHANGED pc
      BY <2>3 DEF MigrateOpen, Truncated, instanceVars, TypeInv, TypeOK
    <3> QED BY <2>1, <3>1
  <2>4. CASE MigrateWrite
    <3>1. /\ file' = Current(migrator.tables)
          /\ migrator.pc = "writing" /\ migrator'.pc = "idle" /\ UNCHANGED pc
      BY <2>4 DEF MigrateWrite, Written, instanceVars
    <3> QED BY <1>0, <2>1, <3>1
  <2>5. ~ MigrateDies
    BY DEF MigrateDies
  <2> QED BY <1>6, <2>2, <2>3, <2>4, <2>5 DEF Migrate
<1>7. CASE ListTables \/ UNCHANGED vars
  BY <1>7 DEF ListTables, fileVars, instanceVars, vars
<1> QED BY <1>1, <1>2, <1>3, <1>4, <1>5, <1>6, <1>7 DEF Next, CreateStep

(* A load raises only while somebody is rewriting the file. *)
THEOREM UnreadableMidSave ==
  ASSUME Disciplined, ~ CanCrash, ~ WriteFaults
  PROVE  Spec => []UnreadableOnlyMidSave
<1>1. Init => MidSaveInv
  BY DEF Init, MidSaveInv, UnreadableOnlyMidSave, Absent, Legacy, Empty, Garbled, File
<1>2. TypeInv /\ OneWriter /\ MidSaveInv /\ [Next]_vars => MidSaveInv'
  BY MidSaveStep
<1>3. MidSaveInv => UnreadableOnlyMidSave
  BY DEF MidSaveInv
<1> QED BY <1>1, <1>2, <1>3, OneWriterInvariant, PTL DEF Spec

-----------------------------------------------------------------------------
(***************************************************************************)
(* The registry implements the abstract catalogue.                         *)
(***************************************************************************)

(* The instance of Catalog has the schema rules of this module. *)
LEMMA SameRules ==
  /\ \A f, k, v : Abstract!Put(f, k, v) = Put(f, k, v)
  /\ \A new, old : Abstract!Serves(new, old) <=> Serves(new, old)
BY DEF Put, Abstract!Put, Serves, Abstract!Serves, Rows, Abstract!Rows,
       Padded, Abstract!Padded, Cells, Abstract!Cells

LEMMA CatalogInit == Init => Abstract!Init
BY DEF Init, Abstract!Init, File, Absent, Legacy

(* A step that changes `created' is the return of a create_table, whose entry
   some call declared and still serves the one it replaces. *)
LEMMA CatalogStep ==
  ASSUME TypeInv, DeclaredInv, PersistInv, [Next]_vars
  PROVE  [Abstract!Next]_created
<1>1. ASSUME NEW i \in Instances, CreateReturns(i), i \in alone PROVE Abstract!Next
  <2> DEFINE t == call[i].table
             c == [table |-> t, decl |-> registry[i][t]]
  <2>1. Creating(i) /\ t \in DOMAIN registry[i]
    BY <1>1 DEF CreateReturns, Creating, TypeInv, CallInv
  <2>2. c \in CreateCalls
    BY <2>1 DEF DeclaredInv, Declared
  <2>3. t \in DOMAIN created => Serves(registry[i][t], created[t])
    BY <2>1 DEF PersistInv, Keeps
  <2>4. created' = Put(created, t, registry[i][t])
    BY <1>1 DEF CreateReturns
  <2>5. Abstract!Create(c)
    BY <2>3, <2>4, SameRules DEF Abstract!Create
  <2> QED BY <2>2, <2>5 DEF Abstract!Next
<1>2. ASSUME NEW i \in Instances,
             \/ Open(i) \/ Exit(i)
             \/ OpenStream(i) \/ WriteStream(i) \/ SaveFails(i)
             \/ CreateReturns(i) /\ i \notin alone
             \/ \E c \in RegisterCalls : RegisterTable(i, c)
             \/ \E c \in CreateCalls : BeginCreate(i, c) \/ RefuseCreate(i, c)
      PROVE  UNCHANGED created
  BY <1>2 DEF Open, Exit, OpenStream, WriteStream, SaveFails, CreateReturns,
              RegisterTable, BeginCreate, RefuseCreate
<1>3. ListTables \/ Migrate \/ UNCHANGED vars => UNCHANGED created
  BY DEF ListTables, Migrate, MigrateRead, MigrateOpen, MigrateWrite, MigrateDies, vars
<1> QED BY <1>1, <1>2, <1>3 DEF Next, CreateStep

(* A create_table that no other provisioner overlaps does what base.py promises:
   tables are only added, or extended so that every old row stays a row, even
   after races, crashes and failed saves of others. *)
THEOREM CatalogImplemented ==
  ASSUME ~ ReadFaults
  PROVE  Spec => ImplementsCatalog
<1>1. Init => Abstract!Init
  BY CatalogInit
<1>2. TypeInv /\ DeclaredInv /\ PersistInv /\ [Next]_vars
        => [Abstract!Next]_created
  BY CatalogStep
<1> QED BY <1>1, <1>2, PersistInvariant, PTL
        DEF Spec, ImplementsCatalog, Abstract!Spec

=============================================================================
