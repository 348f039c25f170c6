-------------------------- MODULE EODFileRepository --------------------------
(***************************************************************************)
(* LocalEODFileRepository (market_data/repositories.py): the directory of  *)
(* one EOD dataset.  A publication fills a staging directory, renames it   *)
(* into generations/, and replaces current.json; a reader follows          *)
(* current.json to a generation.  One action is one step on the file       *)
(* system that another process or a crash can separate from the next.      *)
(*                                                                         *)
(* Bars, and with them every checksum, are one member of Contents: a       *)
(* directory is verified when its Parquet file is the one its manifest     *)
(* describes.  Staging directories and pointer temporaries have random     *)
(* names; here they are those of the publisher that made them and, once no *)
(* call owns them any more, are counted as stale.                          *)
(***************************************************************************)
EXTENDS Naturals, FiniteSets

CONSTANTS
  GenerationIds, Contents, Publishers, Readers,
  NoGeneration, NoContent,
  MaxStale       \* bound on the stale artifacts of each kind

ASSUME RepositoryAssumption ==
  /\ NoGeneration \notin GenerationIds
  /\ NoContent \notin Contents
  /\ MaxStale \in Nat

VARIABLES
  generations,  \* generations[g]: the directory generations/<g>
  pointer,      \* the generation current.json names
  staging,      \* staging[p]: the staging directory of publisher p
  temporary,    \* temporary[p]: the generation its pointer temporary names
  stale,        \* artifacts left over by failed cleanups and crashes
  publisher,    \* publisher[p]: the call of publish that p is in
  reader        \* reader[r]: the call of load_current that r is in

disk == <<generations, pointer, staging, temporary, stale>>
vars == <<disk, publisher, reader>>

MaybeGeneration == GenerationIds \cup {NoGeneration}
MaybeContent    == Contents \cup {NoContent}

Directory == [exists : BOOLEAN, parquet : MaybeContent,
              manifest : MaybeContent, previous : MaybeGeneration]
NoDirectory == [exists |-> FALSE, parquet |-> NoContent,
                manifest |-> NoContent, previous |-> NoGeneration]

Publisher == [state : {"idle", "staging", "parquet", "manifest", "rename",
                       "temporary", "replace"},
              generation : MaybeGeneration, bars : MaybeContent,
              previous : MaybeGeneration]
NotPublishing == [state |-> "idle", generation |-> NoGeneration,
                  bars |-> NoContent, previous |-> NoGeneration]

Reader == [state : {"idle", "manifest", "parquet", "failed"},
           generation : MaybeGeneration, manifest : MaybeContent]
NotReading == [state |-> "idle", generation |-> NoGeneration,
               manifest |-> NoContent]

TypeOK ==
  /\ generations \in [GenerationIds -> Directory]
  /\ pointer \in MaybeGeneration
  /\ staging \in [Publishers -> Directory]
  /\ temporary \in [Publishers -> MaybeGeneration]
  /\ stale \in [staging : 0..MaxStale, temporaries : 0..MaxStale]
  /\ publisher \in [Publishers -> Publisher]
  /\ reader \in [Readers -> Reader]

Init ==
  /\ generations = [g \in GenerationIds |-> NoDirectory]
  /\ pointer = NoGeneration
  /\ staging = [p \in Publishers |-> NoDirectory]
  /\ temporary = [p \in Publishers |-> NoGeneration]
  /\ stale = [staging |-> 0, temporaries |-> 0]
  /\ publisher = [p \in Publishers |-> NotPublishing]
  /\ reader = [r \in Readers |-> NotReading]

\* What _load_generation verifies of a directory.
Verified(dir) ==
  /\ dir.exists
  /\ dir.manifest # NoContent
  /\ dir.parquet = dir.manifest

-----------------------------------------------------------------------------
(* publish                                                                 *)

Step(p, from, to) ==
  /\ publisher[p].state = from
  /\ publisher' = [publisher EXCEPT ![p].state = to]

\* The current manifest is loaded for its generation id.
BeginPublish(p, g, bars) ==
  /\ publisher[p].state = "idle"
  /\ publisher' = [publisher EXCEPT ![p] =
         [state |-> "staging", generation |-> g, bars |-> bars,
          previous |-> pointer]]
  /\ UNCHANGED <<disk, reader>>

GenerationExists(p) == generations[publisher[p].generation].exists

CreateStaging(p) ==
  /\ Step(p, "staging", "parquet")
  /\ ~GenerationExists(p)
  /\ staging' = [staging EXCEPT ![p] = [NoDirectory EXCEPT !.exists = TRUE]]
  /\ UNCHANGED <<generations, pointer, temporary, stale, reader>>

\* Mutant of WriteParquet: the directory is renamed without its manifest.
WriteParquet_LastFile(p) ==
  /\ Step(p, "parquet", "rename")
  /\ staging' = [staging EXCEPT ![p].parquet = publisher[p].bars]
  /\ UNCHANGED <<generations, pointer, temporary, stale, reader>>

WriteParquet(p) ==
  /\ Step(p, "parquet", "manifest")
  /\ staging' = [staging EXCEPT ![p].parquet = publisher[p].bars]
  /\ UNCHANGED <<generations, pointer, temporary, stale, reader>>

\* The Parquet file is read back before the manifest is written.
WriteManifest(p) ==
  /\ Step(p, "manifest", "rename")
  /\ staging[p].parquet = publisher[p].bars
  /\ staging' = [staging EXCEPT ![p] =
         [@ EXCEPT !.manifest = publisher[p].bars,
                   !.previous = publisher[p].previous]]
  /\ UNCHANGED <<generations, pointer, temporary, stale, reader>>

\* Mutants of PublishStaging: a generation that is there is replaced; the
\* pointer is prepared before the directory is renamed.
PublishStaging_Overwrites(p) ==
  /\ Step(p, "rename", "temporary")
  /\ generations' = [generations EXCEPT ![publisher[p].generation] = staging[p]]
  /\ staging' = [staging EXCEPT ![p] = NoDirectory]
  /\ UNCHANGED <<pointer, temporary, stale, reader>>

PublishStaging(p) ==
  /\ Step(p, "rename", "temporary")
  /\ ~GenerationExists(p)
  /\ staging[p].exists
  /\ generations' = [generations EXCEPT ![publisher[p].generation] = staging[p]]
  /\ staging' = [staging EXCEPT ![p] = NoDirectory]
  /\ UNCHANGED <<pointer, temporary, stale, reader>>

WriteTemporary(p) ==
  /\ Step(p, "temporary", "replace")
  /\ temporary' = [temporary EXCEPT ![p] = publisher[p].generation]
  /\ UNCHANGED <<generations, pointer, staging, stale, reader>>

ReplaceCurrentPointer(p) ==
  /\ publisher[p].state = "replace"
  /\ temporary[p] # NoGeneration
  /\ pointer' = temporary[p]
  /\ temporary' = [temporary EXCEPT ![p] = NoGeneration]
  /\ publisher' = [publisher EXCEPT ![p] = NotPublishing]
  /\ UNCHANGED <<generations, staging, stale, reader>>

Count(b) == IF b THEN 1 ELSE 0

\* The call of p is over; what it made and did not use is gone, or stale.
Abandons(p, cleaned) ==
  /\ publisher[p].state # "idle"
  /\ publisher' = [publisher EXCEPT ![p] = NotPublishing]
  /\ staging' = [staging EXCEPT ![p] = NoDirectory]
  /\ temporary' = [temporary EXCEPT ![p] = NoGeneration]
  /\ stale' = IF cleaned THEN stale
              ELSE [staging |-> stale.staging + Count(staging[p].exists),
                    temporaries |-> stale.temporaries
                                    + Count(temporary[p] # NoGeneration)]
  /\ stale'.staging <= MaxStale /\ stale'.temporaries <= MaxStale
  /\ UNCHANGED <<generations, pointer, reader>>

\* A step raises (a full disk, a generation that exists): the finally block
\* removes the staging directory and the temporary.  A generation that was
\* renamed already stays.
PublishFails(p) == Abandons(p, TRUE)

\* The removal fails as well, or the process dies before it.
Crash(p) == Abandons(p, FALSE)

-----------------------------------------------------------------------------
(* load_current                                                            *)

ReadPointer(r) ==
  /\ reader[r].state = "idle"
  /\ pointer # NoGeneration
  /\ reader' = [reader EXCEPT ![r] =
         [state |-> "manifest", generation |-> pointer, manifest |-> NoContent]]
  /\ UNCHANGED <<disk, publisher>>

ReadManifest(r) ==
  LET dir == generations[reader[r].generation] IN
  /\ reader[r].state = "manifest"
  /\ reader' = [reader EXCEPT ![r] =
         IF dir.exists /\ dir.manifest # NoContent
         THEN [@ EXCEPT !.state = "parquet", !.manifest = dir.manifest]
         ELSE [@ EXCEPT !.state = "failed"]]
  /\ UNCHANGED <<disk, publisher>>

ReadParquet(r) ==
  LET dir == generations[reader[r].generation] IN
  /\ reader[r].state = "parquet"
  /\ reader' = [reader EXCEPT ![r] =
         IF dir.exists /\ dir.parquet = reader[r].manifest
         THEN NotReading ELSE [@ EXCEPT !.state = "failed"]]
  /\ UNCHANGED <<disk, publisher>>

-----------------------------------------------------------------------------

PublishStep(p) ==
  \/ CreateStaging(p) \/ WriteParquet(p) \/ WriteManifest(p)
  \/ PublishStaging(p) \/ WriteTemporary(p) \/ ReplaceCurrentPointer(p)
  \/ PublishFails(p)

ReadStep(r) == ReadPointer(r) \/ ReadManifest(r) \/ ReadParquet(r)

Next ==
  \/ \E p \in Publishers :
       \/ \E g \in GenerationIds, bars \in Contents : BeginPublish(p, g, bars)
       \/ PublishStep(p)
       \/ Crash(p)
  \/ \E r \in Readers : ReadStep(r)

Spec == Init /\ [][Next]_vars
-----------------------------------------------------------------------------
(* What readers and operators rely on, even with several writers, failures *)
(* and crashes at any step.                                                *)

\* Every directory under generations/ is whole: list_generation_ids never
\* names a generation that load_generation refuses.
EveryGenerationComplete ==
  \A g \in GenerationIds : generations[g].exists => Verified(generations[g])

\* The pointer never names a generation that is missing or incomplete.
CurrentComplete ==
  pointer # NoGeneration => Verified(generations[pointer])

\* A reader that is between current.json, the manifest and the Parquet file
\* while generations are published never finds them inconsistent.
ReadsSucceed == \A r \in Readers : reader[r].state # "failed"

\* To a reader of its parsed content the directory is a register of immutable
\* generations; content appears before it is activated, and never changes.
Store == INSTANCE EODGenerationStore WITH
  content <- [g \in GenerationIds |-> generations[g].parquet],
  current <- pointer

ImplementsStore == Store!Spec
=============================================================================
