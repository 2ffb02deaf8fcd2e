----------------------------- MODULE DataProofs -----------------------------
(***************************************************************************)
(* Proofs about the bindings that reach outside the process, Database,     *)
(* Wire and Files, for any number of sessions, handles, files and keys.    *)
(***************************************************************************)
EXTENDS Database, Wire, Files, TLAPS

-----------------------------------------------------------------------------
(* Files.  A handle that writes to a named file has opened it in place.    *)

Content == [exists : BOOLEAN, whole : BOOLEAN, key : [FileKey -> Nat]]

SaveJob == [pc : {"temp", "rename"}, path : AllPaths, k : FileKey \cup {NoFile}, keys : [FileKey -> Nat]]
ReadJob == [pc : {"read"}, path : AllPaths, k : FileKey, value : Nat]
FillJob == [pc : {"fill"}, from : Content]
JobType == {Idle} \cup SaveJob \cup ReadJob \cup FillJob

FilesTypeOK ==
    /\ disk \in [AllPaths -> Content]
    /\ job \in [Caller -> JobType]
    /\ handle \in [Caller -> Path \cup {NoFile, Unlinked}]
    /\ inPlace \subseteq Path
    /\ lastParam \in [FileKey -> Nat]
    /\ serial \in Nat

HandleInv ==
    \A c \in Caller : /\ handle[c] \in Path => handle[c] \in inPlace
                      /\ job[c].pc = "fill" => handle[c] # NoFile

FilesInv == FilesTypeOK /\ HandleInv /\ SavedWhole

(* One param_set at a time has the params file in hand, and what it will write back *)
(* differs from the stored params in its own key only.                             *)
OnParams(c) == job[c].pc \in {"read", "temp", "rename"} /\ job[c].path = ParamsPath

MutexInv ==
    \A c \in Caller : OnParams(c) =>
        /\ paramsMu = c
        /\ job[c].k \in FileKey
        /\ job[c].pc # "read" =>
               \A j \in FileKey : j # job[c].k => job[c].keys[j] = lastParam[j]

ParamsInv == MutexInv /\ ParamsKept

LEMMA JobFacts ==
    ASSUME NEW j \in JobType
    PROVE  /\ j.pc \in {"idle", "temp", "rename", "read", "fill"}
           /\ j.pc = "idle" => j = Idle
           /\ j.pc \in {"temp", "rename"} => j \in SaveJob
           /\ j.pc = "read" => j \in ReadJob
           /\ j.pc = "fill" => j \in FillJob
<1>1. CASE j = Idle
  BY <1>1 DEF Idle
<1>2. CASE j \in SaveJob
  BY <1>2 DEF SaveJob
<1>3. CASE j \in ReadJob
  BY <1>3 DEF ReadJob
<1>4. CASE j \in FillJob
  BY <1>4 DEF FillJob
<1> QED BY <1>1, <1>2, <1>3, <1>4 DEF JobType

LEMMA ContentFacts ==
    /\ Unset \in [FileKey -> Nat]
    /\ Absent \in Content /\ Absent.whole /\ Absent.key = Unset
    /\ Torn \in Content
    /\ \A keys \in [FileKey -> Nat] :
           Whole(keys) \in Content /\ Whole(keys).whole /\ Whole(keys).key = keys
<1>1. Unset \in [FileKey -> Nat]
  BY DEF Unset
<1> QED BY <1>1 DEF Absent, Torn, Whole, Content

LEMMA FilesInitOK == FilesInit => FilesInv /\ ParamsInv
<1> SUFFICES ASSUME FilesInit PROVE FilesInv /\ ParamsInv
  OBVIOUS
<1> USE ContentFacts, NamesAssumption, FilesAssumption DEF FilesInit
<1>1. FilesTypeOK
  BY DEF FilesTypeOK, JobType
<1>2. \A c \in Caller : job[c].pc = "idle"
  BY DEF Idle
<1>3. HandleInv
  BY <1>2 DEF HandleInv, AllPaths
<1>4. SavedWhole
  BY DEF SavedWhole
<1>5. MutexInv
  BY <1>2 DEF MutexInv, OnParams
<1>6. ParamsKept
  BY DEF ParamsKept, AllPaths
<1> QED BY <1>1, <1>3, <1>4, <1>5, <1>6 DEF FilesInv, ParamsInv

(* What the steps do to jobs: all but one stay, and the one that moves is in a type. *)
LEMMA FilesTypeStep == FilesInv /\ [FilesNext]_filevars => FilesTypeOK'
<1> SUFFICES ASSUME FilesInv, [FilesNext]_filevars PROVE FilesTypeOK'
  OBVIOUS
<1> USE NamesAssumption, FilesAssumption, ContentFacts
<1>t. FilesTypeOK /\ HandleInv
  BY DEF FilesInv
<1>j. \A c \in Caller : job[c] \in JobType
  BY <1>t DEF FilesTypeOK
<1>i. ASSUME NEW c \in Caller, Finish(c) PROVE job' \in [Caller -> JobType]
  BY <1>t, <1>i DEF Finish, FilesTypeOK, JobType
<1>1. CASE Die
  <2>1. job' \in [Caller -> JobType]
    BY <1>1 DEF Die, JobType
  <2> QED BY <1>t, <1>1, <2>1 DEF Die, FilesTypeOK
<1>2. ASSUME NEW c \in Caller, writeTemp(c) PROVE FilesTypeOK'
  <2>1. job' \in [Caller -> JobType]
    <3>1. job[c] \in SaveJob
      BY <1>j, <1>2, JobFacts DEF writeTemp
    <3>2. [job[c] EXCEPT !.pc = "rename"] \in SaveJob
      BY <3>1 DEF SaveJob
    <3>3. CASE job' = [job EXCEPT ![c].pc = "rename"]
      BY <1>t, <3>2, <3>3 DEF FilesTypeOK, JobType
    <3> QED BY <1>2, <1>i, <3>3 DEF writeTemp
  <2> QED BY <1>t, <1>2, <2>1 DEF writeTemp, FilesTypeOK
<1>3. ASSUME NEW c \in Caller, renameTemp(c) PROVE FilesTypeOK'
  <2>1. job' \in [Caller -> JobType]
    BY <1>i, <1>3 DEF renameTemp
  <2>2. job[c].path \in AllPaths /\ job[c].keys \in [FileKey -> Nat]
    <3>1. job[c] \in SaveJob
      BY <1>j, <1>3, JobFacts DEF renameTemp
    <3> QED BY <3>1 DEF SaveJob
  <2>3. disk' \in [AllPaths -> Content]
    BY <1>t, <1>3, <2>2 DEF renameTemp, FilesTypeOK
  <2>4. handle' \in [Caller -> Path \cup {NoFile, Unlinked}]
    BY <1>t, <1>3 DEF renameTemp, FilesTypeOK, Rebind
  <2>5. lastParam' \in [FileKey -> Nat]
    <3>1. ASSUME NEW k PROVE [lastParam EXCEPT ![k] = job[c].keys[k]] \in [FileKey -> Nat]
      BY <1>t, <2>2 DEF FilesTypeOK
    <3> QED BY <1>t, <1>3, <3>1 DEF renameTemp, FilesTypeOK
  <2> QED BY <1>t, <1>3, <2>1, <2>3, <2>4, <2>5 DEF renameTemp, FilesTypeOK
<1>4. ASSUME NEW c \in Caller, readKeys(c) PROVE FilesTypeOK'
  <2>1. job[c] \in ReadJob
    BY <1>j, <1>4, JobFacts DEF readKeys
  <2>2. job[c].path \in AllPaths /\ job[c].k \in FileKey /\ job[c].value \in Nat
    BY <2>1 DEF ReadJob
  <2>3. \A old \in Parsed(job[c].path) : old \in [FileKey -> Nat]
    BY <1>t, <2>2 DEF Parsed, FilesTypeOK, Content
  <2>4. PICK old \in [FileKey -> Nat] :
            job' = [job EXCEPT ![c] = [pc |-> "temp", path |-> job[c].path, k |-> job[c].k,
                                       keys |-> [old EXCEPT ![job[c].k] = job[c].value]]]
    BY <1>4, <2>3 DEF readKeys
  <2>5. [pc |-> "temp", path |-> job[c].path, k |-> job[c].k,
         keys |-> [old EXCEPT ![job[c].k] = job[c].value]] \in SaveJob
    BY <2>2 DEF SaveJob
  <2>6. job' \in [Caller -> JobType]
    BY <1>t, <2>4, <2>5 DEF FilesTypeOK, JobType
  <2> QED BY <1>t, <1>4, <2>6 DEF readKeys, FilesTypeOK
<1>5. ASSUME NEW c \in Caller, Fill(c) PROVE FilesTypeOK'
  <2>1. job' \in [Caller -> JobType]
    BY <1>i, <1>5 DEF Fill
  <2>2. job[c].from \in Content
    <3>1. job[c] \in FillJob
      BY <1>j, <1>5, JobFacts DEF Fill
    <3> QED BY <3>1 DEF FillJob
  <2>3. disk' \in [AllPaths -> Content]
    BY <1>t, <1>5, <2>2 DEF Fill, Through, FilesTypeOK
  <2> QED BY <1>t, <1>5, <2>1, <2>3 DEF Fill, FilesTypeOK
<1>6. ASSUME NEW c \in Caller, file_write(c) PROVE FilesTypeOK'
  <2>1. Whole([k \in FileKey |-> serial + 1]) \in Content
    BY <1>t DEF FilesTypeOK
  <2>2. disk' \in [AllPaths -> Content]
    BY <1>t, <1>6, <2>1 DEF file_write, Through, FilesTypeOK
  <2> QED BY <1>t, <1>6, <2>2 DEF file_write, FilesTypeOK
<1>7. ASSUME NEW c \in Caller, file_close(c) PROVE FilesTypeOK'
  BY <1>t, <1>7 DEF file_close, FilesTypeOK
<1>8. ASSUME NEW c \in Caller, NEW p \in AllPaths, NEW k \in FileKey, SetKey(c, p, k) PROVE FilesTypeOK'
  <2>1. [pc |-> "read", path |-> p, k |-> k, value |-> serial + 1] \in ReadJob
    BY <1>t DEF ReadJob, FilesTypeOK
  <2>2. job' \in [Caller -> JobType]
    BY <1>t, <1>8, <2>1 DEF SetKey, FilesTypeOK, JobType
  <2> QED BY <1>t, <1>8, <2>2 DEF SetKey, FilesTypeOK
<1>9. ASSUME NEW c \in Caller, NEW p \in Path, file_save(c, p) PROVE FilesTypeOK'
  <2>1. [pc |-> "temp", path |-> p, k |-> NoFile, keys |-> [k \in FileKey |-> serial + 1]] \in SaveJob
    BY <1>t DEF SaveJob, FilesTypeOK, AllPaths
  <2>2. job' \in [Caller -> JobType]
    BY <1>t, <1>9, <2>1 DEF file_save, saveVia, FilesTypeOK, JobType
  <2> QED BY <1>t, <1>9, <2>2 DEF file_save, FilesTypeOK
<1>10. ASSUME NEW c \in Caller, NEW p \in Path, file_open(c, p) PROVE FilesTypeOK'
  BY <1>t, <1>10 DEF file_open, Truncate, FilesTypeOK, AllPaths
<1>11. ASSUME NEW c \in Caller, NEW p \in Path, file_delete(c, p) PROVE FilesTypeOK'
  BY <1>t, <1>11 DEF file_delete, Rebind, FilesTypeOK, AllPaths
<1>12. ASSUME NEW c \in Caller, NEW p \in Path, NEW q \in Path, file_copy(c, p, q) PROVE FilesTypeOK'
  <2>1. [pc |-> "fill", from |-> IF p = q THEN Whole(Unset) ELSE disk[p]] \in FillJob
    BY <1>t DEF FillJob, FilesTypeOK, AllPaths
  <2>2. job' \in [Caller -> JobType]
    BY <1>t, <1>12, <2>1 DEF file_copy, FilesTypeOK, JobType
  <2> QED BY <1>t, <1>12, <2>2 DEF file_copy, Truncate, FilesTypeOK, AllPaths
<1>13. ASSUME NEW c \in Caller, NEW p \in Path, NEW q \in Path, file_move(c, p, q) PROVE FilesTypeOK'
  <2>1. \A d \in Caller : handle'[d] \in {handle[d], q, Unlinked}
    BY <1>13, Zenon DEF file_move
  <2>2. handle' \in [Caller -> Path \cup {NoFile, Unlinked}]
    <3>1. handle' = [d \in Caller |-> handle'[d]]
      BY <1>13, Zenon DEF file_move
    <3> QED BY <1>t, <2>1, <3>1 DEF FilesTypeOK
  <2>3. disk' \in [AllPaths -> Content]
    <3>1. disk' = [disk EXCEPT ![q] = disk[p], ![p] = Absent]
      BY <1>13 DEF file_move
    <3> QED BY <1>t, <3>1 DEF FilesTypeOK, AllPaths
  <2>4. inPlace' = (inPlace \ {p, q}) \cup (IF p \in inPlace THEN {q} ELSE {})
        /\ UNCHANGED <<job, paramsMu, lastParam, serial, deaths>>
    BY <1>13 DEF file_move
  <2> QED BY <1>t, <2>2, <2>3, <2>4 DEF FilesTypeOK
<1>14. CASE UNCHANGED filevars
  BY <1>t, <1>14 DEF filevars, FilesTypeOK
<1>15. ASSUME NEW c \in Caller, NEW k \in FileKey, setParam(c, k) PROVE FilesTypeOK'
  BY <1>8, <1>15 DEF setParam, AllPaths
<1>16. ASSUME NEW c \in Caller, NEW p \in Path, NEW k \in FileKey, ini_write(c, p, k) PROVE FilesTypeOK'
  BY <1>8, <1>16 DEF ini_write, AllPaths
<1> QED BY <1>1, <1>2, <1>3, <1>4, <1>5, <1>6, <1>7, <1>9, <1>10, <1>11, <1>12, <1>13, <1>14, <1>15,
           <1>16 DEF FilesNext

LEMMA FilesStep == FilesInv /\ [FilesNext]_filevars => FilesInv'
<1> SUFFICES ASSUME FilesInv, [FilesNext]_filevars PROVE HandleInv' /\ SavedWhole'
  BY FilesTypeStep DEF FilesInv
<1> DEFINE Goal == HandleInv' /\ SavedWhole'
<1> USE NamesAssumption, FilesAssumption, ContentFacts
<1>t. FilesTypeOK /\ HandleInv /\ SavedWhole
  BY DEF FilesInv
<1>n. NoFile \notin Path /\ Unlinked \notin Path /\ NoFile # Unlinked /\ Path \subseteq AllPaths
  BY DEF AllPaths, NoFile, Unlinked
<1>j. \A c \in Caller : job[c] \in JobType
  BY <1>t DEF FilesTypeOK
<1>d. Idle.pc = "idle"
  BY DEF Idle
(* The disk and the handles stay, a job that fills nothing begins or goes on. *)
<1>q. ASSUME UNCHANGED <<disk, handle, inPlace>>,
             \A c \in Caller : job'[c].pc = "fill" => job[c].pc = "fill"
      PROVE  Goal
  BY <1>q, <1>t DEF HandleInv, SavedWhole
<1>f. ASSUME NEW c \in Caller, NEW j \in JobType, j.pc # "fill", job' = [job EXCEPT ![c] = j]
      PROVE  \A d \in Caller : job'[d].pc = "fill" => job[d].pc = "fill" /\ d # c
  BY <1>f, <1>t DEF FilesTypeOK
<1>i. ASSUME NEW c \in Caller, Finish(c)
      PROVE  \A d \in Caller : job'[d].pc = "fill" => job[d].pc = "fill" /\ d # c
  BY <1>d, <1>i, <1>t DEF Finish, FilesTypeOK
<1>1. CASE Die
  <2>1. /\ \A c \in Caller : job'[c].pc = "idle" /\ handle'[c] = NoFile
        /\ UNCHANGED <<disk, inPlace>>
    BY <1>1, <1>d DEF Die
  <2> QED BY <1>n, <1>t, <2>1 DEF HandleInv, SavedWhole
<1>2. ASSUME NEW c \in Caller, writeTemp(c) PROVE Goal
  <2>1. CASE job' = [job EXCEPT ![c].pc = "rename"]
    <3>1. \A d \in Caller : job'[d].pc = "fill" => job[d].pc = "fill"
      <4>1. job[c] \in SaveJob
        BY <1>2, <1>j, JobFacts DEF writeTemp
      <4>2. [job[c] EXCEPT !.pc = "rename"].pc = "rename"
        BY <4>1 DEF SaveJob
      <4> QED BY <1>t, <2>1, <4>2 DEF FilesTypeOK
    <3> QED BY <1>2, <1>q, <3>1 DEF writeTemp
  <2>2. CASE Finish(c)
    BY <1>2, <1>i, <1>q, <2>2 DEF writeTemp
  <2> QED BY <1>2, <2>1, <2>2 DEF writeTemp
<1>3. ASSUME NEW c \in Caller, renameTemp(c) PROVE Goal
  <2>1. \A d \in Caller : job'[d].pc = "fill" => job[d].pc = "fill"
    BY <1>3, <1>i DEF renameTemp
  <2>2. CASE UNCHANGED <<disk, inPlace, handle, lastParam>>
    BY <1>q, <2>1, <2>2
  <2>3. CASE ~UNCHANGED <<disk, inPlace, handle, lastParam>>
    <3>1. PICK p : p = job[c].path
      OBVIOUS
    <3>2. p \in AllPaths /\ job[c].keys \in [FileKey -> Nat]
      <4>1. job[c] \in SaveJob
        BY <1>j, <1>3, JobFacts DEF renameTemp
      <4> QED BY <3>1, <4>1 DEF SaveJob
    <3>3. /\ disk' = [disk EXCEPT ![p] = Whole(job[c].keys)] /\ inPlace' = inPlace \ {p}
          /\ handle' = [d \in Caller |-> IF handle[d] = p THEN Unlinked ELSE handle[d]]
      BY <1>3, <2>3, <3>1 DEF renameTemp, Rebind
    <3>4. HandleInv'
      BY <1>n, <1>t, <2>1, <3>3 DEF HandleInv, FilesTypeOK
    <3>5. SavedWhole'
      BY <1>t, <3>2, <3>3 DEF SavedWhole, FilesTypeOK
    <3> QED BY <3>4, <3>5
  <2> QED BY <2>2, <2>3
<1>4. ASSUME NEW c \in Caller, readKeys(c) PROVE Goal
  <2>1. UNCHANGED <<disk, handle, inPlace>>
    BY <1>4 DEF readKeys
  <2>2. PICK x : job' = [job EXCEPT ![c] = x] /\ x.pc = "temp"
    BY <1>4 DEF readKeys
  <2>3. \A d \in Caller : job'[d].pc = "fill" => job[d].pc = "fill"
    BY <1>t, <2>2 DEF FilesTypeOK
  <2> QED BY <1>q, <2>1, <2>3
<1>5. ASSUME NEW c \in Caller, Fill(c) PROVE Goal
  <2>1. /\ \A d \in Caller : job'[d].pc = "fill" => job[d].pc = "fill" /\ d # c
        /\ handle' = [handle EXCEPT ![c] = NoFile] /\ UNCHANGED inPlace
    BY <1>5, <1>i DEF Fill
  <2>2. HandleInv'
    BY <1>n, <1>t, <2>1 DEF HandleInv, FilesTypeOK
  <2>3. CASE UNCHANGED disk
    BY <1>t, <2>1, <2>2, <2>3 DEF SavedWhole
  <2>4. CASE disk' = [disk EXCEPT ![handle[c]] = job[c].from] /\ handle[c] # Unlinked
    <3>1. handle[c] \in Path /\ handle[c] \in inPlace
      BY <1>5, <1>n, <1>t, <2>4 DEF Fill, HandleInv, FilesTypeOK
    <3>2. SavedWhole'
      BY <1>n, <1>t, <2>1, <2>4, <3>1 DEF SavedWhole, FilesTypeOK
    <3> QED BY <2>2, <3>2
  <2> QED BY <1>5, <2>3, <2>4 DEF Fill, Through
<1>6. ASSUME NEW c \in Caller, file_write(c) PROVE Goal
  <2>1. HandleInv'
    BY <1>6, <1>t DEF file_write, HandleInv
  <2>2. Whole([k \in FileKey |-> serial + 1]).whole
    BY <1>t DEF FilesTypeOK
  <2>3. SavedWhole'
    BY <1>6, <1>t, <2>2 DEF file_write, Through, SavedWhole, FilesTypeOK
  <2> QED BY <2>1, <2>3
<1>7. ASSUME NEW c \in Caller, file_close(c) PROVE Goal
  <2>1. SavedWhole'
    BY <1>7, <1>t DEF file_close, SavedWhole
  <2>2. HandleInv'
    BY <1>7, <1>n, <1>t DEF file_close, Quiet, HandleInv, FilesTypeOK
  <2> QED BY <2>1, <2>2
<1>8. ASSUME NEW c \in Caller, NEW p \in AllPaths, NEW k \in FileKey, SetKey(c, p, k) PROVE Goal
  <2>1. UNCHANGED <<disk, handle, inPlace>>
    BY <1>8 DEF SetKey
  <2>p. PICK x : x = [pc |-> "read", path |-> p, k |-> k, value |-> serial + 1]
    OBVIOUS
  <2>2. job' = [job EXCEPT ![c] = x] /\ x.pc = "read"
    <3>1. job' = [job EXCEPT ![c] = x]
      BY <2>p, <1>8 DEF SetKey
    <3> QED BY <2>p, <3>1
  <2>3. \A d \in Caller : job'[d].pc = "fill" => job[d].pc = "fill"
    BY <1>t, <2>2 DEF FilesTypeOK
  <2> QED BY <1>q, <2>1, <2>3
<1>9. ASSUME NEW c \in Caller, NEW p \in Path, file_save(c, p) PROVE Goal
  <2>1. UNCHANGED <<disk, handle, inPlace>>
    BY <1>9 DEF file_save
  <2>p. PICK x : x = [pc |-> "temp", path |-> p, k |-> NoFile, keys |-> [k \in FileKey |-> serial + 1]]
    OBVIOUS
  <2>2. job' = [job EXCEPT ![c] = x] /\ x.pc = "temp"
    <3>1. job' = [job EXCEPT ![c] = x]
      BY <2>p, <1>9 DEF file_save, saveVia
    <3> QED BY <2>p, <3>1
  <2>3. \A d \in Caller : job'[d].pc = "fill" => job[d].pc = "fill"
    BY <1>t, <2>2 DEF FilesTypeOK
  <2> QED BY <1>q, <2>1, <2>3
<1>10. ASSUME NEW c \in Caller, NEW p \in Path, file_open(c, p) PROVE Goal
  <2>1. HandleInv'
    BY <1>10, <1>n, <1>t DEF file_open, Truncate, Quiet, HandleInv, FilesTypeOK
  <2>2. SavedWhole'
    BY <1>10, <1>n, <1>t DEF file_open, Truncate, SavedWhole, FilesTypeOK
  <2> QED BY <2>1, <2>2
<1>11. ASSUME NEW c \in Caller, NEW p \in Path, file_delete(c, p) PROVE Goal
  <2>1. HandleInv'
    BY <1>11, <1>n, <1>t DEF file_delete, Rebind, HandleInv, FilesTypeOK
  <2>2. SavedWhole'
    BY <1>11, <1>n, <1>t DEF file_delete, SavedWhole, FilesTypeOK
  <2> QED BY <2>1, <2>2
<1>12. ASSUME NEW c \in Caller, NEW p \in Path, NEW q \in Path, file_copy(c, p, q) PROVE Goal
  <2>1. /\ disk' = [disk EXCEPT ![q] = Torn] /\ inPlace' = inPlace \cup {q}
        /\ handle' = [handle EXCEPT ![c] = q]
    BY <1>12 DEF file_copy, Truncate
  <2>2. \A d \in Caller : d # c => job'[d] = job[d]
    BY <1>12, <1>t DEF file_copy, FilesTypeOK
  <2>3. HandleInv'
    BY <1>n, <1>t, <2>1, <2>2 DEF HandleInv, FilesTypeOK
  <2>4. SavedWhole'
    BY <1>n, <1>t, <2>1 DEF SavedWhole, FilesTypeOK
  <2> QED BY <2>3, <2>4
<1>13. ASSUME NEW c \in Caller, NEW p \in Path, NEW q \in Path, file_move(c, p, q) PROVE Goal
  <2>1. \A d \in Caller : /\ handle[d] = p => handle'[d] = q
                          /\ handle[d] # p /\ handle[d] = q => handle'[d] = Unlinked
                          /\ handle[d] # p /\ handle[d] # q => handle'[d] = handle[d]
    BY <1>13, Zenon DEF file_move
  <2>2. /\ disk' = [disk EXCEPT ![q] = disk[p], ![p] = Absent] /\ p # q /\ UNCHANGED job
        /\ inPlace' = (inPlace \ {p, q}) \cup (IF p \in inPlace THEN {q} ELSE {})
    BY <1>13 DEF file_move
  <2>3. HandleInv'
    BY <1>n, <1>t, <2>1, <2>2 DEF HandleInv, FilesTypeOK
  <2>4. SavedWhole'
    BY <1>n, <1>t, <2>2 DEF SavedWhole, FilesTypeOK
  <2> QED BY <2>3, <2>4
<1>14. CASE UNCHANGED filevars
  BY <1>q, <1>14 DEF filevars
<1>15. ASSUME NEW c \in Caller, NEW k \in FileKey, setParam(c, k) PROVE Goal
  BY <1>8, <1>15 DEF setParam, AllPaths
<1>16. ASSUME NEW c \in Caller, NEW p \in Path, NEW k \in FileKey, ini_write(c, p, k) PROVE Goal
  BY <1>8, <1>16 DEF ini_write, AllPaths
<1> QED BY <1>1, <1>2, <1>3, <1>4, <1>5, <1>6, <1>7, <1>9, <1>10, <1>11, <1>12, <1>13, <1>14, <1>15,
           <1>16 DEF FilesNext

(* writeFileAtomic: whatever saves, copies, moves, deletes and handles of any number of
   callers interleave at their system calls, and wherever the process dies, a file is
   torn only if its inode was opened for writing in place. *)
THEOREM SavesCorrect == FilesSpec => []SavedWhole
<1>1. FilesInv => SavedWhole
  BY DEF FilesInv
<1> QED BY <1>1, FilesInitOK, FilesStep, PTL DEF FilesSpec

LEMMA ParamsStep ==
    ASSUME ~ReadFaults, FilesInv, ParamsInv, [FilesNext]_filevars
    PROVE  ParamsInv'
<1> USE NamesAssumption, FilesAssumption, ContentFacts
<1> DEFINE Goal == MutexInv' /\ ParamsKept'
<1>t. FilesTypeOK /\ SavedWhole /\ MutexInv /\ ParamsKept /\ HandleInv
  BY DEF FilesInv, ParamsInv
<1>n. NoFile \notin Path /\ Unlinked \notin Path /\ ParamsPath \notin Path /\ ParamsPath \in AllPaths
  BY DEF AllPaths
<1>j. \A c \in Caller : job[c] \in JobType
  BY <1>t DEF FilesTypeOK
<1>d. Idle.pc = "idle"
  BY DEF Idle
(* Only one caller's job moves, to one that is not about the params file. *)
<1>q. ASSUME NEW c \in Caller, \A e \in Caller : e # c => job'[e] = job[e],
             ~OnParams(c)', paramsMu' = paramsMu \/ (paramsMu = c /\ paramsMu' = Unheld),
             UNCHANGED lastParam, disk'[ParamsPath].key = disk[ParamsPath].key
      PROVE  Goal
  <2>1. \A e \in Caller : OnParams(e)' => e # c /\ OnParams(e) /\ job'[e] = job[e]
    BY <1>q DEF OnParams
  <2>2. MutexInv'
    BY <1>q, <1>t, <2>1 DEF MutexInv
  <2> QED BY <1>q, <1>t, <2>2 DEF ParamsKept
<1>s. ASSUME UNCHANGED <<job, paramsMu, lastParam>>, disk'[ParamsPath].key = disk[ParamsPath].key PROVE Goal
  BY <1>s, <1>t DEF MutexInv, OnParams, ParamsKept
<1>i. ASSUME NEW c \in Caller, Finish(c)
      PROVE  /\ \A e \in Caller : e # c => job'[e] = job[e]
             /\ ~OnParams(c)' /\ (paramsMu' = paramsMu \/ (paramsMu = c /\ paramsMu' = Unheld))
  BY <1>d, <1>i, <1>t DEF Finish, FilesTypeOK, OnParams
<1>1. ASSUME Die PROVE Goal
  <2>1. (\A c \in Caller : job'[c].pc = "idle") /\ UNCHANGED <<disk, lastParam>>
    BY <1>1, <1>d DEF Die
  <2> QED BY <1>t, <2>1 DEF MutexInv, OnParams, ParamsKept
<1>2. ASSUME NEW c \in Caller, writeTemp(c) PROVE Goal
  <2>1. CASE Finish(c)
    BY <1>2, <1>i, <1>q, <2>1 DEF writeTemp
  <2>2. CASE job' = [job EXCEPT ![c].pc = "rename"] /\ UNCHANGED paramsMu
    <3>1. job[c] \in SaveJob /\ job[c].pc = "temp"
      BY <1>2, <1>j, JobFacts DEF writeTemp
    <3>2. PICK x : x = [job[c] EXCEPT !.pc = "rename"]
      OBVIOUS
    <3>3. x.pc = "rename" /\ x.path = job[c].path /\ x.k = job[c].k /\ x.keys = job[c].keys
      BY <3>1, <3>2 DEF SaveJob
    <3>4. job'[c] = x /\ \A e \in Caller : e # c => job'[e] = job[e]
      BY <1>t, <2>2, <3>2 DEF FilesTypeOK
    <3>5. UNCHANGED <<disk, lastParam>>
      BY <1>2 DEF writeTemp
    <3>6. MutexInv'
      BY <1>t, <2>2, <3>1, <3>3, <3>4, <3>5 DEF MutexInv, OnParams
    <3> QED BY <1>t, <3>5, <3>6 DEF ParamsKept
  <2> QED BY <1>2, <2>1, <2>2 DEF writeTemp
<1>3. ASSUME NEW c \in Caller, renameTemp(c) PROVE Goal
  <2>1. /\ \A e \in Caller : e # c => job'[e] = job[e]
        /\ ~OnParams(c)' /\ (paramsMu' = paramsMu \/ (paramsMu = c /\ paramsMu' = Unheld))
    BY <1>3, <1>i DEF renameTemp
  <2>2. PICK p : p = job[c].path
    OBVIOUS
  <2>3. job[c].pc = "rename" /\ p \in AllPaths /\ job[c].keys \in [FileKey -> Nat]
    <3>1. job[c] \in SaveJob /\ job[c].pc = "rename"
      BY <1>j, <1>3, JobFacts DEF renameTemp
    <3> QED BY <2>2, <3>1 DEF SaveJob
  <2>4. CASE UNCHANGED <<disk, inPlace, handle, lastParam>>
    BY <1>q, <2>1, <2>4
  <2>5. ASSUME ~UNCHANGED <<disk, inPlace, handle, lastParam>> PROVE Goal
    <3>1. /\ disk' = [disk EXCEPT ![p] = Whole(job[c].keys)]
          /\ lastParam' = IF p = ParamsPath
                          THEN [lastParam EXCEPT ![job[c].k] = job[c].keys[job[c].k]]
                          ELSE lastParam
      BY <1>3, <2>2, <2>5 DEF renameTemp
    <3>2. CASE p # ParamsPath
      <4>1. UNCHANGED lastParam /\ disk'[ParamsPath].key = disk[ParamsPath].key
        BY <1>n, <1>t, <3>1, <3>2 DEF FilesTypeOK
      <4> QED BY <1>q, <2>1, <4>1
    <3>3. CASE p = ParamsPath
      <4>1. /\ OnParams(c) /\ paramsMu = c /\ job[c].k \in FileKey
            /\ \A j \in FileKey : j # job[c].k => job[c].keys[j] = lastParam[j]
        BY <1>t, <2>2, <2>3, <3>3 DEF MutexInv, OnParams
      <4>2. lastParam' = [lastParam EXCEPT ![job[c].k] = job[c].keys[job[c].k]]
        BY <3>1, <3>3
      <4>3. lastParam' = job[c].keys
        BY <1>t, <2>3, <4>1, <4>2 DEF FilesTypeOK
      <4>4. disk'[ParamsPath].key = job[c].keys
        BY <1>n, <1>t, <2>3, <3>1, <3>3 DEF FilesTypeOK
      <4>5. \A e \in Caller : ~OnParams(e)'
        <5> SUFFICES ASSUME NEW e \in Caller, OnParams(e)' PROVE FALSE
          OBVIOUS
        <5>1. e # c /\ job'[e] = job[e]
          BY <2>1
        <5>2. paramsMu = e
          BY <1>t, <5>1 DEF MutexInv, OnParams
        <5> QED BY <4>1, <5>1, <5>2
      <4> QED BY <4>3, <4>4, <4>5 DEF MutexInv, ParamsKept
    <3> QED BY <3>2, <3>3
  <2> QED BY <2>4, <2>5
<1>4. ASSUME NEW c \in Caller, readKeys(c) PROVE Goal
  <2>1. UNCHANGED <<disk, paramsMu, lastParam>> /\ job[c].pc = "read"
    BY <1>4 DEF readKeys
  <2>2. job[c] \in ReadJob
    BY <1>j, <2>1, JobFacts
  <2>3. job[c].path \in AllPaths /\ job[c].k \in FileKey /\ job[c].value \in Nat
    BY <2>2 DEF ReadJob
  <2>4. PICK old \in Parsed(job[c].path) :
            job' = [job EXCEPT ![c] = [pc |-> "temp", path |-> job[c].path, k |-> job[c].k,
                                       keys |-> [old EXCEPT ![job[c].k] = job[c].value]]]
    BY <1>4 DEF readKeys
  <2>5. PICK x : x = [pc |-> "temp", path |-> job[c].path, k |-> job[c].k,
                      keys |-> [old EXCEPT ![job[c].k] = job[c].value]]
    OBVIOUS
  <2>6. /\ x.pc = "temp" /\ x.path = job[c].path /\ x.k = job[c].k
        /\ x.keys = [old EXCEPT ![job[c].k] = job[c].value]
    BY <2>5
  <2>7. job'[c] = x /\ \A e \in Caller : e # c => job'[e] = job[e]
    BY <1>t, <2>4, <2>5 DEF FilesTypeOK
  <2>8. job[c].path = ParamsPath => old = lastParam
    <3> SUFFICES ASSUME job[c].path = ParamsPath PROVE old = lastParam
      OBVIOUS
    <3>1. disk[ParamsPath].whole
      BY <1>n, <1>t DEF SavedWhole, FilesTypeOK
    <3> QED BY <1>t, <2>4, <3>1 DEF Parsed, ParamsKept
  <2>9. MutexInv'
    <3>1. ASSUME NEW e \in Caller, OnParams(e)', e # c
          PROVE  /\ paramsMu' = e /\ job'[e].k \in FileKey
                 /\ job'[e].pc # "read" =>
                        \A j \in FileKey : j # job'[e].k => job'[e].keys[j] = lastParam'[j]
      BY <1>t, <2>1, <2>7, <3>1 DEF MutexInv, OnParams
    <3>2. ASSUME OnParams(c)'
          PROVE  /\ paramsMu' = c /\ job'[c].k \in FileKey
                 /\ \A j \in FileKey : j # job'[c].k => job'[c].keys[j] = lastParam'[j]
      <4>1. job[c].path = ParamsPath /\ old = lastParam /\ paramsMu = c
        BY <1>t, <2>1, <2>6, <2>7, <2>8, <3>2 DEF OnParams, MutexInv
      <4>2. PICK n, v : n = job[c].k /\ v = job[c].value /\ n \in FileKey
        BY <2>3
      <4>3. x.keys = [lastParam EXCEPT ![n] = v] /\ lastParam \in [FileKey -> Nat]
        BY <1>t, <2>6, <4>1, <4>2 DEF FilesTypeOK
      <4>4. \A j \in FileKey : j # n => x.keys[j] = lastParam[j]
        BY <4>3
      <4> QED BY <2>1, <2>6, <2>7, <4>1, <4>2, <4>4
    <3> QED BY <3>1, <3>2 DEF MutexInv
  <2> QED BY <1>t, <2>1, <2>9 DEF ParamsKept
<1>5. ASSUME NEW c \in Caller, Fill(c) PROVE Goal
  <2>1. /\ \A e \in Caller : e # c => job'[e] = job[e]
        /\ ~OnParams(c)' /\ (paramsMu' = paramsMu \/ (paramsMu = c /\ paramsMu' = Unheld))
        /\ UNCHANGED lastParam
    BY <1>5, <1>i DEF Fill
  <2>2. disk'[ParamsPath] = disk[ParamsPath]
    BY <1>5, <1>n, <1>t DEF Fill, Through, FilesTypeOK, HandleInv
  <2> QED BY <1>q, <2>1, <2>2
<1>6. ASSUME NEW c \in Caller, file_write(c) PROVE Goal
  <2>1. disk'[ParamsPath] = disk[ParamsPath]
    BY <1>6, <1>n, <1>t DEF file_write, Through, FilesTypeOK
  <2> QED BY <1>6, <1>s, <2>1 DEF file_write
<1>7. ASSUME NEW c \in Caller, file_close(c) PROVE Goal
  BY <1>7, <1>s DEF file_close
<1>8. ASSUME NEW c \in Caller, NEW p \in Path, NEW k \in FileKey, ini_write(c, p, k) PROVE Goal
  <2>1. UNCHANGED <<disk, paramsMu, lastParam>>
    BY <1>8 DEF ini_write, SetKey
  <2>p. PICK x : x = [pc |-> "read", path |-> p, k |-> k, value |-> serial + 1]
    OBVIOUS
  <2>2. job' = [job EXCEPT ![c] = x] /\ x.path = p
    <3>1. job' = [job EXCEPT ![c] = x]
      BY <2>p, <1>8 DEF ini_write, SetKey
    <3> QED BY <2>p, <3>1
  <2>3. ~OnParams(c)' /\ \A e \in Caller : e # c => job'[e] = job[e]
    BY <1>n, <1>t, <2>2 DEF FilesTypeOK, OnParams
  <2> QED BY <1>q, <2>1, <2>3
<1>9. ASSUME NEW c \in Caller, NEW k \in FileKey, setParam(c, k) PROVE Goal
  <2>1. UNCHANGED <<disk, lastParam>> /\ paramsMu = Unheld /\ paramsMu' = c
    BY <1>9 DEF setParam, SetKey
  <2>p. PICK x : x = [pc |-> "read", path |-> ParamsPath, k |-> k, value |-> serial + 1]
    OBVIOUS
  <2>2. job' = [job EXCEPT ![c] = x] /\ x.pc = "read" /\ x.k = k
    <3>1. job' = [job EXCEPT ![c] = x]
      BY <2>p, <1>9 DEF setParam, SetKey
    <3> QED BY <2>p, <3>1
  <2>3. job'[c] = x /\ \A e \in Caller : e # c => job'[e] = job[e] /\ ~OnParams(e)
    BY <1>t, <2>1, <2>2 DEF FilesTypeOK, MutexInv
  <2>4. MutexInv'
    BY <2>1, <2>2, <2>3 DEF MutexInv, OnParams
  <2> QED BY <1>t, <2>1, <2>4 DEF ParamsKept
<1>10. ASSUME NEW c \in Caller, NEW p \in Path, file_save(c, p) PROVE Goal
  <2>1. UNCHANGED <<disk, paramsMu, lastParam>>
    BY <1>10 DEF file_save
  <2>p. PICK x : x = [pc |-> "temp", path |-> p, k |-> NoFile, keys |-> [k \in FileKey |-> serial + 1]]
    OBVIOUS
  <2>2. job' = [job EXCEPT ![c] = x] /\ x.path = p
    <3>1. job' = [job EXCEPT ![c] = x]
      BY <2>p, <1>10 DEF file_save, saveVia
    <3> QED BY <2>p, <3>1
  <2>3. ~OnParams(c)' /\ \A e \in Caller : e # c => job'[e] = job[e]
    BY <1>n, <1>t, <2>2 DEF FilesTypeOK, OnParams
  <2> QED BY <1>q, <2>1, <2>3
<1>11. ASSUME NEW c \in Caller, NEW p \in Path, file_open(c, p) \/ file_delete(c, p) PROVE Goal
  <2>1. disk'[ParamsPath] = disk[ParamsPath]
    BY <1>11, <1>n, <1>t DEF file_open, file_delete, Truncate, FilesTypeOK
  <2> QED BY <1>11, <1>s, <2>1 DEF file_open, file_delete
<1>12. ASSUME NEW c \in Caller, NEW p \in Path, NEW q \in Path, file_copy(c, p, q) PROVE Goal
  <2>1. UNCHANGED <<paramsMu, lastParam>> /\ disk'[ParamsPath] = disk[ParamsPath]
    BY <1>12, <1>n, <1>t DEF file_copy, Truncate, FilesTypeOK
  <2>p. PICK x : x = [pc |-> "fill", from |-> IF p = q THEN Whole(Unset) ELSE disk[p]]
    OBVIOUS
  <2>2. job' = [job EXCEPT ![c] = x] /\ x.pc = "fill"
    <3>1. job' = [job EXCEPT ![c] = x]
      BY <2>p, <1>12 DEF file_copy
    <3> QED BY <2>p, <3>1
  <2>3. ~OnParams(c)' /\ \A e \in Caller : e # c => job'[e] = job[e]
    BY <1>t, <2>2 DEF FilesTypeOK, OnParams
  <2> QED BY <1>q, <2>1, <2>3
<1>13. ASSUME NEW c \in Caller, NEW p \in Path, NEW q \in Path, file_move(c, p, q) PROVE Goal
  <2>1. disk' = [disk EXCEPT ![q] = disk[p], ![p] = Absent] /\ UNCHANGED <<job, paramsMu, lastParam>>
    BY <1>13 DEF file_move
  <2>2. disk'[ParamsPath] = disk[ParamsPath]
    BY <1>n, <1>t, <2>1 DEF FilesTypeOK
  <2> QED BY <1>s, <2>1, <2>2
<1>14. ASSUME UNCHANGED filevars PROVE Goal
  BY <1>s, <1>14 DEF filevars
<1>15. Goal
  BY <1>1, <1>2, <1>3, <1>4, <1>5, <1>6, <1>7, <1>8, <1>9, <1>10, <1>11, <1>12, <1>13, <1>14
     DEF FilesNext
<1> QED BY <1>15 DEF ParamsInv

(* setParam holds paramsMu from its read to its rename: for any number of callers and
   keys, and wherever the process dies, the params file holds the last stored value of
   every key, provided a params file that is there can be read. *)
THEOREM ParamsCorrect ==
    ASSUME ~ReadFaults
    PROVE  FilesSpec => []ParamsKept
<1>1. ParamsInv => ParamsKept
  BY DEF ParamsInv
<1>2. FilesInv /\ ParamsInv /\ [FilesNext]_filevars => ParamsInv'
  BY ParamsStep
<1> QED BY <1>1, <1>2, FilesInitOK, FilesStep, PTL DEF FilesSpec

-----------------------------------------------------------------------------
(* Database.  *)

DbType == [open : BOOLEAN, tx : {"none", "live", "done"}, rows : SUBSET Sess, pend : SUBSET Sess]
RunType == [op : TxOps \cup StmtOps \cup {"none", "disconnect", "disconnect_all"} \cup HookOps,
            h : Handle \cup {Free},
            at : {"idle", "lookup", "lock", "hook", "close", "named"},
            held : SUBSET Handle, nested : BOOLEAN, rest : SUBSET Handle]

DbTypeOK ==
    /\ db \in [Handle -> DbType]
    /\ run \in [Sess -> RunType]
    /\ dbHandles \subseteq Handle /\ namedDBs \subseteq Handle

DbInv == /\ DbTypeOK /\ TxEndsWithHandle
         /\ \A s \in Sess : run[s].at = "lock" => run[s].h \in Handle

RunOK ==
    /\ run \in [Sess -> RunType]
    /\ \A s \in Sess : run[s].at = "lock" => run[s].h \in Handle

\* Updating one field of a record keeps the others.
LEMMA ScriptNestedUpdate ==
    ASSUME NEW A, NEW B, NEW C, NEW D, NEW E, NEW F, NEW v \in E, NEW r \in [op : A, h : B, at : C, held : D, nested : E, rest : F]
    PROVE  [r EXCEPT !.nested = v] \in [op : A, h : B, at : C, held : D, nested : E, rest : F] /\ [r EXCEPT !.nested = v].at = r.at
  BY SMT
LEMMA ScriptNested ==
    ASSUME NEW r \in RunType, NEW v \in BOOLEAN
    PROVE  [r EXCEPT !.nested = v] \in RunType /\ [r EXCEPT !.nested = v].at = r.at
  BY ScriptNestedUpdate DEF RunType

LEMMA ScriptOpUpdate ==
    ASSUME NEW A, NEW B, NEW C, NEW D, NEW E, NEW F, NEW v \in A, NEW r \in [op : A, h : B, at : C, held : D, nested : E, rest : F]
    PROVE  [r EXCEPT !.op = v] \in [op : A, h : B, at : C, held : D, nested : E, rest : F] /\ [r EXCEPT !.op = v].at = r.at
  BY SMT
LEMMA ScriptOp ==
    ASSUME NEW r \in RunType, NEW v \in TxOps \cup StmtOps \cup {"none", "disconnect", "disconnect_all"} \cup HookOps
    PROVE  [r EXCEPT !.op = v] \in RunType /\ [r EXCEPT !.op = v].at = r.at
  BY ScriptOpUpdate DEF RunType

LEMMA ScriptHandleUpdate ==
    ASSUME NEW A, NEW B, NEW C, NEW D, NEW E, NEW F, NEW v \in B, NEW r \in [op : A, h : B, at : C, held : D, nested : E, rest : F]
    PROVE  [r EXCEPT !.h = v] \in [op : A, h : B, at : C, held : D, nested : E, rest : F] /\ [r EXCEPT !.h = v].at = r.at
  BY SMT
LEMMA ScriptHandle ==
    ASSUME NEW r \in RunType, NEW v \in Handle \cup {Free}
    PROVE  [r EXCEPT !.h = v] \in RunType /\ [r EXCEPT !.h = v].at = r.at
  BY ScriptHandleUpdate DEF RunType

LEMMA ScriptAtUpdate ==
    ASSUME NEW A, NEW B, NEW C, NEW D, NEW E, NEW F, NEW v \in C, NEW r \in [op : A, h : B, at : C, held : D, nested : E, rest : F]
    PROVE  [r EXCEPT !.at = v] \in [op : A, h : B, at : C, held : D, nested : E, rest : F] /\ [r EXCEPT !.at = v].at = v
  BY SMT
LEMMA ScriptAt ==
    ASSUME NEW r \in RunType, NEW v \in {"idle", "lookup", "lock", "hook", "close", "named"}
    PROVE  [r EXCEPT !.at = v] \in RunType /\ [r EXCEPT !.at = v].at = v
  BY ScriptAtUpdate DEF RunType

LEMMA DbOpenUpdate ==
    ASSUME NEW A, NEW B, NEW C, NEW D, NEW v \in A, NEW d \in [open : A, tx : B, rows : C, pend : D]
    PROVE  [d EXCEPT !.open = v] \in [open : A, tx : B, rows : C, pend : D] /\ [d EXCEPT !.open = v].tx = d.tx /\ [d EXCEPT !.open = v].pend = d.pend
  BY SMT
LEMMA DbOpen ==
    ASSUME NEW d \in DbType, NEW v \in BOOLEAN
    PROVE  [d EXCEPT !.open = v] \in DbType /\ [d EXCEPT !.open = v].tx = d.tx /\ [d EXCEPT !.open = v].pend = d.pend
  BY DbOpenUpdate DEF DbType

LEMMA DbTxUpdate ==
    ASSUME NEW A, NEW B, NEW C, NEW D, NEW v \in B, NEW d \in [open : A, tx : B, rows : C, pend : D]
    PROVE  [d EXCEPT !.tx = v] \in [open : A, tx : B, rows : C, pend : D] /\ [d EXCEPT !.tx = v].tx = v
  BY SMT
LEMMA DbTx ==
    ASSUME NEW d \in DbType, NEW v \in {"none", "live", "done"}
    PROVE  [d EXCEPT !.tx = v] \in DbType /\ [d EXCEPT !.tx = v].tx = v
  BY DbTxUpdate DEF DbType

LEMMA DbPendUpdate ==
    ASSUME NEW A, NEW B, NEW C, NEW D, NEW v \in D, NEW d \in [open : A, tx : B, rows : C, pend : D]
    PROVE  [d EXCEPT !.pend = v] \in [open : A, tx : B, rows : C, pend : D] /\ [d EXCEPT !.pend = v].tx = d.tx /\ [d EXCEPT !.pend = v].pend = v
  BY SMT
LEMMA DbPend ==
    ASSUME NEW d \in DbType, NEW v \in SUBSET Sess
    PROVE  [d EXCEPT !.pend = v] \in DbType /\ [d EXCEPT !.pend = v].tx = d.tx /\ [d EXCEPT !.pend = v].pend = v
  BY DbPendUpdate DEF DbType

\* A call that is over leaves the script idle or in the hook it was made from.
LEMMA ReturnedType ==
    ASSUME NEW r \in RunType
    PROVE  Returned(r) \in RunType /\ Returned(r).at # "lock"
<1>1. CASE r.nested
  <2>1. Returned(r) = [r EXCEPT !.at = "hook", !.nested = FALSE]
    BY <1>1 DEF Returned
  <2>2. PICK q : q = [r EXCEPT !.at = "hook"]
    OBVIOUS
  <2>3. q \in RunType /\ q.at = "hook"
    BY <2>2, SMT DEF RunType
  <2>4. Returned(r) = [q EXCEPT !.nested = FALSE]
    BY <2>1, <2>2, Zenon
  <2>5. [q EXCEPT !.nested = FALSE] \in RunType /\ [q EXCEPT !.nested = FALSE].at = q.at
    BY <2>3, ScriptNested
  <2>. QED BY <2>3, <2>4, <2>5, Zenon
<1>2. CASE ~r.nested
  <2>1. Returned(r) = IdleScript
    BY <1>2 DEF Returned
  <2>. QED BY <2>1, SMT DEF RunType, IdleScript
<1>. QED BY <1>1, <1>2

\* Whether the call succeeds or fails, the script's record keeps its type.
LEMMA DoneRun ==
    ASSUME RunOK, NEW s \in Sess, run' = [run EXCEPT ![s] = Returned(@)]
    PROVE  RunOK'
<1>1. Returned(run[s]) \in RunType /\ Returned(run[s]).at # "lock"
  BY ReturnedType DEF RunOK
<1>2. run' = [run EXCEPT ![s] = Returned(run[s])]
  OBVIOUS
<1>3. PICK r : r = Returned(run[s])
  OBVIOUS
<1>. QED BY <1>1, <1>2, <1>3 DEF RunOK

\* The script goes to its hook, or to closing.
LEMMA MoveRun ==
    ASSUME RunOK, NEW s \in Sess, NEW a \in {"hook", "close"}, NEW H \in SUBSET Handle,
           \/ run' = [run EXCEPT ![s].at = a, ![s].held = H]
           \/ run' = [run EXCEPT ![s].at = a, ![s].rest = H]
    PROVE  RunOK'
<1>1. PICK f : f = [run EXCEPT ![s].at = a]
  OBVIOUS
<1>2. f \in [Sess -> RunType] /\ f[s].at = a /\ \A x \in Sess : x # s => f[x] = run[x]
  BY <1>1, SMT DEF RunOK, RunType
<1>3. run' = [f EXCEPT ![s].held = H] \/ run' = [f EXCEPT ![s].rest = H]
  BY <1>1, Zenon
<1>4. run' \in [Sess -> RunType] /\ run'[s].at = a /\ \A x \in Sess : x # s => run'[x] = run[x]
  BY <1>2, <1>3, SMT DEF RunType
<1>. QED BY <1>4 DEF RunOK

LEMMA FailRun ==
    ASSUME RunOK, NEW s \in Sess, NEW code, NEW held \in SUBSET Handle, fail(s, code, held)
    PROVE  RunOK'
<1>1. CASE run[s].nested
  BY <1>1, DoneRun DEF fail
<1>2. CASE ~run[s].nested
  <2>1. run' = [run EXCEPT ![s].at = "hook", ![s].held = held]
    BY <1>2 DEF fail
  <2>. QED BY <2>1, MoveRun
<1>. QED BY <1>1, <1>2

LEMMA DbInit == DatabaseInit => DbInv
  BY SMT DEF DatabaseInit, DbInv, DbTypeOK, DbType, RunType, TxEndsWithHandle, IdleScript, Handle

\* Whoever holds the mutex and finds a transaction finds the connection open.
LEMMA HandleStep ==
    ASSUME DbInv, NEW s \in Sess, NEW h \in Handle,
           \/ UNCHANGED db
           \/ db[h].tx = "none" /\ db[h].open /\ db' = [db EXCEPT ![h].tx = "live"]
           \/ db[h].tx = "live" /\ db' = [db EXCEPT ![h].tx = "none", ![h].rows = @ \cup db[h].pend, ![h].pend = {}]
           \/ db[h].tx # "none" /\ \E t \in {"none", "done"} : db' = [db EXCEPT ![h].tx = t, ![h].pend = {}]
           \/ db[h].tx = "live" /\ db' = [db EXCEPT ![h].pend = @ \cup {s}]
           \/ db[h].tx = "none" /\ db[h].open /\ db' = [db EXCEPT ![h].rows = @ \cup {s}]
    PROVE  db' \in [Handle -> DbType] /\ TxEndsWithHandle'
<1>0. db \in [Handle -> DbType] /\ TxEndsWithHandle
  BY DEF DbInv, DbTypeOK
<1>1. CASE UNCHANGED db
  BY <1>0, <1>1 DEF TxEndsWithHandle
<1>2. CASE db[h].open /\ db' = [db EXCEPT ![h].tx = "live"]
  BY <1>0, <1>2, SMT DEF TxEndsWithHandle, DbType
<1>3. CASE db[h].tx # "none" /\ \E t \in {"none", "done"} : db' = [db EXCEPT ![h].tx = t, ![h].pend = {}]
  <2>1. PICK t \in {"none", "done"} : db' = [db EXCEPT ![h].tx = t, ![h].pend = {}]
    BY <1>3
  <2>2. PICK f : f = [db EXCEPT ![h].tx = t]
    OBVIOUS
  <2>3. f \in [Handle -> DbType] /\ f[h].open /\ \A x \in Handle : x # h => f[x] = db[x]
    BY <1>0, <1>3, <2>2, SMT DEF TxEndsWithHandle, DbType
  <2>4. db' = [f EXCEPT ![h].pend = {}]
    BY <2>1, <2>2, Zenon
  <2>. QED BY <1>0, <2>3, <2>4, SMT DEF TxEndsWithHandle, DbType
<1>4. CASE db[h].tx = "live" /\ db' = [db EXCEPT ![h].pend = @ \cup {s}]
  BY <1>0, <1>4, SMT DEF TxEndsWithHandle, DbType
<1>5. CASE db[h].open /\ db' = [db EXCEPT ![h].rows = @ \cup {s}]
  BY <1>0, <1>5, SMT DEF TxEndsWithHandle, DbType
<1>6. CASE /\ db[h].tx = "live"
           /\ db' = [db EXCEPT ![h].tx = "none", ![h].rows = @ \cup db[h].pend, ![h].pend = {}]
  <2>1. PICK f : f = [db EXCEPT ![h].tx = "none"]
    OBVIOUS
  <2>2. f \in [Handle -> DbType] /\ f[h].open /\ \A x \in Handle : x # h => f[x] = db[x]
    BY <1>0, <1>6, <2>1, SMT DEF TxEndsWithHandle, DbType
  <2>3. PICK R : R = db[h].rows \cup db[h].pend
    OBVIOUS
  <2>4. R \in SUBSET Sess
    BY <1>0, <2>3, SMT DEF DbType
  <2>5. PICK g : g = [f EXCEPT ![h].rows = R]
    OBVIOUS
  <2>6. g \in [Handle -> DbType] /\ g[h].open /\ \A x \in Handle : x # h => g[x] = db[x]
    BY <2>2, <2>4, <2>5, SMT DEF DbType
  <2>7. db' = [g EXCEPT ![h].pend = {}]
    BY <1>6, <2>1, <2>3, <2>5, Zenon
  <2>. QED BY <1>0, <2>6, <2>7, SMT DEF TxEndsWithHandle, DbType
<1>. QED BY <1>1, <1>2, <1>3, <1>4, <1>5, <1>6

\* What a transaction call or a statement does to the handle it holds the mutex of.
LEMMA TxStep ==
    ASSUME DbInv, NEW s \in Sess,
           tx_begin(s) \/ tx_commit(s) \/ tx_rollback(s) \/ executeDBQuery(s) \/ Query(s)
    PROVE  DbInv'
<1>0. RunOK
  BY DEF DbInv, DbTypeOK, RunOK
<1>. PICK h : h = run[s].h
  OBVIOUS
<1>h. h \in Handle
  BY DEF DbInv, tx_begin, tx_commit, tx_rollback, executeDBQuery, Query, At
<1>r. RunOK'
  <2>1. done(s) => RunOK'
    BY <1>0, DoneRun DEF done
  <2>2. \A held \in SUBSET Handle, code \in {"connected", "generic", "not connected"} : fail(s, code, held) => RunOK'
    BY <1>0, FailRun
  <2>3. {h} \in SUBSET Handle /\ {} \in SUBSET Handle
    BY <1>h
  <2>. QED BY <2>1, <2>2, <2>3 DEF tx_begin, tx_commit, tx_rollback, executeDBQuery, Query
<1>u. UNCHANGED <<dbHandles, namedDBs>>
  BY DEF tx_begin, tx_commit, tx_rollback, executeDBQuery, Query
<1>d. db' \in [Handle -> DbType] /\ TxEndsWithHandle'
  <2>1. \/ UNCHANGED db
        \/ db[h].tx = "none" /\ db[h].open /\ db' = [db EXCEPT ![h].tx = "live"]
        \/ db[h].tx = "live" /\ db' = [db EXCEPT ![h].tx = "none", ![h].rows = @ \cup db[h].pend, ![h].pend = {}]
        \/ db[h].tx # "none" /\ \E t \in {"none", "done"} : db' = [db EXCEPT ![h].tx = t, ![h].pend = {}]
        \/ db[h].tx = "live" /\ db' = [db EXCEPT ![h].pend = @ \cup {s}]
        \/ db[h].tx = "none" /\ db[h].open /\ db' = [db EXCEPT ![h].rows = @ \cup {s}]
    BY Zenon DEF tx_begin, tx_commit, tx_rollback, executeDBQuery, Query
  <2>. QED BY <1>h, <2>1, HandleStep DEF DbInv, DbTypeOK
<1>. QED BY <1>r, <1>u, <1>d DEF DbInv, DbTypeOK, RunOK

\* Closing ends the transaction together with the connection.
LEMMA CloseStep ==
    ASSUME DbInv, NEW s \in Sess, closeNext(s)
    PROVE  DbInv'
<1>1. PICK h \in run[s].rest : db' = Close(h) /\ run' = [run EXCEPT ![s].rest = @ \ {h}]
  BY DEF closeNext
<1>2. h \in Handle
  BY SMT DEF DbInv, DbTypeOK, RunType
<1>3. db' \in [Handle -> DbType] /\ TxEndsWithHandle'
  <2>3. PICK d : d = db[h]
    OBVIOUS
  <2>4. d \in DbType
    BY <1>2, <2>3 DEF DbInv, DbTypeOK
  <2>5. PICK d1 : d1 = [d EXCEPT !.open = FALSE]
    OBVIOUS
  <2>6. d1 \in DbType
    BY <2>4, <2>5, DbOpen
  <2>7. PICK d2 : d2 = [d1 EXCEPT !.tx = "none"]
    OBVIOUS
  <2>8. d2 \in DbType /\ d2.tx = "none"
    BY <2>6, <2>7, DbTx
  <2>9. PICK r : r = [d2 EXCEPT !.pend = {}]
    OBVIOUS
  <2>2. r \in DbType /\ r.tx = "none" /\ r.pend = {}
    BY <2>8, <2>9, DbPend
  <2>10. db' = [db EXCEPT ![h] = r]
    BY <1>1, <2>3, <2>5, <2>7, <2>9, Zenon DEF Close
  <2>. QED BY <1>2, <2>2, <2>10, SMT DEF DbInv, DbTypeOK, TxEndsWithHandle
<1>4. RunOK'
  BY <1>1, SMT DEF DbInv, DbTypeOK, RunType, RunOK
<1>5. UNCHANGED <<dbHandles, namedDBs>>
  BY DEF closeNext
<1>. QED BY <1>3, <1>4, <1>5 DEF DbInv, DbTypeOK, RunOK

\* The steps that touch no transaction: calls, lookups, hooks, the registries.
LEMMA ScriptStep ==
    ASSUME DbInv, NEW s \in Sess,
           \/ \E h \in Handle, op \in TxOps \cup StmtOps \cup {"disconnect"} : call(s, op, h)
           \/ call(s, "disconnect_all", Free)
           \/ \E h \in Runtime : connect_db(s, h)
           \/ assignErrorCode(s) \/ hookCalls(s) \/ hookReturns(s)
           \/ getDBHandle(s) \/ disconnect_db(s) \/ closeDB(s) \/ CloseNamedDBs(s) \/ closed(s)
    PROVE  DbInv'
<1>0. RunOK
  BY DEF DbInv, DbTypeOK, RunOK
<1>e. {} \in SUBSET Handle
  OBVIOUS
<1>. DEFINE Same == UNCHANGED db /\ dbHandles' \subseteq Handle /\ namedDBs' \subseteq Handle
<1>q. ASSUME Same, RunOK' PROVE DbInv'
  BY <1>q, SMT DEF DbInv, DbTypeOK, RunOK, TxEndsWithHandle
<1>1. ASSUME NEW h \in Handle \cup {Free}, NEW op \in TxOps \cup StmtOps \cup {"disconnect", "disconnect_all"},
             call(s, op, h)
      PROVE  DbInv'
  <2>1. run' = [run EXCEPT ![s] = [IdleScript EXCEPT !.op = op, !.h = h, !.at = "lookup"]]
    BY <1>1 DEF call
  <2>0. IdleScript \in RunType
    BY SMT DEF RunType, IdleScript
  <2>a. PICK p : p = [IdleScript EXCEPT !.op = op]
    OBVIOUS
  <2>b. p \in RunType
    BY <2>0, <2>a, ScriptOp
  <2>e. PICK q : q = [p EXCEPT !.h = h]
    OBVIOUS
  <2>f. q \in RunType
    BY <2>b, <2>e, ScriptHandle
  <2>g. PICK r : r = [q EXCEPT !.at = "lookup"]
    OBVIOUS
  <2>c. r \in RunType /\ r.at = "lookup"
    BY <2>f, <2>g, ScriptAt
  <2>d. run' = [run EXCEPT ![s] = r]
    BY <2>1, <2>a, <2>e, <2>g, Zenon
  <2>2. RunOK'
    BY <1>0, <2>c, <2>d, SMT DEF RunOK
  <2>3. Same
    BY <1>1 DEF call, DbInv, DbTypeOK
  <2>. QED BY <1>q, <2>2, <2>3
<1>2. ASSUME NEW h \in Runtime, connect_db(s, h) PROVE DbInv'
  <2>1. CASE dbHandles' = dbHandles \cup {h} /\ db' = [db EXCEPT ![h].open = TRUE] /\ UNCHANGED run
    <3>1. h \in Handle /\ ~db[h].open
      BY <1>2 DEF connect_db, Handle
    <3>2. UNCHANGED namedDBs
      BY <1>2 DEF connect_db
    <3>a. PICK r : r = [db[h] EXCEPT !.open = TRUE]
      OBVIOUS
    <3>b. r \in DbType /\ r.tx = db[h].tx /\ r.pend = db[h].pend
      BY <3>1, <3>a, DbOpen DEF DbInv, DbTypeOK
    <3>c. db' = [db EXCEPT ![h] = r]
      BY <2>1, <3>a, Zenon
    <3>3. db' \in [Handle -> DbType] /\ TxEndsWithHandle'
      BY <3>1, <3>b, <3>c, SMT DEF DbInv, DbTypeOK, TxEndsWithHandle
    <3>4. dbHandles' \subseteq Handle /\ namedDBs' \subseteq Handle
      BY <2>1, <3>1, <3>2 DEF DbInv, DbTypeOK
    <3>5. RunOK'
      BY <1>0, <2>1 DEF RunOK
    <3>. QED BY <3>3, <3>4, <3>5 DEF DbInv, DbTypeOK, RunOK
  <2>2. CASE fail(s, "comm", {}) /\ UNCHANGED <<dbHandles, db>>
    <3>1. RunOK'
      BY <1>0, <1>e, <2>2, FailRun
    <3>2. Same
      BY <1>2, <2>2 DEF connect_db, DbInv, DbTypeOK
    <3>. QED BY <1>q, <3>1, <3>2
  <2>. QED BY <1>2, <2>1, <2>2 DEF connect_db
<1>3. CASE assignErrorCode(s)
  <2>1. RunOK' /\ Same
    BY <1>0, <1>3 DEF RunOK, assignErrorCode, DbInv, DbTypeOK
  <2>. QED BY <1>q, <2>1
<1>4. CASE hookCalls(s)
  <2>1. PICK op \in HookOps, h \in Handle :
            run' = [run EXCEPT ![s].op = op, ![s].h = h, ![s].at = "lookup", ![s].nested = TRUE]
    BY <1>4 DEF hookCalls
  <2>0. run[s] \in RunType
    BY <1>0 DEF RunOK
  <2>a. PICK p : p = [run[s] EXCEPT !.op = op]
    OBVIOUS
  <2>b. p \in RunType
    BY <2>0, <2>a, ScriptOp
  <2>c. PICK q : q = [p EXCEPT !.h = h]
    OBVIOUS
  <2>d. q \in RunType
    BY <2>b, <2>c, ScriptHandle
  <2>e. PICK t : t = [q EXCEPT !.at = "lookup"]
    OBVIOUS
  <2>f. t \in RunType /\ t.at = "lookup"
    BY <2>d, <2>e, ScriptAt
  <2>g. PICK r : r = [t EXCEPT !.nested = TRUE]
    OBVIOUS
  <2>h. r \in RunType /\ r.at = "lookup"
    BY <2>f, <2>g, ScriptNested
  <2>i. run' \in [Sess -> RunType] /\ run'[s] = r /\ \A x \in Sess : x # s => run'[x] = run[x]
    <3>1. PICK f1 : f1 = [run EXCEPT ![s].op = op]
      OBVIOUS
    <3>2. PICK f2 : f2 = [f1 EXCEPT ![s].h = h]
      OBVIOUS
    <3>3. PICK f3 : f3 = [f2 EXCEPT ![s].at = "lookup"]
      OBVIOUS
    <3>4. f1 = [run EXCEPT ![s] = p]
      BY <2>a, <3>1, Zenon
    <3>5. f1 \in [Sess -> RunType] /\ f1[s] = p /\ \A x \in Sess : x # s => f1[x] = run[x]
      BY <1>0, <2>b, <3>4 DEF RunOK
    <3>6. f2 = [f1 EXCEPT ![s] = q]
      BY <2>c, <3>2, <3>5, Zenon
    <3>7. f2 \in [Sess -> RunType] /\ f2[s] = q /\ \A x \in Sess : x # s => f2[x] = run[x]
      BY <2>d, <3>5, <3>6
    <3>8. f3 = [f2 EXCEPT ![s] = t]
      BY <2>e, <3>3, <3>7, Zenon
    <3>9. f3 \in [Sess -> RunType] /\ f3[s] = t /\ \A x \in Sess : x # s => f3[x] = run[x]
      BY <2>f, <3>7, <3>8
    <3>10. run' = [f3 EXCEPT ![s] = r]
      BY <2>1, <2>g, <3>1, <3>2, <3>3, <3>9, Zenon
    <3>. QED BY <2>h, <3>9, <3>10
  <2>2. RunOK'
    BY <1>0, <2>h, <2>i DEF RunOK
  <2>3. Same
    BY <1>4 DEF hookCalls, DbInv, DbTypeOK
  <2>. QED BY <1>q, <2>2, <2>3
<1>5. CASE hookReturns(s)
  <2>1. run' = [run EXCEPT ![s] = IdleScript]
    BY <1>5 DEF hookReturns
  <2>2. RunOK'
    BY <1>0, <2>1, SMT DEF RunOK, RunType, IdleScript
  <2>3. Same
    BY <1>5 DEF hookReturns, DbInv, DbTypeOK
  <2>. QED BY <1>q, <2>2, <2>3
<1>6. CASE getDBHandle(s)
  <2>1. ASSUME run[s].h \in dbHandles \cup namedDBs PROVE RunOK'
    <3>1. run' = [run EXCEPT ![s].at = "lock"] /\ run[s].h \in Handle
      BY <1>6, <2>1 DEF getDBHandle, DbInv, DbTypeOK
    <3>. QED BY <1>0, <3>1, SMT DEF RunOK, RunType
  <2>2. ASSUME run[s].h \notin dbHandles \cup namedDBs PROVE RunOK'
    BY <1>0, <1>e, <1>6, <2>2, FailRun DEF getDBHandle
  <2>3. Same
    BY <1>6 DEF getDBHandle, DbInv, DbTypeOK
  <2>4. RunOK'
    BY <2>1, <2>2
  <2>. QED BY <1>q, <2>3, <2>4
<1>7. CASE disconnect_db(s)
  <2>1. ASSUME run[s].h \in dbHandles PROVE RunOK' /\ Same
    <3>1. run' = [run EXCEPT ![s].at = "close", ![s].rest = {run[s].h}] /\ run[s].h \in Handle
      BY <1>7, <2>1 DEF disconnect_db, DbInv, DbTypeOK
    <3>2. Same
      BY <1>7, <2>1 DEF disconnect_db, DbInv, DbTypeOK
    <3>3. RunOK'
      <4>1. PICK H : H = {run[s].h}
        OBVIOUS
      <4>2. H \in SUBSET Handle /\ run' = [run EXCEPT ![s].at = "close", ![s].rest = H]
        BY <3>1, <4>1, Zenon
      <4>. QED BY <1>0, <4>2, MoveRun
    <3>. QED BY <3>2, <3>3
  <2>2. ASSUME run[s].h \notin dbHandles PROVE RunOK' /\ Same
    <3>1. RunOK'
      BY <1>0, <1>e, <1>7, <2>2, FailRun DEF disconnect_db
    <3>. QED BY <1>7, <2>2, <3>1 DEF disconnect_db, DbInv, DbTypeOK
  <2>. QED BY <1>q, <2>1, <2>2
<1>8. CASE closeDB(s) \/ CloseNamedDBs(s)
  <2>1. PICK R \in SUBSET Handle : run' = [run EXCEPT ![s].at = "close", ![s].rest = R]
    BY <1>8 DEF closeDB, CloseNamedDBs, DbInv, DbTypeOK
  <2>2. RunOK'
    BY <1>0, <2>1, MoveRun
  <2>3. Same
    BY <1>8 DEF closeDB, CloseNamedDBs, DbInv, DbTypeOK
  <2>. QED BY <1>q, <2>2, <2>3
<1>9. CASE closed(s)
  <2>1. \/ run' = [run EXCEPT ![s] = Returned(@)]
        \/ run' = [run EXCEPT ![s].at = "named"]
    BY <1>9 DEF closed, done
  <2>2. ASSUME run' = [run EXCEPT ![s] = Returned(@)] PROVE RunOK'
    BY <1>0, <2>2, DoneRun
  <2>3. ASSUME run' = [run EXCEPT ![s].at = "named"] PROVE RunOK'
    BY <1>0, <2>3, SMT DEF RunOK, RunType
  <2>4. Same
    BY <1>9 DEF closed, DbInv, DbTypeOK
  <2>5. RunOK'
    BY <2>1, <2>2, <2>3
  <2>. QED BY <1>q, <2>4, <2>5
<1>. QED BY <1>1, <1>2, <1>3, <1>4, <1>5, <1>6, <1>7, <1>8, <1>9

LEMMA DbStepInv == DbInv /\ [DatabaseNext]_dbvars => DbInv'
<1>1. ASSUME DbInv, DatabaseNext PROVE DbInv'
  BY <1>1, TxStep, CloseStep, ScriptStep DEF DatabaseNext, DbStep
<1>2. ASSUME DbInv, UNCHANGED dbvars PROVE DbInv'
  BY <1>2 DEF DbInv, DbTypeOK, TxEndsWithHandle, dbvars
<1>. QED BY <1>1, <1>2

(***************************************************************************)
(* However k.disconnect_db races with the transaction calls and statements *)
(* of other sessions on the same handle, and whatever the k.on_error hooks *)
(* call in between, a closed connection has no transaction and no write    *)
(* waiting in one: every step on a handle takes its mutex and looks at the *)
(* connection again.                                                       *)
(***************************************************************************)
THEOREM TxCorrect == DatabaseSpec => []TxEndsWithHandle
<1>1. DbInv => TxEndsWithHandle
  BY DEF DbInv
<1>. QED BY <1>1, DbInit, DbStepInv, PTL DEF DatabaseSpec

-----------------------------------------------------------------------------
(* Wire. *)

WireType == [kind : Protocol, known : BOOLEAN, open : BOOLEAN, mu : WSess \cup {NoOne}]
OpSet == {"none", "quit"} \cup UNION {Simple(k) \cup Transfer(k) : k \in Protocol}
AtSet == {"idle", "lock", "sent", "data", "last", "close", "done", "failed"}
ClientType == [op : OpSet, at : AtSet, id : Nat]

WireTypeOK ==
    /\ wire \in WireType
    /\ client \in [WSess -> ClientType]
    /\ srv \in Seq(Nat) /\ replies \in Seq(Nat) /\ undotted \in Seq(Nat)
    /\ late \in BOOLEAN /\ wrong \in BOOLEAN /\ cmds \in Nat

Engaged(s) == client[s].at \notin {"idle", "lock"}
Asked(s) == client[s].at \in {"sent", "last"}

(* As long as no answer was left behind, the connection holds exactly the answer that *)
(* the holder of the mutex waits for.                                                 *)
AnswerInv ==
    ~late /\ wire.kind # "socket" =>
        /\ ~wrong /\ undotted = <<>>
        /\ \A s \in WSess : Engaged(s) => wire.mu = s
        /\ \A s \in WSess : Asked(s) => \/ srv = <<client[s].id>> /\ replies = <<>>
                                        \/ srv = <<>> /\ replies = <<client[s].id>>
        /\ (\A s \in WSess : ~Asked(s)) => srv = <<>> /\ replies = <<>>

WireInv == WireTypeOK /\ AnswerInv


\* Updating one field of the connection or of a client keeps the others.
LEMMA WireKnownUpdate ==
    ASSUME NEW A, NEW B, NEW C, NEW D, NEW v \in B, NEW r \in [kind : A, known : B, open : C, mu : D]
    PROVE  /\ [r EXCEPT !.known = v] \in [kind : A, known : B, open : C, mu : D]
           /\ [r EXCEPT !.known = v].kind = r.kind /\ [r EXCEPT !.known = v].mu = r.mu
  BY SMT
LEMMA WireOpenUpdate ==
    ASSUME NEW A, NEW B, NEW C, NEW D, NEW v \in C, NEW r \in [kind : A, known : B, open : C, mu : D]
    PROVE  /\ [r EXCEPT !.open = v] \in [kind : A, known : B, open : C, mu : D]
           /\ [r EXCEPT !.open = v].kind = r.kind /\ [r EXCEPT !.open = v].mu = r.mu
  BY SMT
LEMMA WireMuUpdate ==
    ASSUME NEW A, NEW B, NEW C, NEW D, NEW v \in D, NEW r \in [kind : A, known : B, open : C, mu : D]
    PROVE  /\ [r EXCEPT !.mu = v] \in [kind : A, known : B, open : C, mu : D]
           /\ [r EXCEPT !.mu = v].kind = r.kind /\ [r EXCEPT !.mu = v].mu = v
  BY SMT

LEMMA WireUpdate ==
    ASSUME NEW r \in WireType, NEW b \in BOOLEAN, NEW m \in WSess \cup {NoOne}
    PROVE  /\ [r EXCEPT !.known = b] \in WireType
           /\ [r EXCEPT !.known = b].kind = r.kind /\ [r EXCEPT !.known = b].mu = r.mu
           /\ [r EXCEPT !.open = b] \in WireType
           /\ [r EXCEPT !.open = b].kind = r.kind /\ [r EXCEPT !.open = b].mu = r.mu
           /\ [r EXCEPT !.mu = m] \in WireType
           /\ [r EXCEPT !.mu = m].kind = r.kind /\ [r EXCEPT !.mu = m].mu = m
<1>1. /\ [r EXCEPT !.known = b] \in WireType
      /\ [r EXCEPT !.known = b].kind = r.kind /\ [r EXCEPT !.known = b].mu = r.mu
  BY WireKnownUpdate DEF WireType
<1>2. /\ [r EXCEPT !.open = b] \in WireType
      /\ [r EXCEPT !.open = b].kind = r.kind /\ [r EXCEPT !.open = b].mu = r.mu
  BY WireOpenUpdate DEF WireType
<1>3. /\ [r EXCEPT !.mu = m] \in WireType
      /\ [r EXCEPT !.mu = m].kind = r.kind /\ [r EXCEPT !.mu = m].mu = m
  BY WireMuUpdate DEF WireType
<1>. QED BY <1>1, <1>2, <1>3

LEMMA ClientAtUpdate ==
    ASSUME NEW A, NEW B, NEW C, NEW v \in B, NEW r \in [op : A, at : B, id : C]
    PROVE  /\ [r EXCEPT !.at = v] \in [op : A, at : B, id : C]
           /\ [r EXCEPT !.at = v].at = v /\ [r EXCEPT !.at = v].id = r.id
  BY SMT

\* A client that moves on keeps its command, and the others stay where they are.
LEMMA ClientMoves ==
    ASSUME client \in [WSess -> ClientType], NEW s \in WSess, NEW a \in AtSet,
           client' = [client EXCEPT ![s].at = a]
    PROVE  /\ client' \in [WSess -> ClientType] /\ client'[s].at = a /\ client'[s].id = client[s].id
           /\ \A x \in WSess : x # s => client'[x] = client[x]
<1>1. PICK r : r = [client[s] EXCEPT !.at = a]
  OBVIOUS
<1>2. r \in ClientType /\ r.at = a /\ r.id = client[s].id
  BY <1>1, ClientAtUpdate DEF ClientType
<1>3. client' = [client EXCEPT ![s] = r]
  BY <1>1, Zenon
<1>. QED BY <1>2, <1>3

LEMMA WireSubset ==
    ASSUME NEW A, NEW B, NEW C, NEW D, NEW b, NEW c, NEW d, b \subseteq B, c \subseteq C, d \subseteq D,
           NEW r \in [kind : A, known : b, open : c, mu : d]
    PROVE  r \in [kind : A, known : B, open : C, mu : D]
  BY SMT

LEMMA WireInitInv == WireInit => WireInv
<1>. SUFFICES ASSUME WireInit PROVE WireInv
  OBVIOUS
<1>1. client \in [WSess -> ClientType] /\ \A s \in WSess : client[s].at = "idle"
  BY SMT DEF WireInit, AtRest, ClientType, OpSet, AtSet
<1>2. wire \in WireType
  <2>1. {FALSE} \subseteq BOOLEAN /\ {NoOne} \subseteq WSess \cup {NoOne}
    BY Zenon
  <2>2. wire \in [kind : Protocol, known : {FALSE}, open : {FALSE}, mu : {NoOne}]
    BY DEF WireInit
  <2>. QED BY <2>1, <2>2, WireSubset DEF WireType
<1>3. srv \in Seq(Nat) /\ replies \in Seq(Nat) /\ undotted \in Seq(Nat) /\ cmds \in Nat
  BY DEF WireInit
<1>4. late \in BOOLEAN /\ wrong \in BOOLEAN
  BY Zenon DEF WireInit
<1>5. AnswerInv
  BY <1>1 DEF WireInit, AnswerInv, Engaged, Asked
<1>. QED BY <1>1, <1>2, <1>3, <1>4, <1>5, Zenon DEF WireInv, WireTypeOK

\* The command a client sends goes out on a connection that holds nothing of anybody else.
LEMMA SendInv ==
    ASSUME WireInv, NEW s \in WSess, sendCmd(s)
    PROVE  WireInv'
<1>1. PICK a \in {"sent", "failed"} : /\ client' = [client EXCEPT ![s].at = a]
                                      /\ a = IF wire.open THEN "sent" ELSE "failed"
  BY DEF sendCmd
<1>2. /\ client' \in [WSess -> ClientType] /\ client'[s].at = a /\ client'[s].id = client[s].id
      /\ \A x \in WSess : x # s => client'[x] = client[x]
  BY <1>1, ClientMoves DEF WireInv, WireTypeOK, AtSet
<1>3. client[s].id \in Nat /\ client[s].at = "lock"
  BY SMT DEF WireInv, WireTypeOK, ClientType, sendCmd, acquire
<1>4. /\ wire' \in WireType /\ wire'.kind = wire.kind
      /\ wire.kind # "socket" => wire.mu = NoOne /\ wire'.mu = s
  <2>1. CASE wire.kind # "socket"
    <3>1. wire.mu = NoOne /\ wire' = [wire EXCEPT !.mu = s]
      BY <2>1 DEF sendCmd, acquire, Locked
    <3>2. PICK w : w = [wire EXCEPT !.mu = s]
      OBVIOUS
    <3>3. w \in WireType /\ w.kind = wire.kind /\ w.mu = s
      BY <3>2, WireUpdate DEF WireInv, WireTypeOK
    <3>. QED BY <3>1, <3>2, <3>3
  <2>2. CASE wire.kind = "socket"
    BY <2>2 DEF sendCmd, acquire, Locked, WireInv, WireTypeOK
  <2>. QED BY <2>1, <2>2
<1>5. srv' \in Seq(Nat) /\ undotted' \in Seq(Nat) /\ UNCHANGED <<replies, late, wrong, cmds>>
  <2>1. <<client[s].id>> \in Seq(Nat)
    BY <1>3
  <2>2. srv \in Seq(Nat) /\ undotted \in Seq(Nat)
    BY DEF WireInv, WireTypeOK
  <2>3. srv \o undotted \o <<client[s].id>> \in Seq(Nat)
    BY <2>1, <2>2
  <2>. QED BY <2>2, <2>3 DEF sendCmd
<1>6. ASSUME ~late', wire'.kind # "socket" PROVE AnswerInv'
  <2>1. /\ ~wrong /\ undotted = <<>>
        /\ \A x \in WSess : Engaged(x) => wire.mu = x
        /\ (\A x \in WSess : ~Asked(x)) => srv = <<>> /\ replies = <<>>
    BY <1>4, <1>5, <1>6 DEF WireInv, AnswerInv
  <2>2. \A x \in WSess : ~Engaged(x)
    BY <1>4, <1>6, <2>1, WireAssumption
  <2>3. srv = <<>> /\ replies = <<>>
    BY <2>1, <2>2 DEF Engaged, Asked
  <2>4. \A x \in WSess : x # s => client'[x].at \in {"idle", "lock"}
    BY <1>2, <2>2 DEF Engaged
  <2>5. ~wrong' /\ undotted' = <<>> /\ replies' = <<>> /\ wire'.mu = s
    BY <1>4, <1>5, <1>6, <2>1, <2>3 DEF sendCmd
  <2>6. CASE wire.open
    <3>1. srv' = <<client'[s].id>> /\ client'[s].at = "sent"
      BY <1>1, <1>2, <1>3, <2>1, <2>3, <2>6 DEF sendCmd
    <3>. QED BY <2>4, <2>5, <3>1 DEF AnswerInv, Engaged, Asked
  <2>7. CASE ~wire.open
    <3>1. srv' = <<>> /\ client'[s].at = "failed"
      BY <1>1, <1>2, <2>3, <2>7 DEF sendCmd
    <3>. QED BY <2>4, <2>5, <3>1 DEF AnswerInv, Engaged, Asked
  <2>. QED BY <2>6, <2>7
<1>7. AnswerInv'
  BY <1>6 DEF AnswerInv
<1>8. late' \in BOOLEAN /\ wrong' \in BOOLEAN /\ cmds' \in Nat /\ replies' \in Seq(Nat)
  BY <1>5 DEF WireInv, WireTypeOK
<1>. QED BY <1>2, <1>4, <1>5, <1>7, <1>8, Zenon DEF WireInv, WireTypeOK

\* Who is engaged holds the mutex alone, and the connection holds nothing but what was asked for.
LEMMA Holder ==
    ASSUME WireInv, ~late, wire.kind # "socket", NEW s \in WSess, Engaged(s)
    PROVE  /\ wire.mu = s /\ ~wrong /\ undotted = <<>>
           /\ \A x \in WSess : x # s => client[x].at \in {"idle", "lock"}
           /\ Asked(s) => \/ srv = <<client[s].id>> /\ replies = <<>>
                          \/ srv = <<>> /\ replies = <<client[s].id>>
           /\ ~Asked(s) => srv = <<>> /\ replies = <<>>
<1>1. wire.mu = s /\ \A x \in WSess : x # s => ~Engaged(x)
  BY DEF WireInv, AnswerInv
<1>2. \A x \in WSess : x # s => ~Asked(x)
  BY <1>1 DEF Engaged, Asked
<1>. QED BY <1>1, <1>2 DEF WireInv, AnswerInv, Engaged

\* The client that holds the mutex moves on and leaves the connection empty, or with its question.
LEMMA Holds ==
    ASSUME WireInv, NEW s \in WSess, Engaged(s), WireTypeOK', wire'.kind = wire.kind, late => late',
           ~late' /\ wire.kind # "socket" =>
               /\ wire'.mu = wire.mu /\ ~wrong' /\ undotted' = <<>>
               /\ \/ client'[s].at \notin {"sent", "last"} /\ srv' = <<>> /\ replies' = <<>>
                  \/ client'[s].at \in {"sent", "last"} /\ srv' = <<client'[s].id>> /\ replies' = <<>>
                  \/ client'[s].at \in {"sent", "last"} /\ srv' = <<>> /\ replies' = <<client'[s].id>>,
           \A x \in WSess : x # s => client'[x] = client[x]
    PROVE  WireInv'
<1>1. ASSUME ~late', wire'.kind # "socket" PROVE AnswerInv'
  <2>1. wire.mu = s /\ \A x \in WSess : x # s => client'[x].at \in {"idle", "lock"}
    BY <1>1, Holder
  <2>2. ~wrong' /\ undotted' = <<>> /\ wire'.mu = s
    BY <1>1, <2>1
  <2>. QED BY <1>1, <2>1, <2>2 DEF AnswerInv, Engaged, Asked
<1>2. AnswerInv'
  BY <1>1 DEF AnswerInv
<1>. QED BY <1>2 DEF WireInv

\* A call takes the one answer that is there: its own.
LEMMA ReadInv ==
    ASSUME WireInv, NEW s \in WSess, readReply(s) \/ readPreliminary(s) \/ readLast(s)
    PROVE  WireInv'
<1>1. PICK a \in {"close", "done", "data", "failed"} : client' = [client EXCEPT ![s].at = a]
  BY DEF readReply, readPreliminary, readLast
<1>2. /\ client' \in [WSess -> ClientType] /\ client'[s].at = a /\ client'[s].id = client[s].id
      /\ \A x \in WSess : x # s => client'[x] = client[x]
  BY <1>1, ClientMoves DEF WireInv, WireTypeOK, AtSet
<1>3. /\ UNCHANGED <<wire, srv, undotted, late, cmds>> /\ replies # <<>> /\ replies' = Tail(replies)
      /\ wrong' = (wrong \/ Head(replies) # client[s].id) /\ Asked(s)
  BY Zenon DEF readReply, readPreliminary, readLast, Read, Asked
<1>4. Engaged(s)
  BY <1>3 DEF Asked, Engaged
<1>5. WireTypeOK'
  <2>1. replies' \in Seq(Nat)
    BY <1>3 DEF WireInv, WireTypeOK
  <2>2. wrong' \in BOOLEAN
    BY <1>3, Zenon
  <2>. QED BY <1>2, <1>3, <2>1, <2>2, Zenon DEF WireInv, WireTypeOK
<1>6. ASSUME ~late', wire.kind # "socket"
      PROVE  /\ wire'.mu = wire.mu /\ ~wrong' /\ undotted' = <<>>
             /\ client'[s].at \notin {"sent", "last"} /\ srv' = <<>> /\ replies' = <<>>
  <2>1. ~wrong /\ undotted = <<>> /\ srv = <<>> /\ replies = <<client[s].id>>
    BY <1>3, <1>4, <1>6, Holder
  <2>2. replies' = <<>> /\ Head(replies) = client[s].id
    BY <1>3, <2>1
  <2>3. ~wrong'
    BY <1>3, <2>1, <2>2, Zenon
  <2>. QED BY <1>2, <1>3, <2>1, <2>2, <2>3
<1>7. wire'.kind = wire.kind /\ (late => late')
  BY <1>3
<1>. QED BY <1>2, <1>4, <1>5, <1>6, <1>7, Holds

\* The data is sent, given up or waited for in vain; the connection is closed.
LEMMA DataInv ==
    ASSUME WireInv, NEW s \in WSess, sendData(s) \/ giveUpData(s) \/ readTimeout(s) \/ closeConn(s)
    PROVE  WireInv'
<1>1. PICK a \in AtSet : client' = [client EXCEPT ![s].at = a]
  BY DEF sendData, giveUpData, readTimeout, closeConn, AtSet
<1>2. /\ client' \in [WSess -> ClientType] /\ client'[s].at = a /\ client'[s].id = client[s].id
      /\ \A x \in WSess : x # s => client'[x] = client[x]
  BY <1>1, ClientMoves DEF WireInv, WireTypeOK
<1>3. Engaged(s)
  BY DEF sendData, giveUpData, readTimeout, closeConn, Engaged
<1>4. wire' \in WireType /\ wire'.kind = wire.kind /\ wire'.mu = wire.mu
  <2>1. CASE UNCHANGED wire
    BY <2>1 DEF WireInv, WireTypeOK
  <2>2. CASE wire' = [wire EXCEPT !.open = FALSE]
    <3>1. PICK w : w = [wire EXCEPT !.open = FALSE]
      OBVIOUS
    <3>2. w \in WireType /\ w.kind = wire.kind /\ w.mu = wire.mu
      BY <3>1, WireUpdate DEF WireInv, WireTypeOK
    <3>. QED BY <2>2, <3>1, <3>2
  <2>. QED BY <2>1, <2>2 DEF sendData, giveUpData, readTimeout, closeConn
<1>5. WireTypeOK'
  <2>1. client[s].id \in Nat /\ srv \in Seq(Nat) /\ replies \in Seq(Nat) /\ undotted \in Seq(Nat) /\ cmds \in Nat
    BY SMT DEF WireInv, WireTypeOK, ClientType
  <2>2. Append(srv, client[s].id) \in Seq(Nat) /\ <<client[s].id>> \in Seq(Nat) /\ <<>> \in Seq(Nat)
    BY <2>1
  <2>3. srv' \in Seq(Nat) /\ replies' \in Seq(Nat) /\ undotted' \in Seq(Nat) /\ cmds' \in Nat
    BY <2>1, <2>2 DEF sendData, giveUpData, readTimeout, closeConn
  <2>4. late' \in BOOLEAN /\ wrong' \in BOOLEAN
    BY Zenon DEF WireInv, WireTypeOK, sendData, giveUpData, readTimeout, closeConn
  <2>. QED BY <1>2, <1>4, <2>3, <2>4 DEF WireTypeOK
<1>6. late => late'
  BY DEF sendData, giveUpData, readTimeout, closeConn
<1>7. ASSUME ~late', wire.kind # "socket"
      PROVE  /\ ~wrong' /\ undotted' = <<>>
             /\ \/ client'[s].at \notin {"sent", "last"} /\ srv' = <<>> /\ replies' = <<>>
                \/ client'[s].at \in {"sent", "last"} /\ srv' = <<client'[s].id>> /\ replies' = <<>>
  <2>1. ~wrong /\ undotted = <<>> /\ (~Asked(s) => srv = <<>> /\ replies = <<>>)
    BY <1>3, <1>6, <1>7, Holder
  <2>2. CASE sendData(s)
    <3>1. srv = <<>> /\ replies = <<>>
      BY <2>1, <2>2 DEF sendData, Asked
    <3>2. client' = [client EXCEPT ![s].at = "last"]
      BY <2>2 DEF sendData
    <3>3. client'[s].at = "last"
      BY <3>2, ClientMoves DEF WireInv, WireTypeOK, AtSet
    <3>. QED BY <1>2, <2>1, <2>2, <3>1, <3>3 DEF sendData
  <2>3. CASE closeConn(s)
    <3>1. client' = [client EXCEPT ![s].at = "done"]
      BY <2>3 DEF closeConn
    <3>2. client'[s].at = "done"
      BY <3>1, ClientMoves DEF WireInv, WireTypeOK, AtSet
    <3>. QED BY <2>1, <2>3, <3>2 DEF closeConn
  <2>. QED BY <1>7, <2>2, <2>3 DEF giveUpData, readTimeout
<1>. QED BY <1>2, <1>3, <1>4, <1>5, <1>6, <1>7, Holds

\* Finding the handle and quitting it in the table touches neither the connection nor its mutex.
LEMMA LookupInv ==
    ASSUME WireInv, NEW s \in WSess, connect(s) \/ lookup(s) \/ lookupQuit(s)
    PROVE  WireInv'
<1>1. wire' \in WireType /\ wire'.kind = wire.kind /\ wire'.mu = wire.mu
  <2>1. PICK w : w = [wire EXCEPT !.known = TRUE]
    OBVIOUS
  <2>2. w \in WireType /\ w.kind = wire.kind /\ w.mu = wire.mu
    BY <2>1, WireUpdate DEF WireInv, WireTypeOK
  <2>3. PICK v : v = [w EXCEPT !.open = TRUE]
    OBVIOUS
  <2>4. v \in WireType /\ v.kind = wire.kind /\ v.mu = wire.mu
    BY <2>2, <2>3, WireUpdate
  <2>5. PICK u : u = [wire EXCEPT !.known = FALSE]
    OBVIOUS
  <2>6. u \in WireType /\ u.kind = wire.kind /\ u.mu = wire.mu
    BY <2>5, WireUpdate DEF WireInv, WireTypeOK
  <2>7. wire' = v \/ wire' = u \/ wire' = wire
    BY <2>1, <2>3, <2>5, Zenon DEF connect, lookup, lookupQuit
  <2>. QED BY <2>4, <2>6, <2>7 DEF WireInv, WireTypeOK
<1>2. UNCHANGED <<srv, replies, undotted, late, wrong>> /\ cmds' \in Nat
  <2>1. cmds \in Nat
    BY DEF WireInv, WireTypeOK
  <2>. QED BY <2>1 DEF connect, lookup, lookupQuit
<1>3. /\ client' \in [WSess -> ClientType]
      /\ \A x \in WSess : client'[x] = client[x] \/ (client[x].at = "idle" /\ client'[x].at = "lock")
  <2>1. CASE UNCHANGED client
    BY <2>1 DEF WireInv, WireTypeOK
  <2>2. CASE lookup(s) \/ lookupQuit(s)
    <3>1. PICK op \in OpSet : client' = [client EXCEPT ![s] = [op |-> op, at |-> "lock", id |-> cmds]]
      <4>1. wire.kind \in Protocol
        BY SMT DEF WireInv, WireTypeOK, WireType
      <4>2. Simple(wire.kind) \cup Transfer(wire.kind) \cup {"quit"} \subseteq OpSet
        BY <4>1 DEF OpSet
      <4>. QED BY <2>2, <4>2 DEF lookup, lookupQuit
    <3>2. PICK r : r = [op |-> op, at |-> "lock", id |-> cmds]
      OBVIOUS
    <3>3. r \in ClientType /\ r.at = "lock"
      BY <3>2, SMT DEF WireInv, WireTypeOK, ClientType, AtSet
    <3>4. client' = [client EXCEPT ![s] = r]
      BY <3>1, <3>2, Zenon
    <3>5. client[s].at = "idle" /\ client \in [WSess -> ClientType]
      BY <2>2 DEF lookup, lookupQuit, WireInv, WireTypeOK
    <3>. QED BY <3>3, <3>4, <3>5
  <2>. QED BY <2>1, <2>2 DEF connect
<1>4. AnswerInv'
  <2>. SUFFICES ASSUME ~late', wire'.kind # "socket" PROVE AnswerInv'
    BY DEF AnswerInv
  <2>1. AnswerInv /\ ~late /\ wire.kind # "socket"
    BY <1>1, <1>2 DEF WireInv
  <2>2. \A x \in WSess : (Engaged(x)' <=> Engaged(x)) /\ (Asked(x)' <=> Asked(x))
    BY <1>3 DEF Engaged, Asked
  <2>3. \A x \in WSess : Asked(x) => client'[x] = client[x]
    BY <1>3 DEF Asked
  <2>. QED BY <1>1, <1>2, <2>1, <2>2, <2>3 DEF AnswerInv
<1>5. late' \in BOOLEAN /\ wrong' \in BOOLEAN /\ srv' \in Seq(Nat) /\ replies' \in Seq(Nat) /\ undotted' \in Seq(Nat)
  BY <1>2, Zenon DEF WireInv, WireTypeOK
<1>. QED BY <1>1, <1>2, <1>3, <1>4, <1>5, Zenon DEF WireInv, WireTypeOK

\* The server's answer moves from one side to the other; there is only one.
LEMMA ServerInv ==
    ASSUME WireInv, answer
    PROVE  WireInv'
<1>1. /\ UNCHANGED <<wire, client, undotted, late, wrong, cmds>>
      /\ srv # <<>> /\ srv' = Tail(srv) /\ replies' = Append(replies, Head(srv))
  BY DEF answer
<1>2. srv' \in Seq(Nat) /\ replies' \in Seq(Nat)
  BY <1>1 DEF WireInv, WireTypeOK
<1>3. WireTypeOK'
  BY <1>1, <1>2, Zenon DEF WireInv, WireTypeOK
<1>4. AnswerInv'
  <2>. SUFFICES ASSUME ~late', wire'.kind # "socket" PROVE AnswerInv'
    BY DEF AnswerInv
  <2>1. PICK s \in WSess : Asked(s)
    BY <1>1 DEF WireInv, AnswerInv
  <2>2. Engaged(s)
    BY <2>1 DEF Asked, Engaged
  <2>3. srv = <<client[s].id>> /\ replies = <<>>
    BY <1>1, <2>1, <2>2, Holder
  <2>4. srv' = <<>> /\ replies' = <<client[s].id>>
    BY <1>1, <2>3
  <2>5. \A x \in WSess : Asked(x)' <=> x = s
    <3>1. \A x \in WSess : x # s => client[x].at \in {"idle", "lock"}
      BY <1>1, <2>2, Holder
    <3>. QED BY <1>1, <2>1, <3>1 DEF Asked
  <2>6. ~wrong' /\ undotted' = <<>> /\ \A x \in WSess : Engaged(x)' => wire'.mu = x
    BY <1>1 DEF WireInv, AnswerInv, Engaged
  <2>. QED BY <1>1, <2>4, <2>5, <2>6 DEF AnswerInv
<1>. QED BY <1>3, <1>4 DEF WireInv

\* Hanging up takes the mutex as sending does.
LEMMA HangUpInv ==
    ASSUME WireInv, NEW s \in WSess, hangUp(s)
    PROVE  WireInv'
<1>1. /\ client' = [client EXCEPT ![s].at = "close"] /\ UNCHANGED <<srv, replies, undotted, late, wrong, cmds>>
      /\ client[s].at = "lock"
  BY DEF hangUp, acquire
<1>2. /\ client' \in [WSess -> ClientType] /\ client'[s].at = "close"
      /\ \A x \in WSess : x # s => client'[x] = client[x]
  BY <1>1, ClientMoves DEF WireInv, WireTypeOK, AtSet
<1>3. /\ wire' \in WireType /\ wire'.kind = wire.kind
      /\ wire.kind # "socket" => wire.mu = NoOne /\ wire'.mu = s
  <2>1. CASE wire.kind # "socket"
    <3>1. wire.mu = NoOne /\ wire' = [wire EXCEPT !.mu = s]
      BY <2>1 DEF hangUp, acquire, Locked
    <3>2. PICK w : w = [wire EXCEPT !.mu = s]
      OBVIOUS
    <3>3. w \in WireType /\ w.kind = wire.kind /\ w.mu = s
      BY <3>2, WireUpdate DEF WireInv, WireTypeOK
    <3>. QED BY <3>1, <3>2, <3>3
  <2>2. CASE wire.kind = "socket"
    BY <2>2 DEF hangUp, acquire, Locked, WireInv, WireTypeOK
  <2>. QED BY <2>1, <2>2
<1>4. AnswerInv'
  <2>. SUFFICES ASSUME ~late', wire'.kind # "socket" PROVE AnswerInv'
    BY DEF AnswerInv
  <2>1. AnswerInv /\ ~late /\ wire.kind # "socket"
    BY <1>1, <1>3 DEF WireInv
  <2>2. \A x \in WSess : ~Engaged(x)
    BY <1>3, <2>1, WireAssumption DEF AnswerInv
  <2>3. srv = <<>> /\ replies = <<>> /\ ~wrong /\ undotted = <<>>
    BY <2>1, <2>2 DEF Engaged, Asked, AnswerInv
  <2>4. \A x \in WSess : x # s => client'[x].at \in {"idle", "lock"}
    BY <1>2, <2>2 DEF Engaged
  <2>. QED BY <1>1, <1>2, <1>3, <2>1, <2>3, <2>4 DEF AnswerInv, Engaged, Asked
<1>5. WireTypeOK'
  BY <1>1, <1>2, <1>3, Zenon DEF WireInv, WireTypeOK
<1>. QED BY <1>4, <1>5 DEF WireInv

\* The deferred unlock leaves an empty connection to the next one.
LEMMA ReleaseInv ==
    ASSUME WireInv, NEW s \in WSess, release(s)
    PROVE  WireInv'
<1>1. /\ client' = [client EXCEPT ![s] = AtRest] /\ UNCHANGED <<srv, replies, undotted, late, wrong, cmds>>
      /\ client[s].at \in {"done", "failed"}
  BY DEF release
<1>2. /\ client' \in [WSess -> ClientType] /\ client'[s].at = "idle"
      /\ \A x \in WSess : x # s => client'[x] = client[x]
  <2>1. AtRest \in ClientType /\ AtRest.at = "idle"
    BY SMT DEF AtRest, ClientType, OpSet, AtSet
  <2>. QED BY <1>1, <2>1 DEF WireInv, WireTypeOK
<1>3. wire' \in WireType /\ wire'.kind = wire.kind
  <2>1. PICK w : w = [wire EXCEPT !.mu = NoOne]
    OBVIOUS
  <2>2. w \in WireType /\ w.kind = wire.kind
    BY <2>1, WireUpdate DEF WireInv, WireTypeOK
  <2>3. wire' = w \/ wire' = wire
    BY <2>1, Zenon DEF release
  <2>. QED BY <2>2, <2>3 DEF WireInv, WireTypeOK
<1>4. AnswerInv'
  <2>. SUFFICES ASSUME ~late', wire'.kind # "socket" PROVE AnswerInv'
    BY DEF AnswerInv
  <2>1. Engaged(s) /\ ~Asked(s) /\ ~late /\ wire.kind # "socket"
    BY <1>1, <1>3 DEF Engaged, Asked
  <2>2. /\ ~wrong /\ undotted = <<>> /\ srv = <<>> /\ replies = <<>>
        /\ \A x \in WSess : x # s => client[x].at \in {"idle", "lock"}
    BY <2>1, Holder
  <2>3. \A x \in WSess : client'[x].at \in {"idle", "lock"}
    BY <1>2, <2>2
  <2>. QED BY <1>1, <2>2, <2>3 DEF AnswerInv, Engaged, Asked
<1>5. WireTypeOK'
  BY <1>1, <1>2, <1>3, Zenon DEF WireInv, WireTypeOK
<1>. QED BY <1>4, <1>5 DEF WireInv

LEMMA WireStepInv == WireInv /\ [WireNext]_wirevars => WireInv'
<1>1. ASSUME WireInv, WireNext PROVE WireInv'
  BY <1>1, SendInv, ReadInv, DataInv, LookupInv, ServerInv, HangUpInv, ReleaseInv DEF WireNext
<1>2. ASSUME WireInv, UNCHANGED wirevars PROVE WireInv'
  BY <1>2, Zenon DEF WireInv, WireTypeOK, AnswerInv, Engaged, Asked, wirevars
<1>. QED BY <1>1, <1>2

(***************************************************************************)
(* However the sessions and workers share an FTP, POP3 or SMTP handle, the *)
(* answer line a call reads is the one to its own command, unless a read   *)
(* deadline or a transfer given up half way left an answer behind: the     *)
(* handle's mutex is held from the command to its last answer, so as long  *)
(* as nothing was left behind the connection holds no answer but the one   *)
(* its holder waits for.                                                   *)
(***************************************************************************)
THEOREM AnswersCorrect == WireSpec => []AnswerMatches
<1>1. WireInv => AnswerMatches
  BY DEF WireInv, WireTypeOK, AnswerInv, AnswerMatches
<1>. QED BY <1>1, WireInitInv, WireStepInv, PTL DEF WireSpec
=============================================================================
