------------------------------- MODULE Files -------------------------------
(***************************************************************************)
(* The file bindings: k.file_* (bindings/files.go), the <format>_save and  *)
(* ini_write of formats.go and json.go, and the params file of net.go.     *)
(*                                                                         *)
(* Callers are Lua coroutines of any session; their file work runs on      *)
(* goroutines of its own (runBlocking), so the operations of two callers   *)
(* interleave at every system call.  A file's content is the value of each *)
(* of its keys, and whether it is whole: opening a file for writing        *)
(* truncates it, and it is torn until its writer has written it.  The      *)
(* process may die between any two system calls; the disk stays.           *)
(***************************************************************************)
EXTENDS Naturals

CONSTANTS Caller,       \* the Lua coroutines that use the file bindings
          Path,         \* the files a script names, inside its allowed roots
          ParamsPath,   \* .kalua.params.json of the working directory
          FileKey,      \* keys of a params or an INI file
          ReadFaults,   \* whether os.ReadFile may fail on a file that is there
          MaxSerial,    \* bound: values written
          MaxDeaths     \* bound: deaths of the process

ASSUME FilesAssumption ==
    /\ ParamsPath \notin Path
    /\ ReadFaults \in BOOLEAN
    /\ MaxSerial \in Nat
    /\ MaxDeaths \in Nat

VARIABLES disk,         \* the content of each file
          job,          \* what each caller's goroutine is doing
          paramsMu,     \* the holder of the mutex, or Unheld
          handle,       \* the file each caller's open handle writes to
          inPlace,      \* history: files whose present inode was opened for writing
          lastParam,    \* history: the value last stored under each param
          serial, deaths

filevars == <<disk, job, paramsMu, handle, inPlace, lastParam, serial, deaths>>

AllPaths == Path \cup {ParamsPath}
Unheld   == "unheld"
NoFile   == "none"                 \* no handle is open
Unlinked == "unlinked"             \* the handle's inode has no name any more
Idle     == [pc |-> "idle"]

ASSUME NamesAssumption == {NoFile, Unlinked} \cap AllPaths = {} /\ Unheld \notin Caller

Unset  == [k \in FileKey |-> 0]
Absent == [exists |-> FALSE, whole |-> TRUE,  key |-> Unset]
Torn   == [exists |-> TRUE,  whole |-> FALSE, key |-> Unset]
Whole(keys) == [exists |-> TRUE, whole |-> TRUE, key |-> keys]

FilesInit ==
    /\ disk      = [p \in AllPaths |-> Absent]
    /\ job       = [c \in Caller |-> Idle]
    /\ paramsMu  = Unheld
    /\ handle    = [c \in Caller |-> NoFile]
    /\ inPlace   = {}
    /\ lastParam = Unset
    /\ serial    = 0
    /\ deaths    = 0

Quiet(c) == job[c].pc = "idle"

\* An operation that gave up or is done: the caller gets its answer, and a
\* param_set's deferred Unlock runs.
Finish(c) ==
    /\ job' = [job EXCEPT ![c] = Idle]
    /\ paramsMu' = IF paramsMu = c THEN Unheld ELSE paramsMu

\* A name now leads to another inode: handles on the old one write into a
\* file that has no name.
Rebind(p, moved) ==
    handle' = [c \in Caller |-> IF handle[c] = p THEN moved ELSE handle[c]]

-----------------------------------------------------------------------------
(* writeFileAtomic: a temporary file of its own name is created and written, *)
(* then renamed over the destination.  Each call may fail; the deferred      *)
(* Remove then takes the temporary away.                                     *)

writeTempInPlace(c) ==
    /\ job[c].pc = "temp"
    /\ \/ /\ job' = [job EXCEPT ![c].pc = "rename"]
          /\ disk' = [disk EXCEPT ![job[c].path] = Torn]
          /\ UNCHANGED paramsMu
       \/ Finish(c) /\ UNCHANGED disk
    /\ UNCHANGED <<handle, inPlace, lastParam, serial, deaths>>

writeTemp(c) ==
    /\ job[c].pc = "temp"
    /\ \/ job' = [job EXCEPT ![c].pc = "rename"] /\ UNCHANGED paramsMu
       \/ Finish(c)
    /\ UNCHANGED <<disk, handle, inPlace, lastParam, serial, deaths>>

renameTemp(c) ==
    /\ job[c].pc = "rename"
    /\ Finish(c)
    /\ \/ /\ disk' = [disk EXCEPT ![job[c].path] = Whole(job[c].keys)]
          /\ inPlace' = inPlace \ {job[c].path}
          /\ Rebind(job[c].path, Unlinked)
          /\ lastParam' = IF job[c].path = ParamsPath
                          THEN [lastParam EXCEPT ![job[c].k] = job[c].keys[job[c].k]]
                          ELSE lastParam
       \/ UNCHANGED <<disk, inPlace, handle, lastParam>>
    /\ UNCHANGED <<serial, deaths>>

\* The caller has turned the value into text; the goroutine writes it.
saveVia(c, p, keys) ==
    job' = [job EXCEPT ![c] = [pc |-> "temp", path |-> p, k |-> NoFile, keys |-> keys]]

\* file_save, and json_save, csv_save, ini_save, yaml_save, xml_save.
file_save(c, p) ==
    /\ Quiet(c) /\ serial < MaxSerial
    /\ serial' = serial + 1
    /\ saveVia(c, p, [k \in FileKey |-> serial + 1])
    /\ UNCHANGED <<disk, paramsMu, handle, inPlace, lastParam, deaths>>

\* A read-modify-write of one key begins: it still has to read the file.
SetKey(c, p, k) ==
    /\ Quiet(c) /\ serial < MaxSerial
    /\ serial' = serial + 1
    /\ job' = [job EXCEPT ![c] = [pc |-> "read", path |-> p, k |-> k,
                                  value |-> serial + 1]]
    /\ UNCHANGED <<disk, handle, inPlace, lastParam, deaths>>

\* setParam holds paramsMu from its read to its rename.
setParamUnlocked(c, k) == SetKey(c, ParamsPath, k) /\ UNCHANGED paramsMu

setParam(c, k) ==
    /\ paramsMu = Unheld
    /\ paramsMu' = c
    /\ SetKey(c, ParamsPath, k)

\* ini_write takes no lock.
ini_write(c, p, k) == SetKey(c, p, k) /\ UNCHANGED paramsMu

\* What reading and parsing a file yields; a file that cannot be read or does
\* not parse counts as an empty one, and is replaced.
Parsed(p) == {IF disk[p].whole THEN disk[p].key ELSE Unset}
             \cup (IF ReadFaults THEN {Unset} ELSE {})

readKeys(c) ==
    /\ job[c].pc = "read"
    /\ \E old \in Parsed(job[c].path) :
         job' = [job EXCEPT ![c] = [pc |-> "temp", path |-> job[c].path, k |-> job[c].k,
                                    keys |-> [old EXCEPT ![job[c].k] = job[c].value]]]
    /\ UNCHANGED <<disk, paramsMu, handle, inPlace, lastParam, serial, deaths>>

-----------------------------------------------------------------------------
(* The operations that write in place.                                       *)

Truncate(p) ==
    /\ disk' = [disk EXCEPT ![p] = Torn]
    /\ inPlace' = inPlace \cup {p}

\* copyFile opens the source, truncates the destination and copies.  Copying
\* a file onto itself finds nothing to copy.  zip_add and zip_extract write
\* their destination the same way.  The destination stays open in the caller's
\* handle until the copy ends.
file_copy(c, src, dst) ==
    /\ Quiet(c) /\ handle[c] = NoFile
    /\ disk[src].exists
    /\ Truncate(dst)
    /\ handle' = [handle EXCEPT ![c] = dst]
    /\ job' = [job EXCEPT ![c] = [pc |-> "fill",
                                  from |-> IF src = dst THEN Whole(Unset) ELSE disk[src]]]
    /\ UNCHANGED <<paramsMu, lastParam, serial, deaths>>

\* Writing through a descriptor reaches the file only while it has a name.
Through(c, content) ==
    disk' = IF handle[c] = Unlinked THEN disk ELSE [disk EXCEPT ![handle[c]] = content]

\* The copy ends, or fails half way.
Fill(c) ==
    /\ job[c].pc = "fill"
    /\ Finish(c)
    /\ Through(c, job[c].from) \/ UNCHANGED disk
    /\ handle' = [handle EXCEPT ![c] = NoFile]
    /\ UNCHANGED <<inPlace, lastParam, serial, deaths>>

\* file_open(path, "w"), file_write and file_close, each one call of the
\* script.
file_open(c, p) ==
    /\ Quiet(c) /\ handle[c] = NoFile
    /\ Truncate(p)
    /\ handle' = [handle EXCEPT ![c] = p]
    /\ UNCHANGED <<job, paramsMu, lastParam, serial, deaths>>

file_write(c) ==
    /\ Quiet(c) /\ handle[c] # NoFile /\ serial < MaxSerial
    /\ serial' = serial + 1
    /\ Through(c, Whole([k \in FileKey |-> serial + 1]))
    /\ UNCHANGED <<job, paramsMu, handle, inPlace, lastParam, deaths>>

file_close(c) ==
    /\ Quiet(c) /\ handle[c] # NoFile
    /\ handle' = [handle EXCEPT ![c] = NoFile]
    /\ UNCHANGED <<disk, job, paramsMu, inPlace, lastParam, serial, deaths>>

file_move(c, src, dst) ==
    /\ Quiet(c) /\ src # dst
    /\ disk[src].exists
    /\ disk' = [disk EXCEPT ![dst] = disk[src], ![src] = Absent]
    /\ inPlace' = (inPlace \ {src, dst}) \cup (IF src \in inPlace THEN {dst} ELSE {})
    /\ handle' = [d \in Caller |-> CASE handle[d] = src -> dst
                                     [] handle[d] = dst -> Unlinked
                                     [] OTHER -> handle[d]]
    /\ UNCHANGED <<job, paramsMu, lastParam, serial, deaths>>

file_delete(c, p) ==
    /\ Quiet(c)
    /\ disk[p].exists
    /\ disk' = [disk EXCEPT ![p] = Absent]
    /\ inPlace' = inPlace \ {p}
    /\ Rebind(p, Unlinked)
    /\ UNCHANGED <<job, paramsMu, lastParam, serial, deaths>>

\* The process dies and is started again.
Die ==
    /\ deaths < MaxDeaths
    /\ deaths' = deaths + 1
    /\ job' = [c \in Caller |-> Idle]
    /\ paramsMu' = Unheld
    /\ handle' = [c \in Caller |-> NoFile]
    /\ UNCHANGED <<disk, inPlace, lastParam, serial>>

FilesNext ==
    \/ Die
    \/ \E c \in Caller :
         \/ writeTemp(c) \/ renameTemp(c) \/ readKeys(c) \/ Fill(c)
         \/ file_write(c) \/ file_close(c)
         \/ \E k \in FileKey : setParam(c, k)
         \/ \E p \in Path : \/ file_save(c, p) \/ file_open(c, p) \/ file_delete(c, p)
                            \/ \E k \in FileKey : ini_write(c, p, k)
                            \/ \E q \in Path : file_copy(c, p, q) \/ file_move(c, p, q)

FilesSpec == FilesInit /\ [][FilesNext]_filevars

-----------------------------------------------------------------------------
\* Whatever the order of saves, moves, copies and deaths, a file is torn only
\* if its inode was written in place by an open handle, a copy or an archive:
\* what writeFileAtomic saved is never found half written ("so a crash never
\* leaves a partially-written file", bindings/files.go:510).
SavedWhole == \A p \in AllPaths : ~disk[p].whole => p \in inPlace

\* No k.param_set is undone by another one that read the file before it, nor
\* by the death of the process: the params file holds the last stored value of
\* every key (paramsMu, bindings/net.go:17).
ParamsKept == disk[ParamsPath].key = lastParam
=============================================================================
