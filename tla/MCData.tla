------------------------------- MODULE MCData -------------------------------
(* The bindings that reach outside the process, on small instances.  A       *)
(* behaviour uses databases, line protocols or files; they share no state.   *)
EXTENDS Database, Wire, Files

VARIABLE part

datavars == <<part, dbvars, wirevars, filevars>>

Init ==
    /\ part \in {"database", "wire", "files"}
    /\ DatabaseInit /\ WireInit /\ FilesInit
    /\ part # "wire" => wire.kind = "ftp"

DB   == part = "database" /\ DatabaseNext /\ UNCHANGED <<part, wirevars, filevars>>
Line == part = "wire" /\ WireNext /\ UNCHANGED <<part, dbvars, filevars>>
File == part = "files" /\ FilesNext /\ UNCHANGED <<part, dbvars, wirevars>>

Next == DB \/ Line \/ File

Spec == Init /\ [][Next]_datavars /\ DatabaseFair
=============================================================================
