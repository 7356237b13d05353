------------------------------ MODULE SlurmLib ------------------------------
(***************************************************************************)
(* libslurmdb, the dynamic loader and errno, as src/src/slurmdb.rs uses    *)
(* them.  Everything here is outside the repository: each operator is one  *)
(* C call, described by what the Rust code relies on.  A call that breaks  *)
(* the C contract (a freed list, a dead iterator, a closed connection)     *)
(* raises the ghost variable fault instead of having an effect of its own. *)
(***************************************************************************)
EXTENDS Naturals

CONSTANTS
  Release,      \* Slurm releases a library can come from
  Files,        \* libraries that can stand at --library's path
  None,         \* no file, no mapped image, no ABI chosen
  MaxLookups,   \* most records in the TRES and in the QOS list
  MaxJobs       \* most job records a query returns

(* version: slurm_api_version resolves; api: the 15 symbols of Lib do.     *)
ASSUME FilesAssumption ==
  /\ Files \subseteq [release : Release, version : BOOLEAN, api : BOOLEAN]
  /\ None \notin Files
  /\ None \notin Release

ASSUME SizeAssumption == MaxLookups \in Nat /\ MaxJobs \in Nat

VARIABLES
  disk,     \* the file at the library path now
  image,    \* the file mapped into the process by dlopen
  global,   \* its symbols are in the global scope
  errno,    \* the C errno: which call set it last
  opened,   \* connections slurmdb_connection_get has returned
  closed,   \* calls of slurmdb_connection_close
  list,     \* life of each C list the process may hold
  itr,      \* a list iterator is live
  left,     \* records not yet returned by the walk of the newest list
  fault     \* ghost: some call broke the C contract

libVars == <<disk, image, global, errno, opened, closed, list, itr, left, fault>>
loadVars == <<disk, image, global>>
connVars == <<opened, closed>>
listVars == <<list, itr, left>>

Lists == {"acct", "tres", "qos", "jobs"}
Errno == {"clear", "connect", "query", "other"}

LibTypeOK ==
  /\ disk \in Files \cup {None}
  /\ image \in Files \cup {None}
  /\ global \in BOOLEAN
  /\ errno \in Errno
  /\ opened \in 0..1
  /\ closed \in 0..1
  /\ list \in [Lists -> {"none", "live", "freed"}]
  /\ itr \in BOOLEAN
  /\ left \in Nat
  /\ fault \in BOOLEAN

LibInit ==
  /\ disk \in Files \cup {None}
  /\ image = None
  /\ global = FALSE
  /\ errno = "clear"
  /\ opened = 0
  /\ closed = 0
  /\ list = [l \in Lists |-> "none"]
  /\ itr = FALSE
  /\ left = 0
  /\ fault = FALSE

(* A successful call may leave errno alone or leave garbage in it.         *)
MayClobber == errno' \in {errno, "other"}

(* The call is legal only under condition ok.                              *)
Requires(ok) == fault' = (fault \/ ~ok)

\* Mutant: probe_api_major closes its handle, so the path is read again.
DlopenedAgain == disk

(* dlopen of a path that is already mapped returns the mapped image,       *)
(* whatever stands on disk by then; RTLD_GLOBAL promotes it.               *)
Dlopened == IF image = None THEN disk ELSE image
DlopenAs(scope) ==
  /\ Dlopened # None
  /\ image' = Dlopened
  /\ global' = (global \/ scope = "RTLD_GLOBAL")
DlopenFails == Dlopened = None /\ UNCHANGED <<image, global>>

(* A package upgrade replaces or removes the file, any number of times;    *)
(* once the image is mapped for good nobody reads the path again.          *)
ReplaceFile ==
  /\ ~global
  /\ disk' \in (Files \cup {None}) \ {disk}
  /\ UNCHANGED <<image, global, errno, connVars, listVars, fault>>

(* slurm_list_create: a list the caller fills and owns.                    *)
CreateList(l) == list' = [list EXCEPT ![l] = "live"]

(* An RPC handing over a list of n records; it needs a live connection.    *)
ReturnList(l, n) ==
  /\ CreateList(l)
  /\ left' = n
  /\ UNCHANGED itr
  /\ Requires(opened > closed)

ReturnNull ==
  /\ UNCHANGED listVars
  /\ Requires(opened > closed)

IteratorCreate(l) ==
  /\ itr' = TRUE
  /\ Requires(list[l] = "live")
  /\ UNCHANGED <<list, left>>

(* slurm_list_next returns NULL when left = 0.                             *)
ListNext(l) ==
  /\ left' = IF left = 0 THEN 0 ELSE left - 1
  /\ Requires(itr /\ list[l] = "live")
  /\ UNCHANGED <<list, itr>>

IteratorDestroy(l) ==
  /\ itr' = FALSE
  /\ Requires(itr /\ list[l] = "live")
  /\ UNCHANGED <<list, left>>

ListDestroy(l) ==
  /\ list' = [list EXCEPT ![l] = "freed"]
  /\ Requires(~itr /\ list[l] = "live")
  /\ UNCHANGED <<itr, left>>

ConnectionClose ==
  /\ closed' = closed + 1
  /\ UNCHANGED opened
  /\ Requires(opened > closed)
=============================================================================
