----------------------------- MODULE ObjectStore -----------------------------
(***************************************************************************)
(* objectStore: the files of an owner's capsule, opened by path, and the   *)
(* content-addressed store of a guardian's shards.  A hash is the content  *)
(* it is of; a file name is the last four of its 64 digits, so different   *)
(* hashes may share it.                                                    *)
(***************************************************************************)
EXTENDS Naturals, Sequences

CONSTANTS Data,      \* contents saved
          Name,      \* the last digits of the hash of each
          UserFile,  \* paths a capsule may name
          Existing   \* those of them that can be opened

Names == {Name[d] : d \in Data}

VARIABLES files,   \* the content at each path, or what else is there
          dirs,    \* directories made by SaveCAS, each named by a hash
          saved,   \* history: contents for which SaveCAS returned nil
          holder   \* filesHolder of the last Open: the files it left open

storeVars == <<files, dirs, saved, holder>>

(* CASPathTransformFunc: the first 60 digits of the hash as directories,   *)
(* the other four as the file name.                                        *)
CASPathTransformFunc(hash) == [dirPath |-> <<"dirs of", hash>>, filename |-> Name[hash]]

(* A path with directories below objects, or a name in the process's own.  *)
InObjects(hash) == <<"objects", CASPathTransformFunc(hash).dirPath,
                     CASPathTransformFunc(hash).filename>>
InCwd(name) == <<"cwd", name>>

Path == {InObjects(d) : d \in Data} \cup {InCwd(n) : n \in Names}

StoreInit == /\ files = [p \in Path |-> "absent"]
             /\ dirs = {} /\ saved = {} /\ holder = <<>>

-----------------------------------------------------------------------------
(* SaveCAS.  The directory is made below the working directory, and the    *)
(* file is written under its name alone.                                   *)

Written(d) == InCwd(CASPathTransformFunc(d).filename)

MkdirFails(d) == UNCHANGED storeVars

SaveCAS(d) == /\ dirs' = dirs \cup {CASPathTransformFunc(d).dirPath}
              /\ files' = [files EXCEPT ![Written(d)] = d]
              /\ saved' = saved \cup {d}
              /\ UNCHANGED holder

(* WriteFile truncates first: an error, or a crash, leaves a part.         *)
SaveCASFails(d) == /\ dirs' = dirs \cup {CASPathTransformFunc(d).dirPath}
                   /\ files' = [files EXCEPT ![Written(d)] = "partial"]
                   /\ UNCHANGED <<saved, holder>>

-----------------------------------------------------------------------------
(* Reading.                                                                *)

GetCAS(d) == files[InObjects(d)]

ExistsCAS(d) == GetCAS(d) # "absent"

(* Read, hash and compare.                                                 *)
VerifyCAS(d) == GetCAS(d) = d

-----------------------------------------------------------------------------
(* Open: one file after the other; those before the first that cannot be   *)
(* opened stay open.  No cloud is there to open anything.                  *)

Opens(paths) == {i \in 1 .. Len(paths) : \A j \in 1 .. i : paths[j] \in Existing}

Open(kind, paths) ==
  /\ holder' = IF kind = "localDisk"
               THEN SubSeq(paths, 1, CHOOSE n \in 0 .. Len(paths) : Opens(paths) = 1 .. n)
               ELSE <<>>
  /\ UNCHANGED <<files, dirs, saved>>

StoreNext ==
  \/ \E d \in Data : MkdirFails(d) \/ SaveCAS(d) \/ SaveCASFails(d)
  \/ \E kind \in {"localDisk", "googleCloud", "other"}, f, g \in UserFile : Open(kind, <<f, g>>)

StoreSpec == StoreInit /\ [][StoreNext]_storeVars

-----------------------------------------------------------------------------
(* "SaveCAS stores data in content-addressable manner using hash as key",  *)
(* "GetCAS retrieves data by its content hash": what was saved is found    *)
(* under its hash and verifies, whatever was saved, or failed to be saved, *)
(* after it.                                                               *)
SavedIsFound == \A d \in saved : ExistsCAS(d) /\ VerifyCAS(d)
=============================================================================
