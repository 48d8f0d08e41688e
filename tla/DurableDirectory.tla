--------------------------- MODULE DurableDirectory ---------------------------
(***************************************************************************)
(* A directory as its processes see it, and as a power loss may leave it.    *)
(* An update of the directory is visible at once, and reaches the disk at     *)
(* some later time, in no particular order, unless the directory is synced.   *)
(* A rename is one update: it reaches the disk whole or not at all.           *)
(***************************************************************************)

VARIABLES
  live,    \* the directory, as processes see it
  images   \* the directories a power loss could leave, live among them

directory == << live, images >>

(* Names to entries; an update gives new entries to some names.             *)
Updated(dir, changes) ==
  [name \in DOMAIN dir |-> IF name \in DOMAIN changes THEN changes[name] ELSE dir[name]]

DirectoryInit(empty) == live = empty /\ images = {empty}

(* fs::rename, fs::remove_file, File::create: the update may or may not have  *)
(* reached any of the images there were.                                   *)
Change(changes) ==
  /\ live' = Updated(live, changes)
  /\ images' = images \cup {Updated(dir, changes) : dir \in images}

(* sync_directory. *)
SyncDirectory ==
  /\ images' = {live}
  /\ UNCHANGED live

(* Power loss: the directory comes back as one of its images.               *)
Lose ==
  \E dir \in images : live' = dir /\ images' = {dir}
===============================================================================
