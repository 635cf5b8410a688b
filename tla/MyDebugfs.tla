----------------------------- MODULE MyDebugfs -----------------------------
(***************************************************************************)
(* The module of k_a_dd/my_debugfs/debugfs.c: a directory with two files   *)
(* in debugfs, one for a number and one for a string, in the module's      *)
(* memory.  debugfs is modelled from how the module uses it; it does not   *)
(* hold the module while one of these files is open.  debugfs_open,        *)
(* debugfs_read and debugfs_write are never called: nothing uses           *)
(* debugfs_fops.                                                           *)
(***************************************************************************)
EXTENDS FiniteSets

CONSTANT Users

VARIABLES step,      \* of mydebugfs_init, or "unloaded" or "live"
          entries,   \* "dir", "u8_a" and "blob"
          opened,    \* the file each user has open, or "none"
          survived,  \* users whose file was open when the module was removed (history)
          stale      \* users who were given freed memory (history)

debugfsVars == <<step, entries, opened, survived, stale>>

FilesOf == {"u8_a", "blob"}

DebugfsInit == /\ step = "unloaded" /\ entries = {}
               /\ opened = [u \in Users |-> "none"]
               /\ survived = {} /\ stale = {}

mydebugfs_init == /\ step = "unloaded"
                  /\ step' = "dir"
                  /\ UNCHANGED <<entries, opened, survived, stale>>

\* No support for debugfs, no memory, or the name is taken.
dir_fails == /\ step = "dir"
             /\ step' = "unloaded"
             /\ UNCHANGED <<entries, opened, survived, stale>>

after(e) == CASE e = "dir" -> "u8_a" [] e = "u8_a" -> "blob" [] e = "blob" -> "live"

create == /\ step \in {"dir", "u8_a", "blob"} /\ step \notin entries
          /\ entries' = entries \cup {step}
          /\ step' = after(step)
          /\ UNCHANGED <<opened, survived, stale>>

\* debugfs_remove in place of it: the directory is not empty and stays.
remove_recursive_slip == entries' = IF entries = {"dir"} THEN {} ELSE entries

\* debugfs_remove_recursive; a file that is open can still be read.
remove_recursive == entries' = {}

removed == /\ remove_recursive
           /\ step' = "unloaded"
           /\ survived' = survived \cup {u \in Users : opened[u] # "none"}
           /\ UNCHANGED <<opened, stale>>

Fail           == step \in {"u8_a", "blob"} /\ removed
mydebugfs_exit == step = "live" /\ removed

\* A user opens a file while it is there, also during mydebugfs_init.
open_file(u, f) == /\ opened[u] = "none" /\ f \in entries \cap FilesOf
                   /\ opened' = [opened EXCEPT ![u] = f]
                   /\ UNCHANGED <<step, entries, survived, stale>>

\* The memory is there from before mydebugfs_init to after mydebugfs_exit.
access(u) == /\ opened[u] # "none"
             /\ stale' = IF step = "unloaded" \/ u \in survived THEN stale \cup {u} ELSE stale
             /\ UNCHANGED <<step, entries, opened, survived>>

close_file(u) == /\ opened[u] # "none"
                 /\ opened' = [opened EXCEPT ![u] = "none"]
                 /\ survived' = survived \ {u} /\ stale' = stale \ {u}
                 /\ UNCHANGED <<step, entries>>

DebugfsNext == \/ mydebugfs_init \/ dir_fails \/ create \/ Fail \/ mydebugfs_exit
               \/ \E u \in Users : \/ \E f \in FilesOf : open_file(u, f)
                                   \/ access(u) \/ close_file(u)

DebugfsSpec == DebugfsInit /\ [][DebugfsNext]_debugfsVars

-----------------------------------------------------------------------------
(* Properties.                                                             *)

\* A load that succeeded has made all three entries, one that failed and a
\* removal leave none: not a name that would keep the next load from
\* succeeding, nor a file without its memory (debugfs.c:82-103, 111).
EntriesAllOrNone == /\ step = "live"     => entries = {"dir"} \cup FilesOf
                    /\ step = "unloaded" => entries = {}

\* Freed memory is reached through files alone that were open when the module
\* was removed, which nothing here prevents (debugfs.c:111).
OnlyOldFilesStale == stale \subseteq survived
=============================================================================
