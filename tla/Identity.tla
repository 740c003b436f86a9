-------------------------------- MODULE Identity --------------------------------
(***************************************************************************)
(* check_identity and hash_calc: the executable is opened once, its path   *)
(* and the policy's are resolved by name, and the open file is hashed from *)
(* its first block to its last.  Meanwhile others may change the files: a  *)
(* name may lead elsewhere, another file may take a place, and a file may  *)
(* be written in place.                                                    *)
(*                                                                         *)
(* The hash is taken to be injective: app_hash stands for the one content  *)
(* that has it.                                                            *)
(***************************************************************************)
EXTENDS Naturals, Sequences

CONSTANTS
    Places,       \* canonical paths
    Files,        \* the files themselves (inodes)
    Blocks,       \* what read returns
    Contents,     \* what a file may hold: sequences of blocks
    Approved,     \* the content whose hash is the policy's app_hash
    Nothing       \* no file, no place

ASSUME IdentityAssumption ==
    /\ Contents \subseteq Seq(Blocks)
    /\ Approved \in Contents
    /\ Nothing \notin Places \cup Files

VARIABLES
    link,        \* the place to which cli.app_path and policy.app_path lead
    at,          \* the file at each place
    content,     \* the content of each file
    changes,     \* how many more changes others make
    touched,     \* the files written in place since the executable was opened
    ipc,         \* where check_identity is
    opened,      \* executable.file
    path,        \* executable.path
    read         \* the blocks read so far

files == <<link, at, content, changes, touched>>
executable == <<opened, path, read>>

IdentityInit ==
    /\ touched = {}
    /\ ipc = "open"
    /\ opened = Nothing
    /\ path = Nothing
    /\ read = <<>>

-----------------------------------------------------------------------------
(* check_identity.                                                         *)

Resolve(name) == at[link[name]]

Open ==
    /\ ipc = "open"
    /\ opened' = Resolve("cli")
    /\ ipc' = IF opened' = Nothing THEN "refused" ELSE "canonicalize"
    /\ UNCHANGED <<path, read>>

Canonicalize ==
    /\ ipc = "canonicalize"
    /\ IF Resolve("cli") = Nothing
       THEN ipc' = "refused" /\ UNCHANGED path
       ELSE ipc' = "compare" /\ path' = link["cli"]
    /\ UNCHANGED <<opened, read>>

SamePlace == Resolve("policy") # Nothing /\ link["policy"] = path

Compare ==
    /\ ipc = "compare"
    /\ ipc' = IF SamePlace THEN "hash" ELSE "refused"
    /\ UNCHANGED executable

\* Each read returns what the file holds by then.
ReadBlock ==
    /\ ipc = "hash"
    /\ Len(read) < Len(content[opened])
    /\ read' = Append(read, content[opened][Len(read) + 1])
    /\ UNCHANGED <<ipc, opened, path>>

\* Ok(0), and the comparison with policy.app_hash.
CheckHash ==
    /\ ipc = "hash"
    /\ Len(read) >= Len(content[opened])
    /\ ipc' = IF read = Approved THEN "verified" ELSE "refused"
    /\ UNCHANGED executable

\* open, canonicalize, seek or read fails.
IdentityFails ==
    /\ ipc \notin {"verified", "refused"}
    /\ ipc' = "refused"
    /\ UNCHANGED executable

CheckIdentity == Open \/ Canonicalize \/ Compare \/ ReadBlock \/ CheckHash

-----------------------------------------------------------------------------
(* The others.                                                             *)

Change == changes > 0 /\ changes' = changes - 1

Retarget ==
    /\ Change
    /\ \E name \in DOMAIN link, place \in Places : link' = [link EXCEPT ![name] = place]
    /\ UNCHANGED <<at, content, touched>>

\* rename over the place, or unlink.
Replace ==
    /\ Change
    /\ \E place \in Places, file \in Files \cup {Nothing} : at' = [at EXCEPT ![place] = file]
    /\ UNCHANGED <<link, content, touched>>

Overwrite ==
    /\ Change
    /\ \E file \in Files, new \in Contents :
        /\ content' = [content EXCEPT ![file] = new]
        /\ touched' = touched \cup ({file} \cap {opened})
    /\ UNCHANGED <<link, at>>

Others == Retarget \/ Replace \/ Overwrite
=============================================================================
