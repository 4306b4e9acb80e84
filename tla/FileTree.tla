------------------------------ MODULE FileTree ------------------------------
(***************************************************************************)
(* What the tools of Assignment4 do, whatever the layout of the disk: a    *)
(* tree of directories, and files that have any number of names in it.     *)
(* A tool adds one name, or takes away one of a file; names are not        *)
(* changed and directories stay.  "." and ".." are names like all others,  *)
(* which a new directory has if there is space for them.                   *)
(***************************************************************************)
CONSTANT Root

VARIABLES tree,   \* of <<directory, name, file>>
          dirs

vars == <<tree, dirs>>

Own(d, parent) == {<<d, ".", d>>, <<d, "..", parent>>}

Init == tree = Own(Root, Root) /\ dirs = {Root}

New(f) == f \notin dirs /\ \A t \in tree : t[3] # f

Open(entry) ==
  /\ entry[1] \in dirs
  /\ \A t \in tree : <<t[1], t[2]>> # <<entry[1], entry[2]>>

MakeDir(entry) ==
  /\ New(entry[3]) /\ Open(entry)
  /\ dirs' = dirs \cup {entry[3]}
  /\ \E own \in {{}, Own(entry[3], entry[1])} : tree' = tree \cup {entry} \cup own

(* a new file, or a further name of one *)
Enter(entry) ==
  /\ entry[3] \notin dirs /\ Open(entry)
  /\ tree' = tree \cup {entry}
  /\ UNCHANGED dirs

Remove(entry) == entry[3] \notin dirs /\ tree' = tree \ {entry} /\ UNCHANGED dirs

Next ==
  \/ \E entry \in tree' : MakeDir(entry) \/ Enter(entry)
  \/ \E entry \in tree : Remove(entry)

Spec == Init /\ [][Next]_vars
=============================================================================
