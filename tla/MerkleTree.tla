----------------------------- MODULE MerkleTree -----------------------------
(***************************************************************************)
(* The hash trees of MerkleEngine and their comparison.  A tree is a set   *)
(* of files with their contents and a set of directories, the root <<>>    *)
(* among them.  A content stands for its hash.  A directory is hashed as   *)
(* the list of its entries' hashes, sorted and without names, which a bag  *)
(* stands for; it is a text like any other: a file may hold it, and        *)
(* EmptyBag, the list of an empty directory, is what an empty file holds.  *)
(***************************************************************************)
EXTENDS Integers, SequencesExt

CONSTANTS TreePaths, TreeContents, NoFile

ASSUME TreeAssumption ==
  IsFiniteSet(TreePaths) /\ TreePaths \subseteq Seq(UNION {Range(p) : p \in TreePaths})

VARIABLES before, after

merkleVars == <<before, after>>

Above(p) == {SubSeq(p, 1, n) : n \in 0 .. Len(p) - 1}
TreeDirs == UNION {Above(p) : p \in TreePaths}

Tree(files, dirs) == [files |-> files, dirs |-> dirs]
FilesOf(t) == {p \in TreePaths : t.files[p] # NoFile}
Nodes(t) == FilesOf(t) \cup t.dirs
Entries(t, dir) == {p \in Nodes(t) : Len(p) = Len(dir) + 1 /\ IsPrefix(dir, p)}

\* compute_directory_hash: the order of the entries does not matter.
DirectoryHash(entries, hash) ==
  LET hashes == {hash[p] : p \in entries}
  IN [h \in hashes |-> Cardinality({p \in entries : hash[p] = h})]

\* build_node
Hashes(t) ==
  LET hash[p \in Nodes(t)] ==
        IF p \in t.dirs THEN DirectoryHash(Entries(t, p), hash) ELSE t.files[p]
  IN hash

-----------------------------------------------------------------------------
(* diff, on the hashes h1 and h2 of two trees: it goes down where a path   *)
(* is in both and its hashes differ.                                       *)

Differs(h1, h2, p) == p \in DOMAIN h1 \cap DOMAIN h2 /\ h1[p] # h2[p]

Reached(h1, h2, p) == \A dir \in Above(p) : Differs(h1, h2, dir)

\* Fault: a new directory is not searched for files.
TopLevelOnly(h1, h2, t2) == {p \in FilesOf(t2) : p \notin DOMAIN h1 /\ Reached(h1, h2, p)}

\* Files of the second tree at or below a path that the first one has not.
OnlyInSecond(h1, h2, t2) ==
  {p \in FilesOf(t2) :
     \E n \in Above(p) \cup {p} : n \notin DOMAIN h1 /\ Reached(h1, h2, n)}

Diff(t1, t2) ==
  LET h1 == Hashes(t1)
      h2 == Hashes(t2)
  IN [added |-> OnlyInSecond(h1, h2, t2),
      deleted |-> OnlyInSecond(h2, h1, t1),
      modified |-> {p \in FilesOf(t1) \cap FilesOf(t2) :
                      Differs(h1, h2, p) /\ Reached(h1, h2, p)}]

-----------------------------------------------------------------------------
(* The two trees are any that a user can make.                             *)

WithFile(t, p, c) == Tree([t.files EXCEPT ![p] = c], t.dirs \cup Above(p))
Writable(t) == {p \in TreePaths \ t.dirs : Above(p) \cap FilesOf(t) = {}}
Written(t) == {WithFile(t, p, c) : p \in Writable(t), c \in TreeContents}
Removed(t) ==
  {Tree([t.files EXCEPT ![p] = NoFile], t.dirs) : p \in FilesOf(t)}
    \cup {Tree(t.files, t.dirs \ {dir}) : dir \in {d \in t.dirs \ {<<>>} : Entries(t, d) = {}}}

EmptyTree == Tree([p \in TreePaths |-> NoFile], {<<>>})

MerkleInit == before = EmptyTree /\ after = EmptyTree

MerkleNext ==
  \/ before' \in Written(before) \cup Removed(before) /\ UNCHANGED after
  \/ after' \in Written(after) \cup Removed(after) /\ UNCHANGED before

MerkleSpec == MerkleInit /\ [][MerkleNext]_merkleVars

-----------------------------------------------------------------------------
\* An empty directory counts as an empty file.
ContentOf(t, p) == IF p \in t.dirs THEN EmptyBag ELSE t.files[p]

\* What the files and the empty directories below a directory hold.
ContentsBelow(t, dir) ==
  LET leaves == {p \in Nodes(t) : dir \in Above(p) /\ Entries(t, p) = {}}
  IN [c \in {ContentOf(t, p) : p \in leaves} |->
        Cardinality({p \in leaves : ContentOf(t, p) = c})]

\* The path is a file in one tree and a directory in the other.
Reshaped(p) == p \in before.dirs \cup after.dirs

\* May p differ because contents were only moved about below a directory?
Shuffled(p) ==
  \E dir \in Above(p) \cap before.dirs \cap after.dirs :
    ContentsBelow(before, dir) = ContentsBelow(after, dir)

\* Is there a file whose content is the list of a directory that has entries?
HoldsList(t, u) ==
  \E p \in FilesOf(t), dir \in u.dirs :
    Entries(u, dir) # {} /\ t.files[p] = Hashes(u)[dir]

\* diff reports only what was added, deleted and modified, and all of it but
\* for contents moved about below a directory, which hashes without names do
\* not show (they take an empty directory for an empty file), for files
\* replaced by directories or the other way round, and where a file of one
\* tree reads like a directory of the other.
DiffMissesMovesOnly ==
  LET diff == Diff(before, after)
      old == FilesOf(before)
      new == FilesOf(after)
      changed == {p \in old \cap new : before.files[p] # after.files[p]}
      reported == diff.added \cup diff.deleted \cup diff.modified
  IN /\ diff.added \subseteq new \ old /\ diff.deleted \subseteq old \ new
     /\ diff.modified \subseteq changed
     /\ HoldsList(before, after) \/ HoldsList(after, before)
          \/ \A p \in ((new \ old) \cup (old \ new) \cup changed) \ reported :
               Reshaped(p) \/ Shuffled(p)

\* The same without exceptions.
DiffIsExact ==
  LET diff == Diff(before, after) IN
  /\ diff.added = FilesOf(after) \ FilesOf(before)
  /\ diff.deleted = FilesOf(before) \ FilesOf(after)
  /\ diff.modified = {p \in FilesOf(before) \cap FilesOf(after) :
                        before.files[p] # after.files[p]}
=============================================================================
