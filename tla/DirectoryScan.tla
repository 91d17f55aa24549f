---------------------------- MODULE DirectoryScan ----------------------------
(***************************************************************************)
(* scan_directory of src/api.rs: how the bulk handler finds the tracks     *)
(* below a directory.                                                      *)
(*                                                                         *)
(* A tree gives the entries of the directories that can be read, by name.  *)
(* An entry is a song (a file with the extension ogg or oga), another      *)
(* file, a directory, or a symbolic link to a directory, which is_dir      *)
(* follows; a link to a file, which counts as that file, is left out.      *)
(* A path is the sequence of names below the directory asked for.  The     *)
(* kernel gives up on a path with more than MaxLinks links: that alone     *)
(* ends the walk of a link that leads back to a parent.                    *)
(*                                                                         *)
(* A step is one call of the recursive function.  The code makes the calls *)
(* depth first, in the order in which read_dir happens to give the         *)
(* entries; here any call that was met and not made yet may be next.       *)
(***************************************************************************)
EXTENDS Naturals, SequencesExt

CONSTANTS
  Trees,     \* the trees considered
  Names,     \* names, numbers in their order
  MaxLinks   \* 40 on Linux

Root == "root"

\* Without its links, a tree is one: what is below is lower.
IsTree(t) ==
  \E height \in [DOMAIN t -> 0..(Cardinality(DOMAIN t) - 1)] :
    \A d \in DOMAIN t : \A name \in DOMAIN t[d] :
      t[d][name].kind = "dir" /\ t[d][name].to \in DOMAIN t
        => height[t[d][name].to] < height[d]

ASSUME ScanAssumption ==
  /\ Names \subseteq Nat /\ IsFiniteSet(Names) /\ MaxLinks \in Nat
  /\ \A t \in Trees :
       /\ IsFiniteSet(DOMAIN t) /\ Root \in DOMAIN t /\ "nowhere" \notin DOMAIN t
       /\ \A d \in DOMAIN t : DOMAIN t[d] \subseteq Names
       /\ IsTree(t)

VARIABLES
  tree,       \* the tree, entries as [kind, to]
  recursive,  \* the request's flag
  calls,      \* calls still to be made, as [dir, path, links]
  pushed,     \* paths of songs so far
  files,      \* the files returned
  returned    \* the walk is over

scanVars == <<tree, recursive, calls, pushed, files, returned>>

ScanInit ==
  /\ tree \in Trees /\ recursive \in BOOLEAN
  /\ calls = {[dir |-> Root, path |-> <<>>, links |-> 0]}
  /\ pushed = {} /\ files = <<>> /\ returned = FALSE

Entries(t, dir) == IF dir \in DOMAIN t THEN DOMAIN t[dir] ELSE {}

LinksIn(entry, links) == IF entry.kind = "link" THEN links + 1 ELSE links

\* Mutant: the entry's own type is asked, which follows no link.
IsDir_NoLinks(entry, links) == entry.kind = "dir"

\* path.is_dir(), on a path with that many links before this entry.
IsDir(entry, links) ==
  entry.kind \in {"dir", "link"} /\ LinksIn(entry, links) <= MaxLinks

IsSong(entry) == entry.kind = "song"

\* Component by component, a path before those it leads to.
Before(p, q) ==
  \E k \in 1..Len(q) :
    /\ Len(p) >= k - 1 /\ \A i \in 1..(k - 1) : p[i] = q[i]
    /\ Len(p) = k - 1 \/ p[k] < q[k]

\* Mutant: the walk goes on from an open directory, not from its path.
CallBelow_FromHandle(call, name) ==
  [dir |-> tree[call.dir][name].to, path |-> Append(call.path, name), links |-> 0]

\* scan_directory(&path, true), on the path of an entry
CallBelow(call, name) ==
  LET entry == tree[call.dir][name]
  IN  [dir |-> entry.to, path |-> Append(call.path, name),
       links |-> LinksIn(entry, call.links)]

\* One call, up to its recursive calls: nothing, if it cannot be read.
ScanDirectory(call) ==
  LET entry(name) == tree[call.dir][name]
      below == {name \in Entries(tree, call.dir) :
                  recursive /\ IsDir(entry(name), call.links)}
      songs == {name \in Entries(tree, call.dir) \ below : IsSong(entry(name))}
  IN  /\ calls' = (calls \ {call}) \cup {CallBelow(call, name) : name \in below}
      /\ pushed' = pushed \cup {Append(call.path, name) : name \in songs}
      /\ UNCHANGED <<tree, recursive, files, returned>>

\* files.sort(): the k-th path has k - 1 before it.
Sorted(paths) ==
  [k \in 1..Cardinality(paths) |->
     CHOOSE p \in paths : Cardinality({q \in paths : Before(q, p)}) = k - 1]

\* The outermost call returns.  It sorts what the others sorted before.
Return ==
  /\ calls = {} /\ ~returned /\ returned' = TRUE
  /\ files' = Sorted(pushed)
  /\ UNCHANGED <<tree, recursive, calls, pushed>>

ScanNext == (\E call \in calls : ScanDirectory(call)) \/ Return

ScanSpec == ScanInit /\ [][ScanNext]_scanVars
-----------------------------------------------------------------------------
\* Reference: where the kernel is after k names of a path, the directory and
\* the links it has followed.  Without links a path is no longer than there
\* are directories.
Nowhere == [dir |-> "nowhere", links |-> 0]

Follow(t, here, name) ==
  IF name \notin Entries(t, here.dir) THEN Nowhere
  ELSE LET entry == t[here.dir][name]
           links == here.links + (IF entry.kind = "link" THEN 1 ELSE 0)
       IN  IF entry.kind \in {"dir", "link"} /\ links <= MaxLinks
           THEN [dir |-> entry.to, links |-> links] ELSE Nowhere

Resolve(t, path) ==
  LET at[k \in 0..Len(path)] == IF k = 0 THEN [dir |-> Root, links |-> 0]
                                         ELSE Follow(t, at[k - 1], path[k])
  IN  at

NamesSong(t, path) ==
  LET dir == Resolve(t, path)[Len(path) - 1].dir
  IN  path[Len(path)] \in Entries(t, dir) /\ t[dir][path[Len(path)]].kind = "song"

Longest == (MaxLinks + 1) * Cardinality(DOMAIN tree)

\* The walk goes no deeper than that, whatever the links: the kernel counts
\* the links of a whole path, and a call hands down its path.
WalkBounded == \A call \in calls : Len(call.path) <= Longest

\* The walk returns, in order, the paths that the kernel resolves to a song,
\* those of the directory itself or all of them, and no other.  That it
\* returns none twice is not a result: read_dir gives a name once.
ScanComplete ==
  returned =>
    /\ ToSet(files) = {path \in UNION {[1..k -> Names] : k \in 1..Longest} :
                         NamesSong(tree, path) /\ (recursive \/ Len(path) = 1)}
    /\ \A i \in 2..Len(files) : Before(files[i - 1], files[i])
=============================================================================
