------------------------------ MODULE Workspace ------------------------------
(* Resolution of the paths that tools name (oran-tool/workspace.cpp,            *)
(* path_resolution.cpp) against a directory tree, and of anchored paths beneath *)
(* a pinned directory (oran-io/directory_authority.cpp).                        *)
(*                                                                              *)
(* A tree maps a directory and a name to an entry: nothing, a file (its inode), *)
(* a directory or a symbolic link.  An absolute path is the sequence of names   *)
(* from "slash"; an input also has "..", and is absolute or relative to the     *)
(* workspace root.                                                              *)
EXTENDS Integers, Sequences, SequencesExt

CONSTANTS
  Root,        \* canonical path of the workspace root
  ReadRoots,   \* sequence of the canonical paths of the extra read roots
  WriteRoots,  \* the same, extra write roots
  LinkLimit,   \* symbolic links followed before ELOOP
  HasOpenat2   \* FALSE: the kernel answers ENOSYS and the fallback is used

NoPath == <<"nowhere">>
Nothing == [kind |-> "none"]
Refused(reason) == [kind |-> "error", to |-> reason]

\* lexically_normal of an absolute path.
lexically_normal(p) ==
  FoldLeft(LAMBDA q, n : IF n # ".." THEN Append(q, n) ELSE IF q = <<>> THEN q ELSE Front(q), <<>>, p)

join_input(in) == lexically_normal(IF in.abs THEN in.parts ELSE Root \o in.parts)

is_under_root(p, root) == IsPrefix(root, p)

\* The root that a path is under: 1 for the workspace root, i + 1 for the i-th
\* extra root, 0 for none.
find_matching_root(p, extra) ==
  LET roots == <<Root>> \o extra IN
  IF \E i \in DOMAIN roots : is_under_root(p, roots[i])
  THEN CHOOSE i \in DOMAIN roots : /\ is_under_root(p, roots[i])
                                   /\ \A j \in 1 .. i - 1 : ~is_under_root(p, roots[j])
  ELSE 0

relative_path(p, root) == SubSeq(p, Len(root) + 1, Len(p))

-------------------------------------------------------------------------------
(* The kernel's view of a path name (external), as std::filesystem uses it.     *)

\* The directory a link-free path of directories leads to.
DirAt(tree, p) == FoldLeft(LAMBDA d, n : tree[d][n].to, "slash", p)

RECURSIVE RealPath(_, _, _, _)
RealPath(tree, done, todo, fuel) ==
  IF todo = <<>> THEN done
  ELSE IF Head(todo) = ".." THEN RealPath(tree, IF done = <<>> THEN done ELSE Front(done), Tail(todo), fuel)
  ELSE LET e == tree[DirAt(tree, done)][Head(todo)] IN
       CASE e.kind = "dir" -> RealPath(tree, Append(done, Head(todo)), Tail(todo), fuel)
         [] e.kind = "file" /\ Len(todo) = 1 -> Append(done, Head(todo))
         [] e.kind = "link" /\ fuel > 0 ->
              RealPath(tree, IF e.abs THEN <<>> ELSE done, e.to \o Tail(todo), fuel - 1)
         [] OTHER -> NoPath

realpath(tree, p) == RealPath(tree, <<>>, p, LinkLimit)

EntryAt(tree, p) ==
  IF p = <<>> THEN [kind |-> "dir", to |-> "slash"] ELSE tree[DirAt(tree, Front(p))][Last(p)]

IsDirPath(tree, p) == realpath(tree, p) # NoPath /\ EntryAt(tree, realpath(tree, p)).kind = "dir"

\* symlink_status: the entry itself, its parents followed.
lstat(tree, p) ==
  IF p = <<>> THEN EntryAt(tree, p)
  ELSE IF IsDirPath(tree, Front(p)) THEN tree[DirAt(tree, realpath(tree, Front(p)))][Last(p)] ELSE Nothing

\* The real path of the longest prefix that exists, then the rest.
weakly_canonical(tree, p) ==
  LET n == CHOOSE k \in 0 .. Len(p) :
             /\ realpath(tree, SubSeq(p, 1, k)) # NoPath
             /\ \A j \in k + 1 .. Len(p) : realpath(tree, SubSeq(p, 1, j)) = NoPath
  IN lexically_normal(realpath(tree, SubSeq(p, 1, n)) \o SubSeq(p, n + 1, Len(p)))

has_symlink_component(tree, p) == \E k \in 1 .. Len(p) : lstat(tree, SubSeq(p, 1, k)).kind = "link"

refers_to_path(tree, d, p) == lstat(tree, p) = [kind |-> "dir", to |-> d]

-------------------------------------------------------------------------------
(* Anchored resolution: what openat2 with RESOLVE_BENEATH finds, or the         *)
(* component by component fallback that follows no link.                        *)

RECURSIVE Beneath(_, _, _, _, _)
Beneath(tree, stack, todo, follow, fuel) ==
  IF todo = <<>> THEN [kind |-> "dir", to |-> Last(stack)]
  ELSE IF Head(todo) = ".."
       THEN IF Len(stack) = 1 THEN Refused("outside_authority")
            ELSE Beneath(tree, Front(stack), Tail(todo), follow, fuel)
  ELSE LET e == tree[Last(stack)][Head(todo)] IN
       CASE e.kind = "dir" -> Beneath(tree, Append(stack, e.to), Tail(todo), follow, fuel)
         [] e.kind = "file" -> IF Len(todo) = 1 THEN e ELSE Refused("not_directory")
         [] e.kind = "none" -> Refused("not_found")
         [] e.kind = "link" /\ (~follow \/ fuel = 0) -> Refused("symlink_component")
         [] e.kind = "link" /\ follow /\ fuel > 0 ->
              IF e.abs THEN Refused("outside_authority")
              ELSE Beneath(tree, stack, e.to \o Tail(todo), follow, fuel - 1)

\* The regular file that open_file finds, or the refusal.
open_beneath(tree, d, rel) ==
  LET e == IF ".." \in Range(rel) THEN Refused("outside_authority")
           ELSE Beneath(tree, <<d>>, rel, HasOpenat2, LinkLimit)
  IN IF e.kind = "dir" THEN Refused("not_regular") ELSE e

-------------------------------------------------------------------------------
(* The two resolutions of a read and of a mutation.  dirs is the sequence of    *)
(* pinned root directories; the result is the pinned directory and the path     *)
(* relative to it, or a refusal.                                                *)

Resolved(d, rel, p) == [kind |-> "resolved", dir |-> d, rel |-> rel, path |-> p]

build_resolved(p, dirs, extra) ==
  LET i == find_matching_root(p, extra)
  IN Resolved(dirs[i], relative_path(p, (<<Root>> \o extra)[i]), p)

\* The pathname pass of a read.
resolve_existing_readable(tree, in, dirs) ==
  LET p == join_input(in)
      canonical == weakly_canonical(tree, p)
  IN CASE lstat(tree, p).kind = "none" -> Refused("not_found")
       [] lstat(tree, p).kind # "none" /\ find_matching_root(canonical, ReadRoots) = 0 ->
            Refused(IF has_symlink_component(tree, p) THEN "symlink_escape" ELSE "outside_workspace")
       [] OTHER -> build_resolved(canonical, dirs, ReadRoots)

\* The anchored probe that decides when the pathname pass does not.
probe_read(tree, in, dirs) ==
  LET p == join_input(in)
      r == build_resolved(p, dirs, ReadRoots)
      e == open_beneath(tree, r.dir, r.rel)
  IN IF e.kind = "file" THEN r
     ELSE Refused(IF e.to \in {"outside_authority", "symlink_component"} THEN "symlink_escape" ELSE e.to)

\* What an approved read outside the workspace pins: the parent of the canonical path.
resolve_read_outside(tree, in) ==
  LET p == join_input(in)
      canonical == weakly_canonical(tree, p)
  IN CASE lstat(tree, p).kind = "none" -> Refused("not_found")
       [] lstat(tree, p).kind # "none" /\ ~IsDirPath(tree, Front(canonical)) -> Refused("not_found")
       [] OTHER -> Resolved(DirAt(tree, realpath(tree, Front(canonical))), <<Last(canonical)>>, canonical)

\* A path that may not exist: the canonical parent with the name.
mutating_path(tree, p) ==
  IF lstat(tree, p).kind # "none" THEN weakly_canonical(tree, p)
  ELSE IF lstat(tree, Front(p)).kind # "none" THEN Append(weakly_canonical(tree, Front(p)), Last(p))
  ELSE p

resolve_mutating(tree, in, dirs) ==
  LET p == join_input(in) IN
  IF has_symlink_component(tree, p) THEN Refused("symlink_target")
  ELSE IF find_matching_root(mutating_path(tree, p), WriteRoots) = 0 THEN Refused("outside_workspace")
  ELSE build_resolved(mutating_path(tree, p), dirs, WriteRoots)
===============================================================================
