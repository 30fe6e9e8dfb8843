-------------------------------- MODULE Files --------------------------------
(* FileRead, FileEdit and FileWrite against a file system that others change    *)
(* (oran-tool/file_read.cpp, file_edit.cpp, file_write.cpp; oran-io/file.cpp,   *)
(* directory_authority.cpp, fingerprint.cpp).  Every system call of a tool call *)
(* is a step, so another tool call, or a program outside the runtime, can act   *)
(* between any two of them.  A read is made of chunks of one character.         *)
EXTENDS Text, Workspace

CONSTANTS
  Calls,       \* tool calls; without locks in common, as in two processes
  Requests,    \* requests that a call may make
  Dirs, Names, \* directories and entry names
  Tree0,       \* the directory tree at the start
  Pinned,      \* the pinned directories for reads, and
  PinnedWrite, \* for writes
  WindowLimit, \* most lines of a window
  RetryBelow,  \* size from which a changed file is not read again (64 KiB in the code)
  Inodes,      \* inodes in the order they are allocated: 1 .. N
  Text0,       \* initial texts, a function on 1 .. Len(Text0)
  Chars,       \* characters that outside programs write
  Swaps,       \* changes of the tree by outside programs: [dir, name, to]
  MaxOutside   \* bound on the outside changes

VARIABLES
  tree,     \* [Dirs -> [Names -> entry]]
  file,     \* inode -> [text, mtime, ctime]
  clock,    \* advances with every change of an inode
  call,     \* the calls in progress
  temps,    \* sibling temporary files that exist: [by, dir, ino]
  raced,    \* calls whose target changed after its last verification
  hist,     \* every version of every inode: [ino, mtime, text]
  seen,     \* tokens that completed reads returned
  changes   \* outside changes so far

world == <<tree, file, clock, temps, raced, hist, seen, changes>>
vars == <<call, world>>

\* The directories the workspace pins when it is created, its root first.
open_root_authorities(roots) == [i \in DOMAIN roots |-> DirAt(Tree0, realpath(Tree0, roots[i]))]
ASSUME PinnedAssumption ==
  /\ Pinned = open_root_authorities(<<Root>> \o ReadRoots)
  /\ PinnedWrite = open_root_authorities(<<Root>> \o WriteRoots)

NoToken == [path |-> NoPath, size |-> 0, mtime |-> 0]
NoIdentity == [ino |-> 0, size |-> 0, mtime |-> 0, ctime |-> 0]

Idle == [pc |-> "idle", req |-> [op |-> "none"], expected |-> NoToken, at |-> Resolved("slash", <<>>, NoPath),
         approved |-> FALSE, fd |-> 0, parent |-> "slash", id |-> NoIdentity,
         pre |-> <<0, 0>>, buf |-> <<>>, retried |-> FALSE, content |-> <<>>, result |-> "none"]

Init ==
  /\ tree = Tree0
  /\ file = [i \in 1 .. Len(Text0) |-> [text |-> Text0[i], mtime |-> 1, ctime |-> 1]]
  /\ clock = 1
  /\ call = [c \in Calls |-> Idle]
  /\ temps = {} /\ raced = {} /\ seen = {} /\ changes = 0
  /\ hist = {[ino |-> i, mtime |-> 1, text |-> Text0[i]] : i \in 1 .. Len(Text0)}

IsMutation(r) == r.op # "read"
Fingerprint(i) == <<Len(file[i].text), file[i].mtime>>
Identity(i) == [ino |-> i, size |-> Len(file[i].text), mtime |-> file[i].mtime, ctime |-> file[i].ctime]
same_identity(id, e) == e.kind = "file" /\ Identity(e.to) = id

\* The absolute path with the fingerprint: what a token tells apart.
version_token(c, fp) == [path |-> call[c].at.path, size |-> fp[1], mtime |-> fp[2]]

Target(c) == tree[call[c].parent][Last(call[c].at.rel)]

\* A call moves on, fails, or succeeds.
Go(c, pc) == call' = [call EXCEPT ![c].pc = pc]
End(c, result) == call' = [call EXCEPT ![c].pc = "done", ![c].result = result]

\* Inode i gets a text.  Every change has a time of its own: two of one size within
\* one tick of the file system's clock have the same fingerprint and are not modelled.
Write(i, text) ==
  /\ clock' = clock + 1
  /\ file' = [file EXCEPT ![i] = [text |-> text, mtime |-> clock + 1, ctime |-> clock + 1]]
  /\ hist' = hist \cup {[ino |-> i, mtime |-> clock + 1, text |-> text]}

\* A change races the calls about to rename over what it changes.
AboutToCommit(c) == call[c].pc = "rename"
RacedBy(test(_)) == raced \cup {c \in Calls : AboutToCommit(c) /\ test(c)}

-------------------------------------------------------------------------------
(* Preparation and resolution.                                                  *)

\* What the handlers check of their input before the call is dispatched.
parse_input_object(r) == r.wellFormed
prepare_file_read(r) == parse_input_object(r) /\ r.limit \in 1 .. WindowLimit
prepare_file_edit(r) == parse_input_object(r) /\ r.old # <<>> /\ r.old # r.new
prepare_file_write(r) == parse_input_object(r) /\ Len(r.new) <= r.max
Prepared(r) ==
  CASE r.op = "read" -> prepare_file_read(r)
    [] r.op = "edit" -> prepare_file_edit(r)
    [] OTHER -> prepare_file_write(r)

Start(c) ==
  /\ call[c].pc = "idle"
  /\ \E r \in Requests, e \in seen \cup {NoToken} :
       /\ r.op = "read" => e = NoToken
       /\ call' = [call EXCEPT ![c] = [Idle EXCEPT !.req = r, !.expected = e,
                                         !.pc = IF Prepared(r) THEN "resolve" ELSE "done",
                                         !.result = IF Prepared(r) THEN "none" ELSE "invalid"]]
  /\ UNCHANGED world

\* The outcome of a resolution: on to the handler, to the approval of a read
\* outside the workspace, or an error.
Resolve(c, r) ==
  LET in == call[c].req.path
      out == resolve_read_outside(tree, in)
      override == /\ call[c].req.op = "read" /\ call[c].req.outside
                  /\ r.kind = "error" /\ r.to \in {"outside_workspace", "symlink_escape"}
  IN IF override /\ out.kind = "resolved"
     THEN call' = [call EXCEPT ![c].pc = "approval", ![c].at = out]
     ELSE IF r.kind = "resolved"
          THEN call' = [call EXCEPT ![c].pc = IF IsMutation(call[c].req) THEN "parent" ELSE "open", ![c].at = r]
          ELSE End(c, r.to)

\* resolve_read_through_authority, first part: the lexical match and whether the
\* root's name still leads to the pinned directory.
MatchRead(c) ==
  /\ call[c].pc = "resolve" /\ ~IsMutation(call[c].req)
  /\ LET i == find_matching_root(join_input(call[c].req.path), ReadRoots) IN
     IF i = 0 THEN Resolve(c, Refused("outside_workspace"))
     ELSE Go(c, IF refers_to_path(tree, Pinned[i], (<<Root>> \o ReadRoots)[i]) THEN "pathname" ELSE "probe")
  /\ UNCHANGED world

PathnamePass(c) ==
  /\ call[c].pc = "pathname"
  /\ LET r == resolve_existing_readable(tree, call[c].req.path, Pinned)
     IN IF r.kind = "resolved" THEN Resolve(c, r) ELSE Go(c, "probe")
  /\ UNCHANGED world

Probe(c) ==
  /\ call[c].pc = "probe"
  /\ Resolve(c, probe_read(tree, call[c].req.path, Pinned))
  /\ UNCHANGED world

ResolveMutation(c) ==
  /\ call[c].pc = "resolve" /\ IsMutation(call[c].req)
  /\ Resolve(c, resolve_mutating(tree, call[c].req.path, PinnedWrite))
  /\ UNCHANGED world

\* The user answers the approval a read outside the workspace needs.
Approve(c) ==
  /\ call[c].pc = "approval"
  /\ \/ call' = [call EXCEPT ![c].pc = "open", ![c].approved = TRUE]
     \/ End(c, "rejected")
  /\ UNCHANGED world

-------------------------------------------------------------------------------
(* Reading.                                                                     *)

OpenRead(c) ==
  /\ call[c].pc = "open"
  /\ LET e == open_beneath(tree, call[c].at.dir, call[c].at.rel)
     IN IF e.kind = "file" THEN call' = [call EXCEPT ![c].pc = "pre", ![c].fd = e.to] ELSE End(c, e.to)
  /\ UNCHANGED world

\* The worker starts with the fingerprint; a cancellation that came first wins.
ReadBegins(c) ==
  /\ call[c].pc = "pre"
  /\ \/ call' = [call EXCEPT ![c].pc = "read", ![c].pre = Fingerprint(call[c].fd)]
     \/ End(c, "cancelled")
  /\ UNCHANGED world

\* A whole read takes the size of the fingerprint, at most max_bytes; a window
\* is scanned to the end of the file.
whole_read(c) == call[c].req.op = "edit"
read_whole_size(c) == IF call[c].pre[1] < call[c].req.max THEN call[c].pre[1] ELSE call[c].req.max

ReadChunk(c) ==
  LET k == Len(call[c].buf) + 1
      text == file[call[c].fd].text
      more == k <= Len(text) /\ (whole_read(c) => k <= read_whole_size(c))
  IN /\ call[c].pc = "read"
     /\ call' = [call EXCEPT ![c].buf = IF more THEN Append(@, text[k]) ELSE @,
                             ![c].pc = IF more THEN "read" ELSE "post"]
     /\ UNCHANGED world

\* What the handlers do with the text: FileRead answers with the token, FileEdit
\* goes on unless the read was cut at max_bytes.
ReadDone(c, fp) ==
  IF whole_read(c)
  THEN /\ IF fp[1] > call[c].req.max THEN End(c, "invalid") ELSE Go(c, "compute")
       /\ UNCHANGED seen
  ELSE End(c, "ok") /\ seen' = seen \cup {version_token(c, fp)}

\* Mutant: the fingerprint after the read is not compared.
ReadEndsUnchecked(c) ==
  /\ call[c].pc = "post"
  /\ ReadDone(c, Fingerprint(call[c].fd))
  /\ UNCHANGED <<tree, file, clock, temps, raced, hist, changes>>

\* The file must not have changed; a whole read of a small one is repeated once.
ReadEnds(c) ==
  LET fp == Fingerprint(call[c].fd)
      same == call[c].pre = fp
      retry == ~same /\ whole_read(c) /\ call[c].pre[1] < RetryBelow /\ ~call[c].retried
  IN /\ call[c].pc = "post"
     /\ CASE same -> ReadDone(c, fp)
          [] retry -> /\ call' = [call EXCEPT ![c].pc = "read", ![c].pre = fp, ![c].buf = <<>>, ![c].retried = TRUE]
                      /\ UNCHANGED seen
          [] ~same /\ ~retry -> End(c, "conflict") /\ UNCHANGED seen
     /\ UNCHANGED <<tree, file, clock, temps, raced, hist, changes>>

-------------------------------------------------------------------------------
(* Mutation.                                                                    *)

\* Mutant: the walk to the parent follows links (no O_NOFOLLOW).
OpenParentFollowing(c) ==
  LET p == realpath(tree, Front(call[c].at.path)) IN
  /\ call[c].pc = "parent"
  /\ IF p = NoPath THEN End(c, "not_found")
     ELSE call' = [call EXCEPT ![c].pc = "snapshot", ![c].parent = DirAt(tree, p)]
  /\ UNCHANGED world

\* begin_file_mutation walks to the parent and follows no link; it creates the
\* missing parents when asked.
OpenParent(c) ==
  LET rel == call[c].at.rel
      e == Beneath(tree, <<call[c].at.dir>>, Front(rel), FALSE, 0)
      free == {d \in Dirs : d = "made" /\ \A x \in Dirs, n \in Names : tree[x][n] # [kind |-> "dir", to |-> d]}
  IN /\ call[c].pc = "parent"
     /\ IF e.kind = "dir"
        THEN /\ call' = [call EXCEPT ![c].pc = "snapshot", ![c].parent = e.to] /\ UNCHANGED tree
        ELSE IF e = Refused("not_found") /\ call[c].req.parents /\ Len(rel) = 2 /\ free # {}
             THEN LET d == CHOOSE x \in free : TRUE IN
                  /\ tree' = [tree EXCEPT ![call[c].at.dir][rel[1]] = [kind |-> "dir", to |-> d]]
                  /\ call' = [call EXCEPT ![c].pc = "snapshot", ![c].parent = d]
             ELSE End(c, e.to) /\ UNCHANGED tree
     /\ UNCHANGED <<file, clock, temps, raced, hist, seen, changes>>

\* An edit, and a write that expects a version, work on an existing file.
NeedsExisting(c) == call[c].req.op = "edit" \/ call[c].expected # NoToken

\* The identity of the target, which must be absent or a regular file.
Snapshot(c) ==
  LET e == Target(c)
      wants == NeedsExisting(c)
      id == IF e.kind = "file" THEN Identity(e.to) ELSE NoIdentity
  IN /\ call[c].pc = "snapshot"
     /\ CASE e.kind \in {"link", "dir"} -> End(c, "not_regular")
          [] e.kind = "none" /\ wants -> End(c, IF call[c].req.op = "edit" THEN "not_found" ELSE "conflict")
          [] OTHER -> call' = [call EXCEPT ![c].id = id, ![c].pc = IF wants THEN "existing" ELSE "write"]
     /\ UNCHANGED world

\* open_existing: the name must still lead to the snapshot.
OpenExisting(c) ==
  /\ call[c].pc = "existing"
  /\ IF same_identity(call[c].id, Target(c))
     THEN call' = [call EXCEPT ![c].fd = Target(c).to,
                               ![c].pc = IF call[c].expected # NoToken THEN "version" ELSE "pre"]
     ELSE End(c, "conflict")
  /\ UNCHANGED world

CheckVersion(c) ==
  /\ call[c].pc = "version"
  /\ IF version_token(c, Fingerprint(call[c].fd)) = call[c].expected
     THEN Go(c, IF call[c].req.op = "edit" THEN "pre" ELSE "write")
     ELSE End(c, "conflict")
  /\ UNCHANGED world

\* The replacement: unique unless replace_all, and within max_bytes.
Compute(c) ==
  LET r == call[c].req
      ps == find_occurrences(call[c].buf, r.old)
      size == replacement_size(Len(call[c].buf), Len(r.old), Len(r.new), Len(ps), 2^16)
  IN /\ call[c].pc = "compute"
     /\ IF ps = <<>> THEN End(c, "not_found")
        ELSE IF Len(ps) > 1 /\ ~r.all THEN End(c, "conflict")
        ELSE IF size > r.max THEN End(c, "invalid")
        ELSE call' = [call EXCEPT ![c].pc = "write",
                                  ![c].content = apply_replacements(call[c].buf, r.old, r.new, ps)]
     /\ UNCHANGED world

Existed(c) == call[c].id # NoIdentity

\* The worker takes up write_text, unless it is cancelled before.
WriteBegins(c) ==
  LET op == call[c].req.op IN
  /\ call[c].pc = "write"
  /\ \/ IF op = "create" /\ Existed(c) THEN End(c, "conflict")
        ELSE call' = [call EXCEPT ![c].pc = IF op = "append" THEN "append" ELSE "temp",
                                  ![c].content = IF op = "edit" THEN @ ELSE call[c].req.new]
     \/ End(c, "cancelled")
  /\ UNCHANGED world

\* A new empty inode; its number is the next one.
NewInode == Len(file) + 1
Allocate ==
  /\ clock' = clock + 1
  /\ file' = Append(file, [text |-> <<>>, mtime |-> clock + 1, ctime |-> clock + 1])
  /\ hist' = hist \cup {[ino |-> NewInode, mtime |-> clock + 1, text |-> <<>>]}

\* The target is opened for appending, or created where it was absent.
AppendOpens(c) ==
  LET e == Target(c) IN
  /\ call[c].pc = "append"
  /\ CASE ~Existed(c) /\ e.kind = "none" /\ NewInode \in Inodes ->
            /\ Allocate
            /\ tree' = [tree EXCEPT ![call[c].parent][Last(call[c].at.rel)] = [kind |-> "file", to |-> NewInode]]
            /\ raced' = RacedBy(LAMBDA o : call[o].parent = call[c].parent /\ Last(call[o].at.rel) = Last(call[c].at.rel))
            /\ call' = [call EXCEPT ![c].pc = "appending", ![c].fd = NewInode]
       [] Existed(c) /\ same_identity(call[c].id, e) ->
            /\ call' = [call EXCEPT ![c].pc = "appending", ![c].fd = e.to]
            /\ UNCHANGED <<tree, file, clock, hist, raced>>
       [] OTHER -> End(c, "conflict") /\ UNCHANGED <<tree, file, clock, hist, raced>>
  /\ UNCHANGED <<temps, seen, changes>>

\* write_all appends the content, at the end the file has then, in one call of
\* write or in several; buf counts what was written.
AppendChunk(c) ==
  LET n == Len(call[c].buf)
      left == Len(call[c].content) - n
  IN /\ call[c].pc = "appending"
     /\ IF left = 0 THEN End(c, "ok") /\ UNCHANGED <<file, clock, hist, raced>>
        ELSE \/ \E k \in 1 .. left :
                  /\ Write(call[c].fd, file[call[c].fd].text \o SubSeq(call[c].content, n + 1, n + k))
                  /\ raced' = RacedBy(LAMBDA o : Target(o) = [kind |-> "file", to |-> call[c].fd])
                  /\ call' = [call EXCEPT ![c].buf = SubSeq(call[c].content, 1, n + k)]
             \/ End(c, "io") /\ UNCHANGED <<file, clock, hist, raced>>
     /\ UNCHANGED <<tree, temps, seen, changes>>

\* The sibling temporary file; an error of any later step unlinks it.
CreateTemp(c) ==
  /\ call[c].pc = "temp"
  /\ \/ /\ NewInode \in Inodes
        /\ Allocate
        /\ temps' = temps \cup {[by |-> c, dir |-> call[c].parent, ino |-> NewInode]}
        /\ call' = [call EXCEPT ![c].pc = "filling", ![c].fd = NewInode]
     \/ End(c, "io") /\ UNCHANGED <<file, clock, hist, temps>>
  /\ UNCHANGED <<tree, raced, seen, changes>>

Unlinked(c) == {t \in temps : t.by # c}

FillTemp(c) ==
  /\ call[c].pc = "filling"
  /\ \/ /\ Write(call[c].fd, call[c].content)
        /\ Go(c, IF call[c].req.op = "create" THEN "link" ELSE "verify")
        /\ UNCHANGED temps
     \/ End(c, "io") /\ temps' = Unlinked(c) /\ UNCHANGED <<file, clock, hist>>
  /\ UNCHANGED <<tree, raced, seen, changes>>

\* Mutant: the target is taken to be the one of the snapshot.
VerifyTargetUnchecked(c) ==
  /\ call[c].pc = "verify" /\ Go(c, "rename") /\ UNCHANGED world

\* The last look at the target before the rename: the snapshot is still there,
\* and has the expected version; or the target is still absent.
VerifyTarget(c) ==
  LET e == Target(c)
      fresh == IF Existed(c)
               THEN /\ same_identity(call[c].id, e)
                    /\ call[c].expected # NoToken => version_token(c, Fingerprint(e.to)) = call[c].expected
               ELSE e.kind = "none"
  IN /\ call[c].pc = "verify"
     /\ IF fresh THEN Go(c, "rename") /\ UNCHANGED temps
        ELSE End(c, "conflict") /\ temps' = Unlinked(c)
     /\ UNCHANGED <<tree, file, clock, raced, hist, seen, changes>>

SetTarget(c) == tree' = [tree EXCEPT ![call[c].parent][Last(call[c].at.rel)] = [kind |-> "file", to |-> call[c].fd]]
\* Renaming or linking an inode touches its ctime.
Touched(i) == clock' = clock + 1 /\ file' = [file EXCEPT ![i].ctime = clock + 1]

Rename(c) ==
  /\ call[c].pc = "rename"
  /\ temps' = Unlinked(c)
  /\ IF Target(c).kind = "dir"
     THEN End(c, "io") /\ UNCHANGED <<tree, file, clock, raced>>
     ELSE /\ SetTarget(c)
          /\ Touched(call[c].fd)
          /\ raced' = RacedBy(LAMBDA o : o # c /\ call[o].parent = call[c].parent /\ Last(call[o].at.rel) = Last(call[c].at.rel))
          /\ End(c, "ok")
  /\ UNCHANGED <<hist, seen, changes>>

\* An exclusive creation links the complete file under the name, if it is free.
Link(c) ==
  /\ call[c].pc = "link"
  /\ IF Target(c).kind = "none"
     THEN /\ SetTarget(c) /\ Touched(call[c].fd) /\ Go(c, "unlink")
          /\ raced' = RacedBy(LAMBDA o : call[o].parent = call[c].parent /\ Last(call[o].at.rel) = Last(call[c].at.rel))
          /\ UNCHANGED temps
     ELSE End(c, "conflict") /\ temps' = Unlinked(c) /\ UNCHANGED <<tree, file, clock, raced>>
  /\ UNCHANGED <<hist, seen, changes>>

UnlinkTemp(c) ==
  /\ call[c].pc = "unlink"
  /\ temps' = Unlinked(c) /\ Touched(call[c].fd) /\ End(c, "ok")
  /\ raced' = RacedBy(LAMBDA o : Target(o) = [kind |-> "file", to |-> call[c].fd])
  /\ UNCHANGED <<tree, hist, seen, changes>>

\* The process dies: what is on disk stays, a temporary file included.
Crash(c) ==
  /\ call[c].pc \in {"filling", "verify", "rename", "link", "unlink", "appending"}
  /\ End(c, "crashed")
  /\ UNCHANGED world

-------------------------------------------------------------------------------
(* Programs outside the runtime.                                                *)

\* A program writes a file in place: it changes its only character or appends one.
OutsideWrite ==
  /\ changes < MaxOutside /\ changes' = changes + 1
  /\ \E d \in Dirs, n \in Names : tree[d][n].kind = "file" /\
       LET i == tree[d][n].to IN
       /\ \E ch \in Chars : \/ Write(i, Append(file[i].text, ch))
                            \/ file[i].text # <<>> /\ Write(i, [file[i].text EXCEPT ![1] = ch])
       /\ raced' = RacedBy(LAMBDA o : Target(o) = tree[d][n])
  /\ UNCHANGED <<tree, call, temps, seen>>

\* A program replaces an entry: a directory by a link, a link by another, a file
\* by nothing, the name of the workspace by another directory.
OutsideSwap ==
  /\ changes < MaxOutside /\ changes' = changes + 1
  /\ \E s \in Swaps :
       /\ tree[s.dir][s.name] # s.to
       /\ tree' = [tree EXCEPT ![s.dir][s.name] = s.to]
       /\ raced' = RacedBy(LAMBDA o : call[o].parent = s.dir /\ Last(call[o].at.rel) = s.name)
  /\ UNCHANGED <<file, clock, call, temps, hist, seen>>

CallStep(c) ==
  \/ Start(c) \/ MatchRead(c) \/ PathnamePass(c) \/ Probe(c) \/ ResolveMutation(c) \/ Approve(c)
  \/ OpenRead(c) \/ ReadBegins(c) \/ ReadChunk(c) \/ ReadEnds(c)
  \/ OpenParent(c) \/ Snapshot(c) \/ OpenExisting(c) \/ CheckVersion(c) \/ Compute(c)
  \/ WriteBegins(c) \/ AppendOpens(c) \/ AppendChunk(c) \/ CreateTemp(c) \/ FillTemp(c)
  \/ VerifyTarget(c) \/ Rename(c) \/ Link(c) \/ UnlinkTemp(c) \/ Crash(c)

Next == (\E c \in Calls : CallStep(c)) \/ OutsideWrite \/ OutsideSwap

Spec == Init /\ [][Next]_vars

-------------------------------------------------------------------------------
(* Properties.                                                                  *)

\* Directories that Tree0 puts beneath the given ones, and the one calls make.
RECURSIVE Below(_)
Below(ds) ==
  LET next == ds \cup {e \in Dirs : \E d \in ds, n \in Names : Tree0[d][n] = [kind |-> "dir", to |-> e]}
  IN IF next = ds THEN ds \cup {"made"} ELSE Below(next)

FilesIn(ds) == {i \in 1 .. Len(Text0) : \E d \in ds, n \in Names : Tree0[d][n] = [kind |-> "file", to |-> i]}

WritableDirs == Below(Range(PinnedWrite))
ReadableFiles == FilesIn(Below(Range(Pinned)))

Committing == {"filling", "verify", "rename", "link", "unlink"}

\* The type invariant: a call that writes holds an inode, and temporary files
\* belong to calls that are committing or died while they were.
FilesInv ==
  /\ file \in Seq([text : Seq(TextBytes \cup Chars \cup {99}), mtime : 1 .. clock, ctime : 1 .. clock])
  /\ \A c \in Calls :
       /\ call[c].fd \in 0 .. Len(file)
       /\ call[c].pc \in {"read", "post", "compute"} \cup Committing => call[c].fd > 0
       /\ call[c].pc \in Committing <=> call[c].result = "none" /\ \E t \in temps : t.by = c
  /\ \A t \in temps : call[t.by].result \in {"none", "crashed"} /\ t.ino = call[t.by].fd

\* However links and directory names are changed under a call, it mutates nothing
\* but directories beneath the pinned roots, and reads a file outside the read
\* roots only when the user approved it (directory_authority.cpp:200-240,
\* 636-717, workspace.cpp:371-418, path_resolution.cpp:143-170).
StaysBeneath ==
  /\ FilesInv
  /\ \A c \in Calls :
       /\ \A t \in temps : t.dir \in WritableDirs
       /\ IsMutation(call[c].req) /\ call[c].fd > 0 => call[c].parent \in WritableDirs
       /\ call[c].req.op = "read" /\ call[c].fd > 0 /\ ~call[c].approved =>
            call[c].fd \notin 1 .. Len(Text0) \/ call[c].fd \in ReadableFiles

\* A completed read, and the text an edit works on, is one version of the file as
\* it stood at one moment, the version of the token that comes with it; a file
\* written while it is read is never returned as a mixture (file.cpp:251-304).
ReadIsSnapshot ==
  \A c \in Calls :
    \/ call[c].req.op = "read" /\ call[c].result = "ok"
    \/ call[c].pc = "compute"
    => [ino |-> call[c].fd, mtime |-> call[c].pre[2], text |-> call[c].buf] \in hist

\* A tool call commits over what it looked at: unless another program changed the
\* target between the last verification and the rename, the file an edit replaces
\* still has the text that was edited, a replaced file still has the expected
\* version and the snapshot's identity, an absent target is still absent, and what
\* gets the name is the complete content (file_edit.cpp:101-202, file_write.cpp:47-105,
\* directory_authority.cpp:445-561).
CommitReplacesWhatWasRead ==
  [][\A c \in Calls :
       LET was == Target(c)
           r == call[c].req
       IN call[c].pc \in {"rename", "link"} /\ tree' # tree /\ call'[c] # call[c] =>
            /\ file[call[c].fd].text = call[c].content
            /\ call[c].pc = "link" => was.kind = "none"
            /\ call[c].pc = "rename" /\ c \notin raced =>
                 IF Existed(c)
                 THEN /\ same_identity(call[c].id, was)
                      /\ r.op = "edit" => call[c].content =
                           apply_replacements(file[was.to].text, r.old, r.new, find_occurrences(file[was.to].text, r.old))
                      /\ call[c].expected # NoToken => version_token(c, Fingerprint(was.to)) = call[c].expected
                 ELSE was.kind = "none"]_vars
===============================================================================
