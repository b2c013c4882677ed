-------------------------------- MODULE Launch --------------------------------
(***************************************************************************)
(* What an approved request launches: internal/integrity, the part of      *)
(* Submit that inspects files, the part of execute that opens them again   *)
(* and compares, and the helper that executes descriptors.                 *)
(*                                                                         *)
(* A file system of names and inodes changes between any two system calls. *)
(* A name is bound to an inode or is a symbolic link to another name.  A   *)
(* change of an inode (its bytes or its mode, or its number given to a new *)
(* file) gives it a stamp it never had, which stands for the size, owner,  *)
(* mode, mtime and ctime the daemon compares.                              *)
(***************************************************************************)
EXTENDS Naturals, Sequences

CONSTANTS
    Names,         \* absolute path names
    Files, Dirs,   \* inodes of regular files and of directories
    None,          \* no inode, no name
    Contents,      \* file contents; a hash is the content it is the hash of
    Shebang,       \* what the first line of a content names as interpreter
    Value, Cwd,    \* SubmitRequest.executable (None: a word to look up) and cwd
    SafePath,      \* the names the word has in the directories of safePath
    Start,         \* the file system at first: bindings of the names
    StartContent,  \* and the contents a file may have
    MaxEdits,      \* how often the file system changes
    MaxRestarts    \* how often the daemon restarts

Inodes == Files \cup Dirs

ASSUME LaunchAssumption ==
    /\ None \notin Names \cup Inodes
    /\ Names \cap Inodes = {} /\ Files \cap Dirs = {}
    /\ Shebang \in [Contents -> Names \cup {"none", "invalid"}]
    /\ {"none", "invalid"} \cap Names = {}
    /\ Value \in Names \cup {None} /\ Cwd \in Names
    /\ SafePath \in Seq(Names)
    /\ Start \in [Names -> Inodes \cup Names \cup {None}]
    /\ StartContent \in [Files -> SUBSET Contents]
    /\ {MaxEdits, MaxRestarts} \subseteq Nat

VARIABLES
    names, content, executable, stamp,  \* the file system
    edits,         \* changes of the file system so far
    phase,         \* inspect, stored, verify, helper, or how it ended
    target,        \* the object the daemon works on: "exe", "int" or "dir"
    step,          \* the system call it is about to make
    path,          \* the name it works on
    fd,            \* the open descriptors
    seen,          \* the metadata it is reading
    wanted,        \* the interpreter the shebang line named
    record,        \* the metadata stored with the request
    written,       \* files written to since verification read them
    ran,           \* what the helper executed
    restarts

fsVars == <<names, content, executable, stamp, edits>>
daemonVars == <<phase, target, step, path, fd, seen, wanted, record, ran>>
vars == <<fsVars, daemonVars, written, restarts>>

Targets == {"exe", "int", "dir"}
NoMeta == [path |-> None, inode |-> None, stamp |-> 0, hash |-> None]
NoFd == [t \in Targets |-> None]
NothingRan == [exe |-> None, int |-> None, dir |-> None,
               exeCode |-> None, intCode |-> None]

Init ==
    /\ names = Start
    /\ content \in [Files -> Contents]
    /\ \A f \in Files : content[f] \in StartContent[f]
    /\ executable = [f \in Files |-> TRUE]
    /\ stamp = [i \in Inodes |-> 0]
    /\ edits = 0 /\ restarts = 0
    /\ phase = "inspect" /\ target = "exe" /\ step = "lookup" /\ path = None
    /\ fd = NoFd /\ seen = NoMeta /\ wanted = "none"
    /\ record = [t \in Targets |-> NoMeta]
    /\ written = {} /\ ran = NothingRan

-----------------------------------------------------------------------------
(* The file system.                                                         *)

FollowsLinks(S) == \A m \in S : names[m] \in Names => names[m] \in S

\* filepath.EvalSymlinks: the name at the end of the links, if it is bound.
EvalSymlinks(n) ==
    LET reached == {m \in Names : \A S \in SUBSET Names :
                                     n \in S /\ FollowsLinks(S) => m \in S}
        ends == {m \in reached : names[m] \in Inodes}
    IN  IF ends = {} THEN None ELSE CHOOSE m \in ends : TRUE

\* stat(2), which follows links.
StatInode(n) ==
    IF EvalSymlinks(n) = None THEN None ELSE names[EvalSymlinks(n)]

IsExecutable(i) == i \in Files /\ executable[i]

Edit(inode) ==
    /\ edits < MaxEdits /\ edits' = edits + 1
    /\ stamp' = IF inode = None THEN stamp ELSE [stamp EXCEPT ![inode] = edits + 1]
    /\ UNCHANGED <<daemonVars, restarts>>

Rebind(n, to) ==
    /\ to # n
    /\ names' = [names EXCEPT ![n] = to]
    /\ Edit(None)
    /\ UNCHANGED <<content, executable, written>>

WriteFile(f, c) ==
    /\ content' = [content EXCEPT ![f] = c]
    /\ written' = written \cup {f}
    /\ Edit(f)
    /\ UNCHANGED <<names, executable>>

Chmod(i) ==
    /\ executable' = IF i \in Files THEN [executable EXCEPT ![i] = ~@] ELSE executable
    /\ Edit(i)
    /\ UNCHANGED <<names, content, written>>

FileSystem ==
    \/ \E n \in Names : \E to \in Inodes \cup Names \cup {None} : Rebind(n, to)
    \/ \E f \in Files, c \in Contents : WriteFile(f, c)
    \/ \E i \in Inodes : Chmod(i)

-----------------------------------------------------------------------------
(* What the daemon's calls require.                                         *)

\* ResolveExecutable: a value without a slash is the first executable regular
\* file of that name in safePath.
Candidate ==
    LET found == {k \in 1..Len(SafePath) : IsExecutable(StatInode(SafePath[k]))}
    IN  IF Value # None THEN Value
        ELSE IF found = {} THEN None
        ELSE SafePath[CHOOSE k \in found : \A j \in found : k <= j]

\* The rest of inspectExecutableFile, after fstat.
Hashed == [path |-> seen.path, inode |-> seen.inode, stamp |-> seen.stamp,
           hash |-> content[fd[target]]]

\* inspectShebang, from the same descriptor.
FirstLine == Shebang[content[fd[target]]]

\* Mutant: mtime and ctime are not compared.
SameAsRecordedUnstamped(m) == m.inode = record[target].inode /\ m.hash = record[target].hash

\* Mutant: the metadata is compared and the bytes are not.
SameAsRecordedMeta(m) == m.inode = record[target].inode /\ m.stamp = record[target].stamp

SameAsRecorded(m) == m = record[target]

SameDirectory ==
    record["dir"].inode = fd["dir"] /\ record["dir"].stamp = stamp[fd["dir"]]

\* A script names an absolute interpreter; an interpreter is not a script.
Acceptable(line) == line = "none" \/ (target = "exe" /\ line \in Names)

\* For a script its interpreter is executed, with the script's descriptor.
Launchee == IF fd["int"] = None THEN fd["exe"] ELSE fd["int"]

\* The next call succeeds.  Files and, at verification, the directory are opened
\* with O_NOFOLLOW; InspectDirectory uses stat(2), which follows a link that has
\* replaced the resolved name since.
Succeeds ==
    /\ step = "lookup" => Candidate # None
    /\ step = "resolve" => EvalSymlinks(path) # None
    /\ step = "open" => names[path] \in (IF target = "dir" THEN Dirs ELSE Inodes)
    /\ step = "stat" => StatInode(path) \in Dirs
    /\ step = "fstat" => IsExecutable(fd[target])
    /\ step = "compare" => SameDirectory
    /\ step = "shebang" => Acceptable(FirstLine)
    /\ step = "verify" => SameAsRecorded(Hashed)
    /\ step = "exec" => IsExecutable(Launchee)

-----------------------------------------------------------------------------
(* Steps of the daemon.  Each is one system call and what follows it.       *)

Call(s) == step = s /\ Succeeds
Goto(p, t, s) == phase' = p /\ target' = t /\ step' = s

Lookup ==
    /\ Call("lookup")
    /\ path' = Candidate
    /\ Goto("inspect", "exe", "resolve")
    /\ UNCHANGED <<fsVars, fd, seen, wanted, record, written, ran, restarts>>

Resolve ==
    /\ Call("resolve")
    /\ path' = EvalSymlinks(path)
    /\ Goto("inspect", target, IF target = "dir" THEN "stat" ELSE "open")
    /\ UNCHANGED <<fsVars, fd, seen, wanted, record, written, ran, restarts>>

Open ==
    /\ Call("open")
    /\ fd' = [fd EXCEPT ![target] = names[path]]
    /\ Goto(phase, target, IF target = "dir" THEN "compare" ELSE "fstat")
    /\ UNCHANGED <<fsVars, path, seen, wanted, record, written, ran, restarts>>

\* inspectExecutableFile, up to the read.
Fstat ==
    /\ Call("fstat")
    /\ seen' = [path |-> path, inode |-> fd[target], stamp |-> stamp[fd[target]],
                hash |-> None]
    /\ Goto(phase, target, IF phase = "inspect" THEN "hash" ELSE "verify")
    /\ UNCHANGED <<fsVars, path, fd, wanted, record, written, ran, restarts>>

HashFile ==
    /\ Call("hash")
    /\ seen' = Hashed
    /\ Goto(phase, target, "shebang")
    /\ UNCHANGED <<fsVars, path, fd, wanted, record, written, ran, restarts>>

\* The interpreter of a script is inspected next, then the working directory.
ReadShebang ==
    /\ Call("shebang")
    /\ record' = [record EXCEPT ![target] = seen]
    /\ wanted' = IF target = "exe" THEN FirstLine ELSE wanted
    /\ IF target = "exe" /\ FirstLine # "none"
       THEN path' = FirstLine /\ Goto("inspect", "int", "resolve")
       ELSE path' = Cwd /\ Goto("inspect", "dir", "resolve")
    /\ UNCHANGED <<fsVars, fd, seen, written, ran, restarts>>

\* Mutant: the directory is recorded under the name that was submitted.
StatDirectorySubmitted ==
    /\ Call("stat")
    /\ record' = [record EXCEPT !["dir"] =
                    [path |-> Cwd, inode |-> StatInode(path),
                     stamp |-> stamp[StatInode(path)], hash |-> None]]
    /\ Goto("stored", "dir", "approval")
    /\ fd' = NoFd
    /\ UNCHANGED <<fsVars, path, seen, wanted, written, ran, restarts>>

\* The rest of InspectDirectory; Submit stores the request.
StatDirectory ==
    /\ Call("stat")
    /\ record' = [record EXCEPT !["dir"] =
                    [path |-> path, inode |-> StatInode(path),
                     stamp |-> stamp[StatInode(path)], hash |-> None]]
    /\ Goto("stored", "dir", "approval")
    /\ fd' = NoFd
    /\ UNCHANGED <<fsVars, path, seen, wanted, written, ran, restarts>>

\* execute, once the request is approved and its hash, approval and policy checked.
Execute ==
    /\ phase = "stored"
    /\ path' = record["dir"].path
    /\ Goto("verify", "dir", "open")
    /\ UNCHANGED <<fsVars, fd, seen, wanted, record, written, ran, restarts>>

\* The rest of OpenVerifiedDirectory.
CompareDirectory ==
    /\ Call("compare")
    /\ path' = record["exe"].path
    /\ Goto("verify", "exe", "open")
    /\ UNCHANGED <<fsVars, fd, seen, wanted, record, written, ran, restarts>>

\* The rest of OpenVerifiedExecutable: the bytes are read again and everything is
\* compared.  With the last descriptor BeginExecution and the helper follow.
VerifyFile ==
    /\ Call("verify")
    /\ written' = written \ {fd[target]}
    /\ path' = record["int"].path
    /\ IF target = "exe" /\ record["int"] # NoMeta
       THEN Goto("verify", "int", "open")
       ELSE Goto("helper", target, "exec")
    /\ UNCHANGED <<fsVars, fd, seen, wanted, record, ran, restarts>>

Code(i) == IF i = None THEN None ELSE content[i]

\* Mutant: the helper executes the recorded name.
ExecPinnedByName ==
    LET exe == StatInode(record["exe"].path)
    IN  /\ Call("exec") /\ IsExecutable(exe)
        /\ ran' = [exe |-> exe, int |-> fd["int"], dir |-> fd["dir"],
                   exeCode |-> Code(exe), intCode |-> Code(fd["int"])]
        /\ Goto("done", target, "none")
        /\ UNCHANGED <<fsVars, path, fd, seen, wanted, record, written, restarts>>

\* fchdir and execve of a descriptor, in the helper process.
ExecPinned ==
    /\ Call("exec")
    /\ ran' = [exe |-> fd["exe"], int |-> fd["int"], dir |-> fd["dir"],
               exeCode |-> Code(fd["exe"]), intCode |-> Code(fd["int"])]
    /\ Goto("done", target, "none")
    /\ UNCHANGED <<fsVars, path, fd, seen, wanted, record, written, restarts>>

\* A call that fails ends Submit with an error, or execute with a rejection; a
\* helper that fails ends with a nonzero exit.
Fails ==
    /\ ~Succeeds
    /\ Goto(IF phase = "inspect" THEN "refused" ELSE "rejected", target, "none")
    /\ UNCHANGED <<fsVars, path, fd, seen, wanted, record, written, ran, restarts>>

\* A stopped daemon loses its descriptors.  RecoverApproved executes what was
\* approved and not begun; what had begun is marked failed.
Restart ==
    /\ phase \in {"verify", "helper"}
    /\ restarts < MaxRestarts /\ restarts' = restarts + 1
    /\ fd' = NoFd
    /\ IF phase = "verify" THEN Goto("stored", "dir", "approval")
       ELSE Goto("rejected", target, "none")
    /\ UNCHANGED <<fsVars, path, seen, wanted, record, written, ran>>

Next ==
    \/ FileSystem
    \/ Lookup \/ Resolve \/ Open \/ Fstat \/ HashFile \/ ReadShebang \/ StatDirectory
    \/ Execute \/ CompareDirectory \/ VerifyFile \/ ExecPinned
    \/ Fails \/ Restart

Spec == Init /\ [][Next]_vars

-----------------------------------------------------------------------------
(* Properties.                                                              *)

Metas == [path: Names \cup {None}, inode: Inodes \cup {None}, stamp: 0..MaxEdits,
          hash: Contents \cup {None}]

\* Every variable holds a value of its type.
TypeOK ==
    /\ names \in [Names -> Inodes \cup Names \cup {None}]
    /\ content \in [Files -> Contents] /\ executable \in [Files -> BOOLEAN]
    /\ stamp \in [Inodes -> 0..MaxEdits] /\ edits \in 0..MaxEdits
    /\ phase \in {"inspect", "stored", "verify", "helper", "done", "refused", "rejected"}
    /\ target \in Targets
    /\ step \in {"lookup", "resolve", "open", "fstat", "hash", "shebang", "stat",
                 "approval", "compare", "verify", "exec", "none"}
    /\ path \in Names \cup {None}
    /\ fd \in [Targets -> Inodes \cup {None}]
    /\ seen \in Metas /\ record \in [Targets -> Metas]
    /\ wanted \in Names \cup {"none"}
    /\ written \subseteq Files
    /\ ran \in [exe: Inodes \cup {None}, int: Inodes \cup {None},
                dir: Inodes \cup {None}, exeCode: Contents \cup {None},
                intCode: Contents \cup {None}]
    /\ restarts \in 0..MaxRestarts

\* However names are rebound, turned into links or removed between inspection,
\* review, verification and exec, the executable, interpreter and directory that
\* run are the very inodes recorded for the reviewer.
PinnedObjectsRun ==
    phase = "done" =>
        /\ ran.exe = record["exe"].inode
        /\ ran.int = record["int"].inode
        /\ ran.dir = record["dir"].inode

\* The bytes that run are the bytes whose hash the reviewer confirmed, for the
\* executable and for the interpreter, unless the file was written to in place
\* after verification had read it: descriptors pin a file, not its bytes.
RecordedBytesRun ==
    phase = "done" =>
        /\ ran.exe \notin written => ran.exeCode = record["exe"].hash
        /\ ran.int \notin written => ran.intCode = record["int"].hash

\* A request whose executable changed while Submit inspected it never runs: for
\* every request that does, the recorded interpreter is the one the recorded bytes
\* name, although metadata, hash and first line were read one after the other, and
\* the interpreter is not a script.
TornInspectionNeverRuns ==
    phase \in {"helper", "done"} =>
        /\ wanted = Shebang[record["exe"].hash]
        /\ record["int"] = NoMeta <=> wanted = "none"
        /\ record["int"] # NoMeta => Shebang[record["int"].hash] = "none"

\* A request is rejected for its files only when the file system has changed since
\* it was submitted, or when a restart ended its helper: links in the submitted
\* names, scripts and word lookups included.
UnchangedIsAccepted == phase = "rejected" => edits > 0 \/ restarts > 0
===============================================================================
