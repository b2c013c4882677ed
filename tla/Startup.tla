-------------------------------- MODULE Startup --------------------------------
(***************************************************************************)
(* What shudod does with a path at startup, apps/daemon/cmd/shudod/main.go: *)
(* verifyRootFile for the configuration and the policy, prepareDatabase    *)
(* and prepareSocket, all built on verifyDirectoryChain, which walks from  *)
(* a directory up to "/" one lstat at a time, and the operations by name   *)
(* that rely on them.  An unprivileged user changes whatever directory     *)
(* permissions allow between any two system calls.                         *)
(*                                                                         *)
(* chain[k] is what the k-th component of the path is bound to: chain[0]   *)
(* is "/", chain[Depth - 1] the directory of the file, chain[Depth] the    *)
(* file or socket.                                                         *)
(***************************************************************************)
EXTENDS Naturals

CONSTANTS
    Depth,             \* components of the path
    StrayDirectories   \* whether users can move a sticky directory of root's

ASSUME StartupAssumption ==
    /\ Depth \in Nat \ {0, 1}
    /\ StrayDirectories \in BOOLEAN

VARIABLES
    chain,
    goal,          \* what the path is for
    phase,         \* the call the daemon is about to make
    level,         \* the component verifyDirectoryChain looks at
    info,          \* what lstat said about the directory, before the walk
    used           \* what the last operation by name acted on

vars == <<chain, goal, phase, level, info, used>>

Goals == {"config", "database", "socket"}
Directory == Depth - 1

\* mode: "private" is 0600, "tight" is not writable to group and other, "open" is,
\* and "sticky" is an open directory with the sticky bit.  What is the user's is at
\* the user's disposal, whatever its mode.
Placed ==
    [kind: {"dir", "file", "link"}, owner: {"user"}, mode: {"open"}]
        \cup [kind: {"link"}, owner: {"root"}, mode: {"open"}]
        \cup [kind: {"absent"}, owner: {"nobody"}, mode: {"none"}]
Components ==
    Placed \cup [kind: {"dir"}, owner: {"root"}, mode: {"tight", "open", "sticky"}]
Leaves ==
    Placed \cup [kind: {"file"}, owner: {"root"}, mode: {"private", "tight", "open"}]
           \cup [kind: {"socket"}, owner: {"root", "user"}, mode: {"open"}]
Objects == Components \cup Leaves
Fitting(k) == IF k = Depth THEN Leaves ELSE Components
Absent == [kind |-> "absent", owner |-> "nobody", mode |-> "none"]
RootOwned(kind, mode) == [kind |-> kind, owner |-> "root", mode |-> mode]

Begin == IF goal = "config" THEN "walk" ELSE "lstat"

Init ==
    /\ \E dirs \in [0..Directory -> Components], leaf \in Leaves :
           chain = [k \in 0..Depth |-> IF k = Depth THEN leaf ELSE dirs[k]]
    /\ chain[0].kind = "dir" /\ chain[0].owner = "root"
    /\ \A k \in 1..Depth : chain[k - 1].kind \notin {"dir", "link"} => chain[k] = Absent
    /\ goal \in Goals
    /\ phase = Begin /\ level = Directory
    /\ info = Absent /\ used = Absent

-----------------------------------------------------------------------------
(* The user.  Behind a link, and in a directory that is the user's or is    *)
(* writable without the sticky bit, any entry can be renamed away and       *)
(* another one put in its place; in a sticky directory only the user's own  *)
(* entries can, and free names be taken.                                    *)

Controls(k) ==
    \/ chain[k - 1].kind = "link"
    \/ chain[k - 1].kind = "dir" /\ (chain[k - 1].owner = "user" \/ chain[k - 1].mode = "open")

CanReplace(k) ==
    \/ Controls(k)
    \/ chain[k - 1].mode = "sticky" /\ chain[k].owner # "root"

\* What rename(2) lets the user move in from elsewhere: files, links and sockets of
\* whatever owner, but a directory only when the user may write to it, since its ".."
\* changes.  A directory of root's that is open to users without the sticky bit always
\* may come; a sticky one needs to lie in a directory of the user's, where root, or a
\* program of root's, must have made it.
Movable(o) ==
    \/ o.owner # "root" \/ o.kind # "dir" \/ o.mode = "open"
    \/ StrayDirectories /\ o.mode = "sticky"

\* What the user can put there; what is below it, the user can arrange before.
Replace(k, o) ==
    /\ CanReplace(k)
    /\ ~Controls(k) => Movable(o)
    /\ chain' = [j \in 0..Depth |->
                    IF j < k THEN chain[j]
                    ELSE IF j = k THEN o
                    ELSE IF o.kind \in {"dir", "link"} THEN chain[j]
                    ELSE Absent]
    /\ UNCHANGED <<goal, phase, level, info, used>>

-----------------------------------------------------------------------------
(* The daemon.                                                              *)

Goto(p) == phase' = p
Writable(o) == o.mode \in {"open", "sticky"}

\* verifyDirectoryChain, for one component.
SafeDirectory(o) ==
    o.kind = "dir" /\ o.owner = "root" /\ (~Writable(o) \/ o.mode = "sticky")

\* The directory as it was before the walk: dedicated, and not even sticky.
DedicatedDirectory(o) == o.kind = "dir" /\ o.owner = "root" /\ ~Writable(o)

\* Mutant: the owner of a file is not looked at.
AcceptableFileOfAnybody(o) ==
    o.kind = "file" \/ (goal # "config" /\ o = Absent) \/ (goal = "socket" /\ o.kind = "socket")

\* lstat of the file itself: by verifyRootFile, prepareDatabase, prepareSocket.
AcceptableFile(o) ==
    /\ goal = "config" => o.kind = "file" /\ o.owner = "root" /\ ~Writable(o)
    /\ goal = "database" => o = Absent \/ o = RootOwned("file", "private")
    /\ goal = "socket" => o.kind \in {"absent", "socket"}

\* The phase after a walk that has reached "/".
Walked == IF phase = "walkParent" THEN "mkdir"
          ELSE IF goal = "config" THEN "leaf" ELSE "info"

\* Mutant: the walk ends below "/".
WalkShort ==
    /\ phase \in {"walk", "walkParent"} /\ SafeDirectory(chain[level])
    /\ IF level <= 1 THEN Goto(Walked) /\ level' = Directory
       ELSE level' = level - 1 /\ UNCHANGED phase
    /\ UNCHANGED <<chain, goal, info, used>>

Walk ==
    /\ phase \in {"walk", "walkParent"} /\ SafeDirectory(chain[level])
    /\ IF level = 0 THEN Goto(Walked) /\ level' = Directory
       ELSE level' = level - 1 /\ UNCHANGED phase
    /\ UNCHANGED <<chain, goal, info, used>>

\* prepareDatabase and prepareSocket; an absent directory is created once its
\* parent is verified.
LstatDirectory ==
    /\ phase = "lstat"
    /\ info' = chain[Directory]
    /\ IF info' = Absent THEN Goto("walkParent") /\ level' = Directory - 1
       ELSE Goto("walk") /\ level' = Directory
    /\ UNCHANGED <<chain, goal, used>>

\* mkdir(2) fails on a name somebody has taken meanwhile.
Mkdir ==
    /\ phase = "mkdir" /\ chain[Directory] = Absent
    /\ chain[Directory - 1].kind \in {"dir", "link"}
    /\ chain' = [chain EXCEPT ![Directory] = RootOwned("dir", "tight")]
    /\ Goto("lstatAgain")
    /\ UNCHANGED <<goal, level, info, used>>

\* Mutant: the new directory is judged by the lstat that did not find it.
LstatAgainNot ==
    /\ phase = "lstatAgain"
    /\ Goto("walk")
    /\ UNCHANGED <<chain, goal, level, info, used>>

LstatAgain ==
    /\ phase = "lstatAgain" /\ chain[Directory] # Absent
    /\ info' = chain[Directory]
    /\ Goto("walk")
    /\ UNCHANGED <<chain, goal, level, used>>

CheckInfo ==
    /\ phase = "info" /\ DedicatedDirectory(info)
    /\ Goto(IF goal = "socket" THEN "chmodDirectory" ELSE "leaf")
    /\ UNCHANGED <<chain, goal, level, info, used>>

\* chown and chmod by name, which follow links.
ChmodDirectory ==
    /\ phase = "chmodDirectory"
    /\ used' = chain[Directory]
    /\ Goto("leaf")
    /\ UNCHANGED <<chain, goal, level, info>>

CheckFile ==
    /\ phase = "leaf" /\ AcceptableFile(chain[Depth])
    /\ Goto(IF goal = "socket" /\ chain[Depth] # Absent THEN "remove" ELSE "use")
    /\ UNCHANGED <<chain, goal, level, info, used>>

\* os.Remove of a stale socket.
Remove ==
    /\ phase = "remove"
    /\ used' = chain[Depth]
    /\ chain' = [chain EXCEPT ![Depth] = Absent]
    /\ Goto("use")
    /\ UNCHANGED <<goal, level, info>>

\* The configuration is read, SQLite opens or creates the database, the listener
\* binds the socket.  A policy is read again for every submission and execution.
Use ==
    /\ phase \in {"use", "ready"}
    /\ goal = "config" => chain[Depth].kind # "absent"
    /\ goal = "socket" => phase = "use" /\ chain[Depth] = Absent
    /\ goal = "database" => phase = "use"
    /\ chain' = IF chain[Depth] = Absent
                THEN [chain EXCEPT ![Depth] =
                        IF goal = "socket" THEN RootOwned("socket", "open")
                        ELSE RootOwned("file", "private")]
                ELSE chain
    /\ used' = chain'[Depth]
    /\ Goto(IF goal = "socket" THEN "chmodSocket" ELSE "ready")
    /\ UNCHANGED <<goal, level, info>>

\* chown and chmod of the socket by name.
ChmodSocket ==
    /\ phase = "chmodSocket"
    /\ used' = chain[Depth]
    /\ Goto("ready")
    /\ UNCHANGED <<chain, goal, level, info>>

\* A check or a call that fails ends the daemon.
Fails ==
    /\ \/ phase \in {"walk", "walkParent"} /\ ~SafeDirectory(chain[level])
       \/ phase = "mkdir" /\ chain[Directory] # Absent
       \/ phase = "lstatAgain" /\ chain[Directory] = Absent
       \/ phase = "info" /\ ~DedicatedDirectory(info)
       \/ phase = "leaf" /\ ~AcceptableFile(chain[Depth])
       \/ phase = "use" /\ goal = "config" /\ chain[Depth] = Absent
       \/ phase = "use" /\ goal = "socket" /\ chain[Depth] # Absent
    /\ Goto("failed") /\ used' = Absent
    /\ UNCHANGED <<chain, goal, level, info>>

\* systemd starts the daemon again after it failed or was stopped.
Restart ==
    /\ phase \in {"failed", "ready"}
    /\ Goto(Begin) /\ level' = Directory /\ info' = Absent
    /\ UNCHANGED <<chain, goal, used>>

Next ==
    \/ \E k \in 1..Depth : \E o \in Fitting(k) : Replace(k, o)
    \/ Walk \/ LstatDirectory \/ Mkdir \/ LstatAgain \/ CheckInfo \/ ChmodDirectory
    \/ CheckFile \/ Remove \/ Use \/ ChmodSocket \/ Fails \/ Restart

Spec == Init /\ [][Next]_vars

-----------------------------------------------------------------------------
(* Properties.                                                              *)

\* Every variable holds a value of its type.
TypeOK ==
    /\ DOMAIN chain = 0..Depth /\ \A k \in 0..Depth : chain[k] \in Fitting(k)
    /\ goal \in Goals
    /\ phase \in {"lstat", "walk", "walkParent", "mkdir", "lstatAgain", "info",
                  "chmodDirectory", "leaf", "remove", "use", "chmodSocket", "ready",
                  "failed"}
    /\ level \in 0..Directory
    /\ info \in Objects /\ used \in Objects

Accepted == phase \in {"info", "chmodDirectory", "leaf", "remove", "use",
                       "chmodSocket", "ready"}

\* The comment of verifyDirectoryChain: once the walk has accepted a path, and for
\* as long as the daemon uses it, no unprivileged process can replace any component,
\* although the walk looks at them one after the other, the deepest first.  It holds
\* unless StrayDirectories: a component that was passed and swapped for a user's can
\* be hidden from the rest of the walk below a sticky directory moved into /tmp.
AcceptedIsPinned == Accepted => \A k \in 1..Directory : ~CanReplace(k)

\* Whatever root opens or changes by name, at startup and later, is a file, socket
\* or directory of root's, and what it removes a socket; never is it a link or an
\* object of a user's, although the directory is judged by what lstat said before the
\* walk.  It holds unless StrayDirectories, as AcceptedIsPinned does.
ActsOnRootsOwn ==
    \/ used = Absent
    \/ used.kind # "link" /\ used.owner = "root"
    \/ used.kind = "socket" /\ phase = "use"

\* The daemon never refuses a path all of whose directories are dedicated to root
\* and whose file is acceptable, whatever users try.
TrustedPathStarts ==
    phase = "failed" =>
        \/ \E k \in 0..Directory : ~DedicatedDirectory(chain[k])
        \/ ~AcceptableFile(chain[Depth])
================================================================================
