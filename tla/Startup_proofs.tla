---------------------------- MODULE Startup_proofs -----------------------------
(***************************************************************************)
(* What the startup checks of a path guarantee, for paths of any length.   *)
(* The argument: the first component that is not safe stays unsafe,        *)
(* whatever users do, so a walk that goes up cannot pass it; what the walk *)
(* saw below it may since have been replaced, but then the walk fails.     *)
(* It stays unsafe because users can move no sticky directory of root's    *)
(* into a sticky one.  That a trusted path starts does not depend on it.   *)
(***************************************************************************)
EXTENDS Startup, TLAPS

SafeUpTo(n) == \A j \in 0..n : SafeDirectory(chain[j])
AllDedicated == \A j \in 0..Directory : DedicatedDirectory(chain[j])

\* The phases a goal can be in.
PhaseOfGoal ==
    /\ goal = "config" => phase \notin {"lstat", "walkParent", "mkdir", "lstatAgain",
                                        "info", "chmodDirectory", "remove", "chmodSocket"}
    /\ goal = "database" => phase \notin {"chmodDirectory", "remove", "chmodSocket"}
    /\ phase = "walkParent" => level < Directory
    /\ phase \in {"mkdir", "lstatAgain"} => level = Directory

\* What the daemon knows of a path that is dedicated to root: nobody has replaced
\* anything.
Trusted ==
    AllDedicated =>
        /\ phase \notin {"walkParent", "mkdir"}
        /\ phase \in {"walk", "info"} /\ goal # "config" => chain[Directory] = info
        /\ phase = "use" => AcceptableFile(chain[Depth])
        /\ phase = "use" /\ goal = "socket" => chain[Depth] = Absent
        /\ phase = "failed" => ~AcceptableFile(chain[Depth])

TrustInv ==
    /\ TypeOK
    /\ PhaseOfGoal
    /\ Trusted

\* If what the walk has not reached yet is safe, so is what it has passed, and the
\* directory is still the one that lstat described.
WalkSound ==
    /\ phase = "walk" /\ SafeUpTo(level) =>
          SafeUpTo(Directory) /\ (goal # "config" => chain[Directory] = info)
    /\ phase = "walkParent" /\ SafeUpTo(level) => SafeUpTo(Directory - 1)
    /\ phase \in {"mkdir", "lstatAgain"} => SafeUpTo(Directory - 1)

\* What the daemon knows of a path once it has accepted its directories.
PathSound ==
    Accepted =>
        /\ SafeUpTo(Directory)
        /\ goal # "config" => chain[Directory] = info
        /\ goal # "config" /\ phase # "info" => DedicatedDirectory(info)

\* What it knows of the file once it has checked it.
FileSound ==
    /\ phase = "remove" => chain[Depth].kind = "socket"
    /\ phase = "use" => AcceptableFile(chain[Depth])
    /\ phase = "use" /\ goal = "socket" => chain[Depth] = Absent
    /\ phase = "chmodSocket" => chain[Depth] = RootOwned("socket", "open")
    /\ phase = "ready" /\ goal = "config" => AcceptableFile(chain[Depth])

Sound ==
    /\ WalkSound
    /\ PathSound
    /\ FileSound
    /\ ActsOnRootsOwn

StartupInv == TrustInv /\ Sound

-----------------------------------------------------------------------------
\* A safe directory lets users replace at most what is not root's in it.
LEMMA SafeHolds ==
    ASSUME NEW k \in 1..Depth, SafeDirectory(chain[k - 1])
    PROVE  /\ ~Controls(k)
           /\ chain[k].owner = "root" => ~CanReplace(k)
           /\ DedicatedDirectory(chain[k - 1]) => ~CanReplace(k)
  BY DEF SafeDirectory, DedicatedDirectory, Writable, Controls, CanReplace

\* A replacement at k changes nothing above k.
LEMMA Above ==
    ASSUME NEW k \in 1..Depth, NEW o, Replace(k, o)
    PROVE  /\ \A j \in 0..Depth : j < k => chain'[j] = chain[j]
           /\ chain'[k] = o
           /\ UNCHANGED <<goal, phase, level, info, used>>
  BY StartupAssumption DEF Replace

\* The heart of the walk: a user who makes a prefix of the path safe finds it safe.
\* A safe directory can only be put into a directory that is itself unsafe.
LEMMA NotMadeSafe ==
    ASSUME ~StrayDirectories,
           NEW k \in 1..Depth, NEW o, Replace(k, o), NEW n \in 0..Directory,
           SafeUpTo(n)'
    PROVE  SafeUpTo(n) /\ n < k
<1>1. \A j \in 0..n : SafeDirectory(chain'[j])
  BY DEF SafeUpTo, SafeDirectory, Writable
<1>2. CASE k <= n
  <2>1. SafeDirectory(o) /\ SafeDirectory(chain[k - 1])
    BY <1>1, <1>2, Above, StartupAssumption DEF Directory
  <2>2. ~Movable(o)
    BY <2>1 DEF Movable, SafeDirectory, Writable
  <2> QED
    BY <2>1, <2>2, SafeHolds DEF Replace
<1>3. CASE n < k
  BY <1>1, <1>3, Above, StartupAssumption DEF SafeUpTo, Directory
<1> QED
  BY <1>2, <1>3, StartupAssumption DEF Directory

\* A prefix that is safe stays what it is.
LEMMA SafeIsFixed ==
    ASSUME NEW k \in 1..Depth, NEW o, Replace(k, o), NEW n \in 0..Directory,
           SafeUpTo(n)
    PROVE  n < k /\ \A j \in 0..n : chain'[j] = chain[j]
<1>1. CASE k <= n
  <2>1. SafeDirectory(chain[k - 1]) /\ chain[k].owner = "root"
    BY <1>1, StartupAssumption DEF SafeUpTo, SafeDirectory, Directory
  <2> QED
    BY <2>1, SafeHolds DEF Replace
<1>2. CASE n < k
  BY <1>2, Above, StartupAssumption DEF Directory
<1> QED
  BY <1>1, <1>2, StartupAssumption DEF Directory

\* In a dedicated directory the file stays what it is, too.
LEMMA FileIsFixed ==
    ASSUME NEW k \in 1..Depth, NEW o, Replace(k, o), SafeUpTo(Directory),
           DedicatedDirectory(chain[Directory]) \/ chain[Depth].owner = "root"
    PROVE  FALSE
<1>1. k = Depth /\ SafeDirectory(chain[k - 1])
  BY SafeIsFixed, StartupAssumption DEF Directory, SafeUpTo
<1> QED
  BY <1>1, SafeHolds DEF Replace, Directory

-----------------------------------------------------------------------------
\* A dedicated directory is safe, and so are objects that root makes.
LEMMA RootsOwn ==
    /\ \A o : DedicatedDirectory(o) => SafeDirectory(o)
    /\ DedicatedDirectory(RootOwned("dir", "tight"))
    /\ RootOwned("dir", "tight") \in Components
    /\ {RootOwned("socket", "open"), RootOwned("file", "private"), Absent} \subseteq Leaves
    /\ Absent \in Objects /\ Leaves \subseteq Objects /\ Components \subseteq Objects
    /\ ~DedicatedDirectory(Absent)
  BY DEF DedicatedDirectory, SafeDirectory, Writable, RootOwned, Components, Leaves,
     Placed, Absent, Objects

-----------------------------------------------------------------------------
(* A path that is dedicated to root.                                        *)

\* Whatever the path is bound to at first, the invariant holds.
LEMMA TrustInit == Init => TrustInv
<1> SUFFICES ASSUME Init PROVE TrustInv
  OBVIOUS
<1>1. TypeOK
  <2>1. PICK dirs \in [0..Directory -> Components], leaf \in Leaves :
            chain = [k \in 0..Depth |-> IF k = Depth THEN leaf ELSE dirs[k]]
    BY DEF Init
  <2>2. \A k \in 0..Depth : k # Depth => k \in 0..Directory
    BY StartupAssumption DEF Directory
  <2>3. DOMAIN chain = 0..Depth /\ \A k \in 0..Depth : chain[k] \in Fitting(k)
    BY <2>1, <2>2 DEF Fitting
  <2>4. info \in Objects /\ used \in Objects
    BY RootsOwn DEF Init
  <2>5. level = Directory /\ Directory \in 0..Directory
    <3>1. Directory \in Nat
      BY StartupAssumption DEF Directory
    <3>2. level = Directory
      BY Zenon DEF Init
    <3> QED
      BY <3>1, <3>2
  <2>6. goal \in Goals /\ phase \in {"walk", "lstat"}
    BY DEF Init, Begin
  <2> QED
    BY <2>3, <2>4, <2>5, <2>6 DEF TypeOK
<1> QED
  BY <1>1, StartupAssumption
  DEF Init, Begin, TrustInv, PhaseOfGoal, Trusted, Goals

\* Nobody has just replaced a component of a path that is dedicated to root.
LEMMA DedicatedHolds ==
    ASSUME NEW k \in 1..Depth, NEW o, Replace(k, o), AllDedicated'
    PROVE  FALSE
<1>1. DedicatedDirectory(chain'[k - 1])
  BY StartupAssumption DEF AllDedicated, DedicatedDirectory, Writable, Directory
<1>2. DedicatedDirectory(chain[k - 1])
  BY <1>1, Above, StartupAssumption
<1> QED
  BY <1>2, RootsOwn, SafeHolds DEF Replace

\* Types, and the phases of each goal.
LEMMA TypesStep ==
    ASSUME TypeOK, PhaseOfGoal, Next
    PROVE  TypeOK' /\ PhaseOfGoal'
<1> USE StartupAssumption DEF Goto
<1>1. chain[Directory] \in Objects /\ chain[Depth] \in Objects /\ chain[Depth] \in Leaves
  BY RootsOwn DEF TypeOK, Fitting, Directory
<1>2. ASSUME NEW k \in 1..Depth, NEW o \in Fitting(k), Replace(k, o)
      PROVE  TypeOK' /\ PhaseOfGoal'
  <2>1. Absent \in Components /\ Absent \in Leaves
    BY DEF Components, Leaves, Placed, Absent
  <2>2. UNCHANGED <<goal, phase, level, info, used>>
    BY <1>2, Above
  <2>3. TypeOK'
    BY <1>2, <2>1, <2>2 DEF TypeOK, Replace, Fitting
  <2> QED
    BY <2>2, <2>3 DEF PhaseOfGoal
<1>3. CASE Walk
  BY <1>3 DEF Walk, Walked, TypeOK, PhaseOfGoal, Directory
<1>4. CASE LstatDirectory
  BY <1>1, <1>4 DEF LstatDirectory, TypeOK, PhaseOfGoal, Directory
<1>5. CASE LstatAgain
  BY <1>1, <1>5 DEF LstatAgain, TypeOK, PhaseOfGoal, Directory
<1>6. CASE CheckInfo
  BY <1>6 DEF CheckInfo, TypeOK, PhaseOfGoal, Goals
<1>7. CASE CheckFile
  BY <1>7 DEF CheckFile, TypeOK, PhaseOfGoal, Goals
<1>8. CASE Restart
  BY <1>8, RootsOwn DEF Restart, Begin, TypeOK, PhaseOfGoal, Directory, Goals
<1>9. CASE Mkdir
  BY <1>9, RootsOwn DEF Mkdir, TypeOK, PhaseOfGoal, Fitting, Directory
<1>10. CASE ChmodDirectory
  BY <1>1, <1>10 DEF ChmodDirectory, TypeOK, PhaseOfGoal
<1>11. CASE ChmodSocket
  BY <1>1, <1>11 DEF ChmodSocket, TypeOK, PhaseOfGoal
<1>12. CASE Remove \/ Use
  <2>1. /\ chain'[Depth] \in Leaves /\ DOMAIN chain' = 0..Depth
        /\ \A k \in 0..Depth : k # Depth => chain'[k] = chain[k]
        /\ UNCHANGED <<goal, level, info>>
    BY <1>12, RootsOwn DEF Remove, Use, TypeOK, Fitting, Directory
  <2>2. used' \in Objects
    BY <1>1, <1>12, <2>1, RootsOwn DEF Remove, Use
  <2> QED
    BY <1>12, <2>1, <2>2 DEF Remove, Use, TypeOK, PhaseOfGoal, Fitting, Directory, Goals
<1>13. CASE Fails
  BY <1>13, RootsOwn DEF Fails, TypeOK, PhaseOfGoal
<1> QED
  BY <1>2, <1>3, <1>4, <1>5, <1>6, <1>7, <1>8, <1>9, <1>10, <1>11, <1>12, <1>13 DEF Next

\* The daemon's steps on a path that is dedicated to root: no check fails.
LEMMA TrustedStep ==
    ASSUME TrustInv, Next
    PROVE  Trusted'
<1> USE StartupAssumption DEF Goto
<1> SUFFICES ASSUME AllDedicated' PROVE Trusted'
  BY DEF Trusted
<1>1. ASSUME NEW k \in 1..Depth, NEW o, Replace(k, o)
      PROVE  FALSE
  BY <1>1, DedicatedHolds
<1>2. CASE UNCHANGED chain
  <2>1. AllDedicated
    BY <1>2 DEF AllDedicated
  <2>2. /\ DedicatedDirectory(chain[Directory]) /\ SafeDirectory(chain[level])
        /\ Absent # chain[Directory]
    BY <2>1, RootsOwn DEF AllDedicated, Directory, TrustInv, TypeOK
  <2>3. CASE Walk \/ LstatDirectory \/ LstatAgain
    BY <1>2, <2>1, <2>2, <2>3
    DEF Walk, Walked, LstatDirectory, LstatAgain, Trusted, TrustInv, PhaseOfGoal
  <2>4. CASE CheckInfo \/ ChmodDirectory \/ ChmodSocket \/ Restart
    BY <2>4 DEF CheckInfo, ChmodDirectory, ChmodSocket, Restart, Begin, Trusted
  <2>5. CASE CheckFile
    BY <1>2, <2>5 DEF CheckFile, Trusted, AcceptableFile
  <2>6. CASE Fails
    <3>1. ~AcceptableFile(chain[Depth])
      BY <2>1, <2>2, <2>6
      DEF Fails, Trusted, TrustInv, PhaseOfGoal, AcceptableFile, Absent
    <3> QED
      BY <1>2, <2>6, <3>1 DEF Fails, Trusted, AcceptableFile
  <2>7. CASE Use
    BY <2>7 DEF Use, Trusted
  <2>8. CASE Remove \/ Mkdir
    BY <1>2, <2>1, <2>8 DEF Remove, Mkdir, Trusted, TrustInv, PhaseOfGoal, AcceptableFile,
       TypeOK, Goals, Absent
  <2> QED
    BY <1>1, <2>3, <2>4, <2>5, <2>6, <2>7, <2>8 DEF Next
<1>3. CASE Mkdir \/ Use
  BY <1>3 DEF Mkdir, Use, Trusted
<1>4. CASE Remove
  <2>1. goal = "socket" /\ phase' = "use" /\ goal' = goal /\ chain'[Depth] = Absent
    BY <1>4 DEF Remove, TrustInv, TypeOK, PhaseOfGoal, Goals
  <2> QED
    BY <2>1 DEF Trusted, AcceptableFile, Absent
<1> QED
  BY <1>1, <1>2, <1>3, <1>4
  DEF Next, Walk, LstatDirectory, LstatAgain, CheckInfo, ChmodDirectory, CheckFile,
      ChmodSocket, Fails, Restart

\* Every step keeps what is known of a path that is dedicated to root.
LEMMA TrustStep == TrustInv /\ [Next]_vars => TrustInv'
<1> SUFFICES ASSUME TrustInv, [Next]_vars PROVE TrustInv'
  OBVIOUS
<1>1. CASE UNCHANGED vars
  BY <1>1 DEF vars, TrustInv, TypeOK, PhaseOfGoal, Trusted, AllDedicated, AcceptableFile
<1>2. CASE Next
  BY <1>2, TypesStep, TrustedStep DEF TrustInv
<1> QED
  BY <1>1, <1>2

\* Users cannot keep the daemon from starting on a path that is dedicated to root,
\* whatever directories they can move.
THEOREM TrustedPathsStart == Spec => []TrustedPathStarts
<1>1. TrustInv => TrustedPathStarts
  BY DEF TrustInv, Trusted, TrustedPathStarts, AllDedicated
<1> QED
  BY <1>1, TrustInit, TrustStep, PTL DEF Spec

-----------------------------------------------------------------------------
(* Any path.                                                                *)

\* Before the first step nothing is accepted and nothing has been used.
LEMMA StartupInit == Init => StartupInv
  BY TrustInit, StartupAssumption
  DEF Init, StartupInv, Sound, WalkSound, PathSound, FileSound, ActsOnRootsOwn, Begin,
      Accepted, Goals, SafeUpTo

\* No user can disturb what the daemon knows.
LEMMA ReplaceStep ==
    ASSUME ~StrayDirectories, StartupInv, NEW k \in 1..Depth, NEW o, Replace(k, o)
    PROVE  Sound'
<1> USE StartupAssumption DEF StartupInv, Sound, TrustInv
<1>1. UNCHANGED <<goal, phase, level, info, used>>
  BY Above
<1>2. WalkSound'
  <2>1. \A n \in 0..Directory : SafeUpTo(n)' => SafeUpTo(n)
    BY NotMadeSafe
  <2>2. \A n \in 0..Directory : SafeUpTo(n) => SafeUpTo(n)' /\ n < k
    BY SafeIsFixed DEF SafeUpTo
  <2>3. SafeUpTo(Directory) => chain'[Directory] = chain[Directory]
    BY SafeIsFixed DEF Directory
  <2>4. level \in 0..Directory /\ Directory \in 0..Directory /\ Directory - 1 \in 0..Directory
    BY DEF TypeOK, Directory
  <2>5. level' = level
    BY <1>1
  <2>6. SafeUpTo(level)' => SafeUpTo(level)
    BY <2>1, <2>4, <2>5 DEF SafeUpTo
  <2> QED
    BY <1>1, <2>2, <2>3, <2>4, <2>6 DEF WalkSound
<1>3. ASSUME Accepted
      PROVE  /\ SafeUpTo(Directory) /\ SafeUpTo(Directory)'
             /\ chain'[Directory] = chain[Directory]
  BY <1>3, SafeIsFixed DEF PathSound, SafeUpTo, Directory
<1>4. PathSound'
  BY <1>1, <1>3 DEF PathSound, Accepted
<1>5. ASSUME phase \in {"remove", "use", "chmodSocket"} \/ (phase = "ready" /\ goal = "config")
      PROVE  FALSE
  <2>1. goal # "config" => DedicatedDirectory(chain[Directory])
    BY <1>5 DEF PathSound, Accepted
  <2>2. goal = "config" => chain[Depth].owner = "root"
    BY <1>5 DEF PhaseOfGoal, FileSound, AcceptableFile
  <2> QED
    BY <1>3, <1>5, <2>1, <2>2, FileIsFixed DEF Accepted
<1>6. FileSound' /\ ActsOnRootsOwn'
  BY <1>1, <1>5 DEF FileSound, ActsOnRootsOwn
<1> QED
  BY <1>2, <1>4, <1>6

\* The walk, one component at a time.
LEMMA WalkStep ==
    ASSUME StartupInv, Walk
    PROVE  Sound'
<1> USE StartupAssumption DEF StartupInv, Sound, TrustInv
<1>1. /\ UNCHANGED <<chain, goal, info, used>> /\ level \in 0..Directory
      /\ phase \in {"walk", "walkParent"} /\ SafeDirectory(chain[level])
  BY DEF Walk, TypeOK
<1>2. CASE level = 0
  <2>1. phase' = Walked /\ level' = Directory /\ SafeUpTo(level)
    BY <1>1, <1>2 DEF Walk, Goto, SafeUpTo
  <2>2. WalkSound' /\ PathSound'
    BY <1>1, <2>1 DEF WalkSound, PathSound, Walked, Accepted, SafeUpTo
  <2> QED
    BY <1>1, <2>1, <2>2 DEF Walked, FileSound, ActsOnRootsOwn
<1>3. CASE level # 0
  <2>1. phase' = phase /\ level' = level - 1
    BY <1>1, <1>3 DEF Walk
  <2>2. SafeUpTo(level - 1) => SafeUpTo(level)
    BY <1>1, <1>3 DEF SafeUpTo, Directory
  <2>3. SafeUpTo(level)' => SafeUpTo(level)
    BY <1>1, <2>1, <2>2 DEF SafeUpTo
  <2>4. WalkSound' /\ PathSound'
    BY <1>1, <2>1, <2>3 DEF WalkSound, PathSound, Accepted, SafeUpTo
  <2> QED
    BY <1>1, <2>1, <2>4 DEF FileSound, ActsOnRootsOwn
<1> QED
  BY <1>2, <1>3

\* The checks that read and change nothing.
LEMMA CheckStep ==
    ASSUME StartupInv,
           LstatDirectory \/ LstatAgain \/ CheckInfo \/ CheckFile \/ Fails \/ Restart
    PROVE  Sound'
<1> USE StartupAssumption DEF StartupInv, Sound, TrustInv, Goto
<1>1. UNCHANGED <<chain, goal>>
  BY DEF LstatDirectory, LstatAgain, CheckInfo, CheckFile, Fails, Restart
<1>2. CASE LstatDirectory
  BY <1>1, <1>2
  DEF LstatDirectory, WalkSound, SafeUpTo, PathSound, FileSound, Accepted, ActsOnRootsOwn
<1>3. CASE LstatAgain
  <2>1. WalkSound'
    BY <1>1, <1>3 DEF LstatAgain, WalkSound, SafeUpTo, PhaseOfGoal
  <2> QED
    BY <1>1, <1>3, <2>1 DEF LstatAgain, PathSound, FileSound, Accepted, ActsOnRootsOwn
<1>4. CASE CheckInfo
  <2>1. WalkSound' /\ PathSound'
    BY <1>1, <1>4 DEF CheckInfo, WalkSound, PathSound, Accepted, SafeUpTo
  <2> QED
    BY <1>1, <1>4, <2>1 DEF CheckInfo, FileSound, ActsOnRootsOwn
<1>5. CASE CheckFile
  <2>1. WalkSound' /\ PathSound'
    BY <1>1, <1>5 DEF CheckFile, WalkSound, PathSound, Accepted, SafeUpTo
  <2>2. goal = "socket" /\ chain[Depth] # Absent => chain[Depth].kind = "socket"
    BY <1>5 DEF CheckFile, AcceptableFile, TypeOK, Fitting, Leaves, Placed, Absent
  <2>3. FileSound'
    BY <1>1, <1>5, <2>2 DEF CheckFile, FileSound, AcceptableFile
  <2> QED
    BY <1>1, <1>5, <2>1, <2>3 DEF CheckFile, ActsOnRootsOwn
<1>6. CASE Fails \/ Restart
  BY <1>1, <1>6
  DEF Fails, Restart, Begin, WalkSound, SafeUpTo, PathSound, FileSound, Accepted,
      ActsOnRootsOwn
<1> QED
  BY <1>2, <1>3, <1>4, <1>5, <1>6

\* The operations by name: they act on what the checks have seen.
LEMMA UseStep ==
    ASSUME StartupInv, Mkdir \/ ChmodDirectory \/ Remove \/ Use \/ ChmodSocket
    PROVE  Sound'
<1> USE StartupAssumption DEF StartupInv, Sound, TrustInv, Goto
<1>1. CASE Mkdir
  <2>1. /\ chain' = [chain EXCEPT ![Directory] = RootOwned("dir", "tight")]
        /\ phase = "mkdir" /\ phase' = "lstatAgain"
        /\ UNCHANGED <<goal, level, info, used>>
    BY <1>1 DEF Mkdir
  <2>2. SafeUpTo(Directory - 1)'
    BY <2>1 DEF WalkSound, SafeUpTo, TypeOK, Directory
  <2> QED
    BY <2>1, <2>2 DEF WalkSound, PathSound, FileSound, Accepted, ActsOnRootsOwn
<1>2. CASE ChmodDirectory
  <2>1. chain[Directory].kind # "link" /\ chain[Directory].owner = "root"
    BY <1>2
    DEF ChmodDirectory, PathSound, Accepted, SafeUpTo, SafeDirectory, Directory
  <2> QED
    BY <1>2, <2>1
    DEF ChmodDirectory, WalkSound, PathSound, Accepted, SafeUpTo, FileSound, ActsOnRootsOwn
<1>3. CASE Remove \/ Use
  <2> DEFINE leaf == chain'[Depth]
  <2>1. /\ \A j \in 0..Directory : chain'[j] = chain[j]
        /\ UNCHANGED <<goal, level, info>>
    BY <1>3 DEF Remove, Use, TypeOK, Directory
  <2>2. WalkSound' /\ PathSound'
    <3>1. Accepted /\ phase \in {"remove", "use", "ready"} /\ phase' \in {"use", "chmodSocket", "ready"}
      BY <1>3 DEF Remove, Use, Accepted
    <3> QED
      BY <2>1, <3>1 DEF WalkSound, PathSound, Accepted, SafeUpTo, Directory
  <2>3. CASE Remove
    BY <2>1, <2>2, <2>3
    DEF Remove, PhaseOfGoal, FileSound, ActsOnRootsOwn, AcceptableFile, Absent, Goals, TypeOK
  <2>4. CASE Use
    <3>1. FileSound' /\ leaf.owner = "root" /\ leaf.kind # "link"
      BY <2>1, <2>4
      DEF Use, FileSound, AcceptableFile, Absent, RootOwned, Goals, TypeOK, Writable
    <3> QED
      BY <2>1, <2>2, <2>4, <3>1 DEF Use, ActsOnRootsOwn
  <2> QED
    BY <1>3, <2>3, <2>4
<1>4. CASE ChmodSocket
  <2>1. chain[Depth] = RootOwned("socket", "open") /\ goal = "socket"
    BY <1>4 DEF ChmodSocket, FileSound, PhaseOfGoal, TypeOK, Goals
  <2> QED
    BY <1>4, <2>1
    DEF ChmodSocket, RootOwned, WalkSound, PathSound, Accepted, SafeUpTo, FileSound,
        ActsOnRootsOwn
<1> QED
  BY <1>1, <1>2, <1>3, <1>4

\* Every step preserves the invariant.
LEMMA StartupStep ==
    ASSUME ~StrayDirectories
    PROVE  StartupInv /\ [Next]_vars => StartupInv'
<1> SUFFICES ASSUME StartupInv, [Next]_vars PROVE Sound'
  BY TrustStep DEF StartupInv
<1>1. CASE UNCHANGED vars
  BY <1>1 DEF vars, StartupInv, Sound, WalkSound, PathSound, FileSound, ActsOnRootsOwn,
     Accepted, SafeUpTo, AcceptableFile
<1> QED
  BY <1>1, ReplaceStep, WalkStep, CheckStep, UseStep DEF Next

\* For every length of the path the invariant holds, unless users can move a sticky
\* directory of root's.
THEOREM StartupCorrect ==
    ASSUME ~StrayDirectories
    PROVE  Spec => []StartupInv
  BY StartupInit, StartupStep, PTL DEF Spec

\* No unprivileged process can replace a component of a path that
\* verifyDirectoryChain has accepted, however long the path is, unless users can move
\* a sticky directory of root's.
THEOREM AcceptedPathsPinned ==
    ASSUME ~StrayDirectories
    PROVE  Spec => []AcceptedIsPinned
<1>1. StartupInv => AcceptedIsPinned
  <2> SUFFICES ASSUME StartupInv, Accepted, NEW k \in 1..Directory PROVE ~CanReplace(k)
    BY DEF AcceptedIsPinned
  <2>1. SafeDirectory(chain[k - 1]) /\ SafeDirectory(chain[k]) /\ k \in 1..Depth
    BY StartupAssumption DEF StartupInv, Sound, PathSound, SafeUpTo, Directory
  <2> QED
    BY <2>1, SafeHolds DEF SafeDirectory
<1> QED
  BY <1>1, StartupCorrect, PTL

\* Root acts by name on nothing but its own files, sockets and directories, unless
\* users can move a sticky directory of root's.
THEOREM RootActsOnItsOwn ==
    ASSUME ~StrayDirectories
    PROVE  Spec => []ActsOnRootsOwn
<1>1. StartupInv => ActsOnRootsOwn
  BY DEF StartupInv, Sound
<1> QED
  BY <1>1, StartupCorrect, PTL
===============================================================================
