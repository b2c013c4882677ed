----------------------------- MODULE Launch_proofs -----------------------------
(***************************************************************************)
(* What an approved request launches, for every file system and any number *)
(* of changes to it.  The argument: a stamp is never used twice, so an     *)
(* object whose metadata match the record at verification has not changed  *)
(* since fstat during inspection; what inspection then read from it, one   *)
(* call after the other, belongs together.                                 *)
(***************************************************************************)
EXTENDS Launch, Sums_proofs

Kept == phase \in {"stored", "verify", "helper", "done"}
ExeInspected == Kept \/ (phase = "inspect" /\ target \in {"int", "dir"})
IntInspected == Kept \/ (phase = "inspect" /\ target = "dir")

\* Where the daemon can be.
ControlSound ==
    /\ phase = "inspect" =>
          \/ target \in {"exe", "int"} /\ step \in {"resolve", "open", "fstat", "hash",
                                                   "shebang"}
          \/ target = "exe" /\ step = "lookup"
          \/ target = "dir" /\ step \in {"resolve", "stat"}
    /\ phase = "stored" => step = "approval" /\ fd = NoFd
    /\ phase = "verify" =>
          \/ target = "dir" /\ step \in {"open", "compare"}
          \/ target \in {"exe", "int"} /\ step \in {"open", "fstat", "verify"}
    /\ phase = "helper" => step = "exec"
    /\ phase \in {"done", "refused", "rejected"} => step = "none"

\* A file that still has the stamp of m has the bytes m was hashed from.
Fresh(m) == stamp[m.inode] = m.stamp
Dated(m) == m.inode \in Files /\ m.stamp <= stamp[m.inode]
Sound(m) == Dated(m) /\ m.hash \in Contents /\ (Fresh(m) => content[m.inode] = m.hash)

\* The interpreter was looked at after the executable.
Later(m) == m.inode = record["exe"].inode => record["exe"].stamp <= m.stamp

StampsSound == \A i \in Inodes : stamp[i] <= edits

\* The metadata that is being read.
SeenSound ==
    phase = "inspect" /\ step \in {"hash", "shebang"} =>
        /\ seen.inode = fd[target] /\ Dated(seen)
        /\ target = "int" => Later(seen)
        /\ step = "shebang" => Sound(seen)

\* The metadata that was stored.
RecordSound ==
    /\ phase = "inspect" /\ target # "dir" => record["int"] = NoMeta
    /\ phase = "inspect" /\ target = "int" => wanted # "none"
    /\ ExeInspected =>
          /\ Sound(record["exe"])
          /\ Fresh(record["exe"]) => wanted = Shebang[record["exe"].hash]
    /\ IntInspected =>
          /\ record["int"] = NoMeta <=> wanted = "none"
          /\ record["int"] # NoMeta =>
                /\ Sound(record["int"]) /\ Later(record["int"])
                /\ Fresh(record["int"]) => Shebang[record["int"].hash] = "none"

\* What verification has established of the executable: the interpreter belongs to
\* it and is another file.
ExeBelongs ==
    /\ wanted = Shebang[record["exe"].hash]
    /\ record["exe"].inode # record["int"].inode
IntBelongs == Shebang[record["int"].hash] = "none"

Matches(m) == m.inode = record[target].inode /\ m.stamp = record[target].stamp

Pinned(t) ==
    /\ fd[t] = record[t].inode
    /\ fd[t] \notin written => content[fd[t]] = record[t].hash

\* The descriptors that were verified.
VerifySound ==
    /\ phase = "verify" =>
          /\ target = "dir" => fd["int"] = None
          /\ target # "dir" => fd["dir"] = record["dir"].inode
          /\ target = "exe" => fd["int"] = None
          /\ target = "int" =>
                record["int"] # NoMeta /\ ExeBelongs /\ Pinned("exe")
          /\ step = "verify" =>
                /\ seen.inode = fd[target]
                /\ Matches(seen) =>
                      IF target = "exe" THEN ExeBelongs ELSE IntBelongs
    /\ phase \in {"helper", "done"} =>
          /\ fd["dir"] = record["dir"].inode
          /\ ExeBelongs /\ Pinned("exe")
          /\ IF record["int"] = NoMeta THEN fd["int"] = None
             ELSE IntBelongs /\ Pinned("int")

\* What ran.
RanSound ==
    phase = "done" =>
        /\ ran.exe = fd["exe"] /\ ran.int = fd["int"] /\ ran.dir = fd["dir"]
        /\ fd["exe"] \notin written => ran.exeCode = record["exe"].hash
        /\ fd["int"] \notin written => ran.intCode = record["int"].hash

LaunchInv ==
    /\ TypeOK
    /\ ControlSound
    /\ StampsSound
    /\ SeenSound
    /\ RecordSound
    /\ VerifySound
    /\ RanSound

-----------------------------------------------------------------------------
(* While the file system has not changed.                                   *)

\* A recorded object is still bound to its name, and can be executed.
Bound(t) ==
    /\ names[record[t].path] = record[t].inode /\ record[t].stamp = 0
    /\ t # "dir" => IsExecutable(record[t].inode)
    /\ t = "dir" => record[t].inode \in Dirs

Unchanged ==
    edits = 0 =>
        /\ phase = "inspect" =>
              /\ step \in {"open", "stat"} => path \in Names /\ names[path] \in Inodes
              /\ step \in {"fstat", "hash", "shebang"} => names[path] = fd[target]
              /\ step \in {"hash", "shebang"} =>
                    seen.path = path /\ IsExecutable(fd[target])
        /\ ExeInspected => Bound("exe")
        /\ IntInspected /\ record["int"] # NoMeta => Bound("int")
        /\ Kept => Bound("dir")
        /\ phase = "verify" =>
              /\ path = record[target].path
              /\ step # "open" => fd[target] = record[target].inode
              /\ step = "verify" => seen.path = path /\ seen.stamp = 0

-----------------------------------------------------------------------------
(* Names.                                                                   *)

\* The end of the links is a name that is bound to an inode.
LEMMA SymlinksEnd ==
    ASSUME NEW n, EvalSymlinks(n) # None
    PROVE  EvalSymlinks(n) \in Names /\ names[EvalSymlinks(n)] \in Inodes
<1> DEFINE ends == {m \in {m \in Names : \A S \in SUBSET Names :
                                n \in S /\ FollowsLinks(S) => m \in S} :
                      names[m] \in Inodes}
<1>1. EvalSymlinks(n) = IF ends = {} THEN None ELSE CHOOSE m \in ends : TRUE
  BY Zenon DEF EvalSymlinks
<1>2. \A m \in ends : m \in Names /\ names[m] \in Inodes
  OBVIOUS
<1> HIDE DEF ends
<1>3. ends # {} => (CHOOSE m \in ends : TRUE) \in ends
  BY Zenon
<1> QED
  BY <1>1, <1>2, <1>3

\* A name that is not a link is its own end.
LEMMA BoundIsEnd ==
    ASSUME NEW n \in Names, names[n] \in Inodes
    PROVE  EvalSymlinks(n) = n /\ StatInode(n) = names[n]
<1> DEFINE reached == {m \in Names : \A S \in SUBSET Names :
                                n \in S /\ FollowsLinks(S) => m \in S}
           ends == {m \in reached : names[m] \in Inodes}
<1>1. EvalSymlinks(n) = IF ends = {} THEN None ELSE CHOOSE m \in ends : TRUE
  BY Zenon DEF EvalSymlinks
<1>2. FollowsLinks({n})
  BY LaunchAssumption DEF FollowsLinks
<1>3. reached \subseteq {n}
  BY <1>2
<1>4. n \in reached
  OBVIOUS
<1>5. ends = {n}
  BY <1>3, <1>4
<1> HIDE DEF reached, ends
<1>6. EvalSymlinks(n) = n
  BY <1>1, <1>5
<1> QED
  BY <1>6, LaunchAssumption DEF StatInode

\* A word is found at a name, or not at all.
LEMMA CandidateIsName == Candidate \in Names \cup {None}
<1> DEFINE found == {k \in 1..Len(SafePath) : IsExecutable(StatInode(SafePath[k]))}
           first == CHOOSE k \in found : \A j \in found : k <= j
<1>1. Candidate = IF Value # None THEN Value
                  ELSE IF found = {} THEN None ELSE SafePath[first]
  BY DEF Candidate
<1>2. found \in SUBSET Nat /\ found \subseteq 1..Len(SafePath)
  OBVIOUS
<1> HIDE DEF found
<1>3. ASSUME found # {} PROVE first \in found
  <2>1. \E k \in found : \A j \in found : k <= j
    BY <1>2, <1>3, LeastNatural
  <2> QED
    BY <2>1, Zenon
<1>4. found # {} => SafePath[first] \in Names
  <2>1. SafePath \in Seq(Names)
    BY LaunchAssumption
  <2>2. \A k \in 1..Len(SafePath) : SafePath[k] \in Names
    BY <2>1
  <2> HIDE DEF first
  <2> QED
    BY <1>2, <1>3, <2>2
<1> QED
  BY <1>1, <1>4, LaunchAssumption

-----------------------------------------------------------------------------
(* The file system.                                                         *)

\* The values NoMeta and the others start from have their types.
LEMMA Empties ==
    /\ NoMeta \in Metas /\ NoMeta.inode = None /\ NoMeta.hash = None
    /\ NoFd \in [Targets -> Inodes \cup {None}] /\ \A t \in Targets : NoFd[t] = None
    /\ NothingRan \in [exe: Inodes \cup {None}, int: Inodes \cup {None},
                       dir: Inodes \cup {None}, exeCode: Contents \cup {None},
                       intCode: Contents \cup {None}]
  BY LaunchAssumption DEF NoMeta, Metas, NoFd, NothingRan

\* A submission starts with nothing read.
LEMMA LaunchInit == Init => LaunchInv
<1> SUFFICES ASSUME Init PROVE LaunchInv
  OBVIOUS
<1>1. TypeOK
  <2>1. names \in [Names -> Inodes \cup Names \cup {None}]
    BY LaunchAssumption DEF Init
  <2>2. 0 \in 0..MaxEdits /\ 0 \in 0..MaxRestarts
    BY LaunchAssumption
  <2> QED
    BY <2>1, <2>2, Empties DEF Init, TypeOK, Targets
<1>2. StampsSound
  BY DEF Init, StampsSound
<1> QED
  BY <1>1, <1>2
  DEF Init, LaunchInv, ControlSound, SeenSound, RecordSound, VerifySound, RanSound,
      Kept, ExeInspected, IntInspected, Targets

\* What a change of the file system does: the stamp of a file whose bytes change is
\* one it never had.
LEMMA FileSystemChanges ==
    ASSUME TypeOK, StampsSound, FileSystem
    PROVE  /\ TypeOK' /\ StampsSound' /\ UNCHANGED daemonVars /\ edits' > 0
           /\ \A i \in Inodes : stamp[i] <= stamp'[i]
           /\ \A f \in Files : stamp'[f] = stamp[f] => content'[f] = content[f]
           /\ \A f \in Files \ written' : f \notin written /\ content'[f] = content[f]
<1> DEFINE Goal == /\ TypeOK' /\ StampsSound' /\ UNCHANGED daemonVars /\ edits' > 0
                   /\ \A i \in Inodes : stamp[i] <= stamp'[i]
                   /\ \A f \in Files : stamp'[f] = stamp[f] => content'[f] = content[f]
                   /\ \A f \in Files \ written' :
                         f \notin written /\ content'[f] = content[f]
<1> SUFFICES Goal
  OBVIOUS
<1>1. MaxEdits \in Nat /\ None \notin Inodes
  BY LaunchAssumption
<1>2. \A i \in Inodes : stamp[i] \in Nat /\ stamp[i] <= edits /\ stamp[i] < edits + 1
  BY <1>1 DEF TypeOK, StampsSound
<1>3. ASSUME NEW n \in Names, NEW to \in Inodes \cup Names \cup {None}, Rebind(n, to)
      PROVE  Goal
  BY <1>1, <1>2, <1>3 DEF Rebind, Edit, TypeOK, StampsSound, daemonVars
<1>4. ASSUME NEW i \in Inodes, Edit(i)
      PROVE  /\ stamp' \in [Inodes -> 0..MaxEdits] /\ edits' \in 0..MaxEdits /\ edits' > 0
             /\ StampsSound' /\ \A j \in Inodes : stamp[j] <= stamp'[j]
             /\ stamp'[i] # stamp[i] /\ UNCHANGED <<daemonVars, restarts>>
  BY <1>1, <1>2, <1>4 DEF Edit, TypeOK, StampsSound
<1>5. ASSUME NEW f \in Files, NEW c \in Contents, WriteFile(f, c)
      PROVE  Goal
  <2>1. /\ stamp' \in [Inodes -> 0..MaxEdits] /\ edits' \in 0..MaxEdits /\ edits' > 0
        /\ StampsSound' /\ \A j \in Inodes : stamp[j] <= stamp'[j]
        /\ stamp'[f] # stamp[f] /\ UNCHANGED <<daemonVars, restarts>>
    BY <1>4, <1>5 DEF WriteFile, Inodes
  <2>2. \A g \in Files \ {f} : content'[g] = content[g]
    BY <1>5 DEF WriteFile, TypeOK
  <2>3. TypeOK'
    BY <1>5, <2>1 DEF WriteFile, TypeOK, daemonVars
  <2> QED
    BY <1>5, <2>1, <2>2, <2>3 DEF WriteFile
<1>6. ASSUME NEW i \in Inodes, Chmod(i)
      PROVE  Goal
  <2>1. /\ stamp' \in [Inodes -> 0..MaxEdits] /\ edits' \in 0..MaxEdits /\ edits' > 0
        /\ StampsSound' /\ \A j \in Inodes : stamp[j] <= stamp'[j]
        /\ UNCHANGED <<daemonVars, restarts>>
    BY <1>4, <1>6 DEF Chmod
  <2>2. TypeOK'
    BY <1>6, <2>1 DEF Chmod, TypeOK, daemonVars
  <2> QED
    BY <1>6, <2>1, <2>2 DEF Chmod
<1> QED
  BY <1>3, <1>5, <1>6 DEF FileSystem

\* Metadata that were read stay sound, and what is fresh afterwards was fresh before.
LEMMA SoundStays ==
    ASSUME TypeOK, StampsSound, FileSystem, NEW m \in Metas, Dated(m)
    PROVE  /\ m.stamp <= stamp'[m.inode]
           /\ stamp'[m.inode] = m.stamp => Fresh(m) /\ content'[m.inode] = content[m.inode]
<1>1. /\ m.inode \in Files /\ m.inode \in Inodes /\ m.stamp <= stamp[m.inode]
      /\ stamp[m.inode] <= stamp'[m.inode]
      /\ stamp'[m.inode] = stamp[m.inode] => content'[m.inode] = content[m.inode]
  BY FileSystemChanges DEF Dated, Inodes
<1>2. m.stamp \in Nat /\ stamp[m.inode] \in Nat /\ stamp'[m.inode] \in Nat
  BY <1>1, FileSystemChanges, LaunchAssumption DEF TypeOK, Metas
<1> QED
  BY <1>1, <1>2 DEF Fresh

\* No change of the file system disturbs what the daemon knows.
LEMMA FileSystemStep ==
    ASSUME LaunchInv, FileSystem
    PROVE  LaunchInv'
<1> USE DEF LaunchInv
<1>1. TypeOK' /\ StampsSound'
  BY FileSystemChanges
<1>2. UNCHANGED <<phase, target, step, path, fd, seen, wanted, record, ran>>
  BY FileSystemChanges DEF daemonVars
<1>3. seen \in Metas /\ record["exe"] \in Metas /\ record["int"] \in Metas
  BY DEF TypeOK, Targets
<1>4. \A f \in Files \ written' : f \notin written /\ content'[f] = content[f]
  BY FileSystemChanges
<1>5. ControlSound'
  BY <1>2 DEF ControlSound
<1>6. SeenSound'
  BY <1>2, <1>3, SoundStays DEF SeenSound, Sound, Dated, Fresh, Later
<1>7. RecordSound'
  BY <1>2, <1>3, SoundStays
  DEF RecordSound, Sound, Dated, Fresh, Later, Kept, ExeInspected, IntInspected
<1>8. ASSUME NEW t \in {"exe", "int"}, Pinned(t), record[t].inode \in Files
      PROVE  Pinned(t)'
  BY <1>2, <1>4, <1>8 DEF Pinned
<1>9. VerifySound'
  BY <1>2, <1>8
  DEF VerifySound, ExeBelongs, IntBelongs, Matches, RecordSound, Sound, Dated,
      Kept, ExeInspected, IntInspected
<1>10. RanSound'
  <2>1. phase = "done" => fd["exe"] \in Files
    BY DEF VerifySound, Pinned, RecordSound, ExeInspected, Kept, Sound, Dated
  <2>2. phase = "done" => fd["int"] \in Files \cup {None}
    BY DEF VerifySound, Pinned, RecordSound, IntInspected, Kept, Sound, Dated
  <2>3. None \notin written
    BY LaunchAssumption DEF TypeOK, Inodes
  <2> QED
    BY <1>2, <1>4, <2>1, <2>2, <2>3 DEF RanSound
<1> QED
  BY <1>1, <1>5, <1>6, <1>7, <1>9, <1>10

-----------------------------------------------------------------------------
(* Inspection.                                                              *)

\* The steps that look names up and open files.
LEMMA NameStep ==
    ASSUME LaunchInv, Lookup \/ Resolve \/ (Open /\ phase = "inspect")
    PROVE  LaunchInv'
<1> USE DEF LaunchInv, Call, Goto
<1>1. /\ UNCHANGED <<names, content, executable, stamp, edits, seen, wanted, record,
                     written, ran, restarts>>
      /\ phase = "inspect" /\ phase' = "inspect" /\ target' = target
  BY DEF Lookup, Resolve, Open, fsVars, ControlSound, TypeOK
<1>2. path' \in Names \cup {None}
  <2>1. CASE Lookup
    BY <2>1, CandidateIsName DEF Lookup
  <2>2. CASE Resolve
    BY <2>2, SymlinksEnd DEF Resolve, Succeeds
  <2>3. CASE Open
    BY <2>3 DEF Open, TypeOK
  <2> QED
    BY <2>1, <2>2, <2>3
<1>3. /\ fd' \in [Targets -> Inodes \cup {None}]
      /\ step' \in {"resolve", "open", "stat", "fstat"}
      /\ target # "dir" => step' # "stat"
      /\ target = "dir" => step' = "stat"
  BY <1>1 DEF Lookup, Resolve, Open, Succeeds, TypeOK, ControlSound, Inodes
<1>4. TypeOK' /\ ControlSound'
  BY <1>1, <1>2, <1>3 DEF TypeOK, ControlSound, Targets
<1>5. StampsSound' /\ SeenSound' /\ VerifySound' /\ RanSound'
  BY <1>1, <1>3 DEF StampsSound, SeenSound, VerifySound, RanSound
<1>6. RecordSound'
  BY <1>1 DEF RecordSound, Sound, Dated, Fresh, Later, Kept, ExeInspected, IntInspected
<1> QED
  BY <1>4, <1>5, <1>6

\* fstat and the read of the bytes.
LEMMA ReadStep ==
    ASSUME LaunchInv, (Fstat /\ phase = "inspect") \/ HashFile
    PROVE  LaunchInv'
<1> USE DEF LaunchInv, Call, Goto
<1>1. /\ UNCHANGED <<names, content, executable, stamp, edits, path, fd, wanted, record,
                     written, ran, restarts>>
      /\ phase = "inspect" /\ phase' = "inspect" /\ target' = target
      /\ target \in {"exe", "int"}
  BY DEF Fstat, HashFile, fsVars, ControlSound, TypeOK
<1>2. fd[target] \in Files /\ fd[target] \in Inodes
  BY <1>1 DEF Fstat, HashFile, Succeeds, IsExecutable, SeenSound, Dated, Inodes
<1>3. /\ seen'.inode = fd[target] /\ seen'.stamp <= stamp[fd[target]]
      /\ seen' \in Metas /\ step' \in {"hash", "shebang"}
      /\ target = "int" => Later(seen')
      /\ step' = "shebang" => seen'.hash = content[fd[target]]
      /\ content[fd[target]] \in Contents
  <2>1. CASE Fstat
    <3>1. seen' = [path |-> path, inode |-> fd[target], stamp |-> stamp[fd[target]],
                   hash |-> None] /\ step' = "hash"
      BY <1>1, <2>1 DEF Fstat
    <3>2. stamp[fd[target]] \in 0..MaxEdits
      BY <1>2 DEF TypeOK
    <3>3. target = "int" => Later(seen')
      BY <1>1, <3>1 DEF RecordSound, ExeInspected, Sound, Dated, Later
    <3> QED
      BY <1>2, <3>1, <3>2, <3>3, LaunchAssumption DEF TypeOK, Metas
  <2>2. CASE HashFile
    <3>1. seen' = [path |-> seen.path, inode |-> seen.inode, stamp |-> seen.stamp,
                   hash |-> content[fd[target]]] /\ step' = "shebang"
      BY <2>2 DEF HashFile, Hashed
    <3>2. content[fd[target]] \in Contents
      BY <1>2 DEF TypeOK
    <3> QED
      BY <1>1, <2>2, <3>1, <3>2 DEF HashFile, TypeOK, Metas, SeenSound, Dated, Later
  <2> QED
    BY <2>1, <2>2
<1>4. TypeOK' /\ ControlSound'
  BY <1>1, <1>3 DEF TypeOK, ControlSound
<1>5. SeenSound'
  BY <1>1, <1>2, <1>3 DEF SeenSound, Sound, Dated, Fresh, Later
<1>6. StampsSound' /\ VerifySound' /\ RanSound'
  BY <1>1 DEF StampsSound, VerifySound, RanSound
<1>7. RecordSound'
  BY <1>1 DEF RecordSound, Sound, Dated, Fresh, Later, Kept, ExeInspected, IntInspected
<1> QED
  BY <1>4, <1>5, <1>6, <1>7

\* The first line, read last: if the file still has the stamp of the metadata, the
\* line is the first one of the hashed bytes.
LEMMA ShebangStep ==
    ASSUME LaunchInv, ReadShebang
    PROVE  LaunchInv'
<1> USE DEF LaunchInv, Call, Goto
<1>1. /\ UNCHANGED <<names, content, executable, stamp, edits, fd, seen, written, ran,
                     restarts>>
      /\ phase = "inspect" /\ phase' = "inspect" /\ step = "shebang" /\ step' = "resolve"
      /\ target \in {"exe", "int"}
      /\ record' = [record EXCEPT ![target] = seen]
      /\ Acceptable(FirstLine)
      /\ wanted' = IF target = "exe" THEN FirstLine ELSE wanted
      /\ target' = IF target = "exe" /\ FirstLine # "none" THEN "int" ELSE "dir"
      /\ path' \in {FirstLine, Cwd} /\ (target' = "dir" => path' = Cwd)
  BY DEF ReadShebang, fsVars, ControlSound, TypeOK, Succeeds
<1>2. Sound(seen) /\ seen.inode = fd[target] /\ seen \in Metas /\ seen # NoMeta
  BY <1>1, LaunchAssumption DEF SeenSound, TypeOK, Sound, Dated, NoMeta, Inodes
<1>3. Fresh(seen) => FirstLine = Shebang[seen.hash]
  BY <1>2 DEF Sound, FirstLine
<1>4. FirstLine \in Names \cup {"none"} /\ (target' = "int" => FirstLine \in Names)
      /\ (target = "int" => FirstLine = "none")
  BY <1>1 DEF Acceptable
<1>5. TypeOK'
  BY <1>1, <1>2, <1>4, LaunchAssumption DEF TypeOK, Targets
<1>6. ControlSound' /\ StampsSound' /\ SeenSound' /\ VerifySound' /\ RanSound'
  BY <1>1 DEF ControlSound, StampsSound, SeenSound, VerifySound, RanSound
<1>7. CASE target = "exe"
  <2>1. record'["exe"] = seen /\ record'["int"] = NoMeta /\ wanted' = FirstLine
    BY <1>1, <1>7 DEF TypeOK, Targets, RecordSound
  <2> QED
    BY <1>1, <1>2, <1>3, <1>5, <1>6, <1>7, <2>1
    DEF RecordSound, Sound, Dated, Fresh, Kept, ExeInspected, IntInspected
<1>8. CASE target = "int"
  <2>1. record'["exe"] = record["exe"] /\ record'["int"] = seen /\ wanted' = wanted
        /\ target' = "dir"
    BY <1>1, <1>8 DEF TypeOK, Targets
  <2> QED
    BY <1>1, <1>2, <1>3, <1>4, <1>5, <1>6, <1>8, <2>1
    DEF RecordSound, SeenSound, Later, Sound, Dated, Fresh, Kept, ExeInspected, IntInspected
<1> QED
  BY <1>1, <1>7, <1>8

\* The working directory, and with it the end of Submit.
LEMMA DirectoryStep ==
    ASSUME LaunchInv, StatDirectory
    PROVE  LaunchInv'
<1> USE DEF LaunchInv, Call, Goto
<1> DEFINE m == [path |-> path, inode |-> StatInode(path),
                 stamp |-> stamp[StatInode(path)], hash |-> None]
<1>1. /\ UNCHANGED <<names, content, executable, stamp, edits, path, seen, wanted,
                     written, ran, restarts>>
      /\ phase = "inspect" /\ target = "dir"
      /\ phase' = "stored" /\ target' = "dir" /\ step' = "approval" /\ fd' = NoFd
      /\ record' = [record EXCEPT !["dir"] = m]
  BY DEF StatDirectory, fsVars, ControlSound, TypeOK
<1>2. StatInode(path) \in Inodes
  BY DEF StatDirectory, Succeeds, Inodes
<1>3. m \in Metas
  BY <1>2 DEF Metas, TypeOK
<1> HIDE DEF m
<1>4. record'["exe"] = record["exe"] /\ record'["int"] = record["int"]
  BY <1>1 DEF TypeOK, Targets
<1>5. TypeOK'
  BY <1>1, <1>3, Empties DEF TypeOK, Targets
<1>6. ControlSound' /\ StampsSound' /\ SeenSound' /\ VerifySound' /\ RanSound'
  BY <1>1, Empties DEF ControlSound, StampsSound, SeenSound, VerifySound, RanSound, Targets
<1>7. RecordSound'
  BY <1>1, <1>4
  DEF RecordSound, Sound, Dated, Fresh, Later, Kept, ExeInspected, IntInspected
<1> QED
  BY <1>5, <1>6, <1>7

-----------------------------------------------------------------------------
(* Verification and the helper.                                             *)

\* What the record says does not change after Submit.
LEMMA RecordStays ==
    ASSUME LaunchInv, Kept, Kept',
           UNCHANGED <<names, content, executable, stamp, edits, wanted, record>>
    PROVE  StampsSound' /\ RecordSound' /\ ExeInspected /\ IntInspected
  BY DEF LaunchInv, StampsSound, RecordSound, Sound, Dated, Fresh, Later, Kept,
     ExeInspected, IntInspected

\* execute opens what was recorded, the directory first.
LEMMA OpenStep ==
    ASSUME LaunchInv, Execute \/ (Open /\ phase = "verify") \/ CompareDirectory
    PROVE  LaunchInv'
<1> USE DEF LaunchInv, Call, Goto
<1>1. /\ UNCHANGED <<names, content, executable, stamp, edits, seen, wanted, record,
                     written, ran, restarts>>
      /\ phase \in {"stored", "verify"} /\ phase' = "verify"
  BY DEF Execute, Open, CompareDirectory, fsVars, ControlSound, TypeOK
<1>2. StampsSound' /\ RecordSound' /\ SeenSound' /\ RanSound'
  BY <1>1, RecordStays DEF Kept, SeenSound, RanSound
<1>3. CASE Execute
  <2>1. path' \in Names \cup {None}
    BY <1>3 DEF Execute, TypeOK, Targets, Metas
  <2> QED
    BY <1>1, <1>2, <1>3, <2>1, Empties
    DEF Execute, TypeOK, ControlSound, VerifySound, Targets
<1>4. CASE Open
  <2>1. /\ fd' = [fd EXCEPT ![target] = names[path]] /\ names[path] \in Inodes
        /\ target' = target /\ UNCHANGED path
        /\ step' = (IF target = "dir" THEN "compare" ELSE "fstat")
    BY <1>4 DEF Open, Succeeds, Inodes
  <2>2. \A t \in Targets \ {target} : fd'[t] = fd[t]
    BY <2>1 DEF TypeOK
  <2>3. TypeOK' /\ ControlSound'
    BY <1>1, <2>1 DEF TypeOK, ControlSound, Targets
  <2>4. VerifySound'
    BY <1>1, <1>4, <2>1, <2>2
    DEF Open, VerifySound, ControlSound, ExeBelongs, Pinned, Targets
  <2> QED
    BY <1>2, <2>3, <2>4
<1>5. CASE CompareDirectory
  <2>1. path' \in Names \cup {None}
    BY <1>5 DEF CompareDirectory, TypeOK, Targets, Metas
  <2>2. target = "dir" /\ fd["dir"] = record["dir"].inode
    BY <1>1, <1>5 DEF CompareDirectory, Succeeds, SameDirectory, ControlSound
  <2> QED
    BY <1>1, <1>2, <1>5, <2>1, <2>2
    DEF CompareDirectory, TypeOK, ControlSound, VerifySound, Targets
<1> QED
  BY <1>3, <1>4, <1>5

\* An executable that still has the recorded stamp was not touched during its
\* inspection, so the recorded interpreter belongs to it; and it is not its own
\* interpreter, whose record, made later, would be fresh as well.
LEMMA FreshBelongs ==
    ASSUME LaunchInv, Kept
    PROVE  /\ Fresh(record["exe"]) => ExeBelongs
           /\ record["int"] # NoMeta /\ Fresh(record["int"]) => IntBelongs
<1> USE DEF LaunchInv
<1>1. /\ Sound(record["exe"])
      /\ Fresh(record["exe"]) => wanted = Shebang[record["exe"].hash]
      /\ record["int"] = NoMeta <=> wanted = "none"
      /\ record["int"] # NoMeta =>
            /\ Sound(record["int"]) /\ Later(record["int"])
            /\ Fresh(record["int"]) => Shebang[record["int"].hash] = "none"
  BY DEF RecordSound, Kept, ExeInspected, IntInspected
<1>2. ASSUME Fresh(record["exe"]), record["exe"].inode = record["int"].inode
      PROVE  FALSE
  <2>1. record["int"] # NoMeta
    BY <1>1, <1>2, Empties, LaunchAssumption DEF Sound, Dated, Inodes
  <2>2. /\ record["exe"].stamp <= record["int"].stamp
        /\ record["int"].stamp <= stamp[record["int"].inode]
        /\ stamp[record["int"].inode] = record["exe"].stamp
    BY <1>1, <1>2, <2>1 DEF Sound, Dated, Later, Fresh
  <2>3. record["exe"].stamp \in Nat /\ record["int"].stamp \in Nat
    BY LaunchAssumption DEF TypeOK, Targets, Metas
  <2>4. Fresh(record["int"])
    BY <1>2, <2>2, <2>3 DEF Fresh
  <2>5. record["exe"].hash = record["int"].hash
    BY <1>1, <1>2, <2>1, <2>4 DEF Sound
  <2> QED
    BY <1>1, <1>2, <2>1, <2>4, <2>5
<1> QED
  BY <1>1, <1>2 DEF ExeBelongs, IntBelongs

\* fstat of a file to verify.
LEMMA FstatStep ==
    ASSUME LaunchInv, Fstat, phase = "verify"
    PROVE  LaunchInv'
<1> USE DEF LaunchInv, Call, Goto
<1>1. /\ UNCHANGED <<names, content, executable, stamp, edits, path, fd, wanted, record,
                     written, ran, restarts>>
      /\ phase' = "verify" /\ target' = target /\ step' = "verify"
      /\ target \in {"exe", "int"}
      /\ seen' = [path |-> path, inode |-> fd[target], stamp |-> stamp[fd[target]],
                  hash |-> None]
  BY DEF Fstat, fsVars, ControlSound, TypeOK
<1>2. fd[target] \in Inodes
  BY DEF Fstat, Succeeds, IsExecutable, Inodes
<1>3. TypeOK' /\ ControlSound'
  <2>1. seen' \in Metas
    BY <1>1, <1>2 DEF TypeOK, Metas
  <2> QED
    BY <1>1, <2>1 DEF TypeOK, ControlSound
<1>4. StampsSound' /\ RecordSound' /\ SeenSound' /\ RanSound'
  BY <1>1, RecordStays DEF Kept, SeenSound, RanSound
<1>5. /\ seen'.inode = fd[target]
      /\ seen'.inode = record[target].inode /\ seen'.stamp = record[target].stamp
             => Fresh(record[target])
  BY <1>1 DEF Fresh
<1>6. VerifySound'
  BY <1>1, <1>5, FreshBelongs
  DEF Kept, VerifySound, Matches, ExeBelongs, IntBelongs, Pinned
<1> QED
  BY <1>3, <1>4, <1>6

\* The comparison: metadata and bytes are those of the record.
LEMMA VerifyStep ==
    ASSUME LaunchInv, VerifyFile
    PROVE  LaunchInv'
<1> USE DEF LaunchInv, Call, Goto
<1>1. /\ UNCHANGED <<names, content, executable, stamp, edits, fd, seen, wanted, record,
                     ran, restarts>>
      /\ phase = "verify" /\ step = "verify" /\ target \in {"exe", "int"}
      /\ written' = written \ {fd[target]} /\ path' = record["int"].path
      /\ SameAsRecorded(Hashed)
      /\ IF target = "exe" /\ record["int"] # NoMeta
         THEN phase' = "verify" /\ target' = "int" /\ step' = "open"
         ELSE phase' = "helper" /\ target' = target /\ step' = "exec"
  BY DEF VerifyFile, fsVars, ControlSound, TypeOK, Succeeds
<1>2. TypeOK' /\ ControlSound'
  <2>1. record["int"].path \in Names \cup {None}
    BY DEF TypeOK, Targets, Metas
  <2> QED
    BY <1>1, <2>1 DEF TypeOK, ControlSound, Targets
<1>3. StampsSound' /\ RecordSound' /\ SeenSound' /\ RanSound'
  BY <1>1, RecordStays DEF Kept, SeenSound, RanSound
<1>4. /\ seen.inode = record[target].inode /\ seen.stamp = record[target].stamp
      /\ content[fd[target]] = record[target].hash /\ seen.inode = fd[target]
  BY <1>1 DEF SameAsRecorded, Hashed, VerifySound
<1>5. CASE target = "exe"
  <2>1. ExeBelongs' /\ Pinned("exe")'
    <3>1. ExeBelongs
      BY <1>1, <1>4, <1>5 DEF VerifySound, Matches
    <3>2. (fd["exe"] = record["exe"].inode)'
          /\ (fd["exe"] \notin written => content[fd["exe"]] = record["exe"].hash)'
      BY <1>1, <1>4, <1>5
    <3> QED
      BY <1>1, <3>1, <3>2 DEF ExeBelongs, Pinned
  <2>2. fd["int"] = None /\ fd["dir"] = record["dir"].inode
    BY <1>1, <1>5 DEF VerifySound
  <2> QED
    BY <1>1, <1>2, <1>3, <1>5, <2>1, <2>2 DEF VerifySound
<1>6. CASE target = "int"
  <2>1. IntBelongs /\ ExeBelongs /\ Pinned("exe") /\ record["int"] # NoMeta
        /\ fd["dir"] = record["dir"].inode
    BY <1>1, <1>4, <1>6 DEF VerifySound, Matches
  <2>2. fd["exe"] # fd["int"]
    BY <1>4, <1>6, <2>1 DEF ExeBelongs, Pinned
  <2>3. Pinned("exe")'
    BY <1>1, <1>6, <2>1, <2>2 DEF Pinned
  <2>4. Pinned("int")'
    BY <1>1, <1>4, <1>6 DEF Pinned
  <2> QED
    BY <1>1, <1>2, <1>3, <1>6, <2>1, <2>3, <2>4 DEF VerifySound, ExeBelongs, IntBelongs
<1> QED
  BY <1>1, <1>5, <1>6

\* The helper executes the descriptors.
LEMMA ExecStep ==
    ASSUME LaunchInv, ExecPinned
    PROVE  LaunchInv'
<1> USE DEF LaunchInv, Call, Goto
<1>1. /\ UNCHANGED <<names, content, executable, stamp, edits, path, fd, seen, wanted,
                     record, written, restarts>>
      /\ phase = "helper" /\ phase' = "done" /\ target' = target /\ step' = "none"
      /\ ran' = [exe |-> fd["exe"], int |-> fd["int"], dir |-> fd["dir"],
                 exeCode |-> Code(fd["exe"]), intCode |-> Code(fd["int"])]
  BY DEF ExecPinned, fsVars, ControlSound, TypeOK
<1>2. /\ fd["exe"] \in Files /\ fd["int"] \in Files \cup {None}
      /\ fd["int"] = None => record["int"] = NoMeta
  BY <1>1, LaunchAssumption
  DEF VerifySound, Pinned, RecordSound, IntInspected, ExeInspected, Kept, Sound, Dated,
      Inodes
<1>3. TypeOK' /\ ControlSound'
  <2>1. Code(fd["exe"]) \in Contents \cup {None} /\ Code(fd["int"]) \in Contents \cup {None}
    BY <1>2, LaunchAssumption DEF TypeOK, Code
  <2> QED
    BY <1>1, <2>1 DEF TypeOK, ControlSound, Targets
<1>4. StampsSound' /\ RecordSound' /\ SeenSound'
  BY <1>1, RecordStays DEF Kept, SeenSound
<1>5. VerifySound'
  BY <1>1 DEF VerifySound, ExeBelongs, IntBelongs, Pinned
<1>6. RanSound'
  <2>1. Code(fd["exe"]) = content[fd["exe"]]
    BY <1>2, LaunchAssumption DEF Code, Inodes
  <2>2. IF record["int"] = NoMeta THEN Code(fd["int"]) = None
        ELSE Code(fd["int"]) = content[fd["int"]]
    BY <1>1, <1>2, LaunchAssumption DEF Code, Inodes, VerifySound
  <2> QED
    BY <1>1, <2>1, <2>2, Empties DEF RanSound, VerifySound, Pinned
<1> QED
  BY <1>3, <1>4, <1>5, <1>6

\* A call that fails, and a daemon that ends.
LEMMA EndStep ==
    ASSUME LaunchInv, Fails \/ Restart
    PROVE  LaunchInv'
<1> USE DEF LaunchInv, Goto
<1>1. UNCHANGED <<names, content, executable, stamp, edits, path, seen, wanted, record,
                  written, ran>>
  BY DEF Fails, Restart, fsVars
<1>2. CASE Fails
  <2>1. /\ phase' \in {"refused", "rejected"} /\ step' = "none"
        /\ UNCHANGED <<target, fd, restarts>>
    BY <1>2 DEF Fails
  <2> QED
    BY <1>1, <2>1
    DEF TypeOK, ControlSound, StampsSound, SeenSound, RecordSound, VerifySound, RanSound,
        Kept, ExeInspected, IntInspected
<1>3. CASE Restart
  <2>1. /\ restarts' \in 0..MaxRestarts /\ fd' = NoFd /\ target' \in {target, "dir"}
        /\ \/ phase = "verify" /\ phase' = "stored" /\ step' = "approval"
           \/ phase' = "rejected" /\ step' = "none"
    BY <1>3, LaunchAssumption DEF Restart, TypeOK
  <2>2. TypeOK' /\ ControlSound'
    BY <1>1, <2>1, Empties DEF TypeOK, ControlSound, Targets
  <2>3. StampsSound' /\ SeenSound' /\ VerifySound' /\ RanSound'
    BY <1>1, <2>1 DEF StampsSound, SeenSound, VerifySound, RanSound
  <2>4. RecordSound'
    BY <1>1, <2>1
    DEF RecordSound, Sound, Dated, Fresh, Later, Kept, ExeInspected, IntInspected
  <2> QED
    BY <2>2, <2>3, <2>4
<1> QED
  BY <1>2, <1>3

\* Every step preserves the invariant.
LEMMA LaunchStep == LaunchInv /\ [Next]_vars => LaunchInv'
<1> SUFFICES ASSUME LaunchInv, [Next]_vars PROVE LaunchInv'
  OBVIOUS
<1>1. CASE UNCHANGED vars
  BY <1>1
  DEF vars, fsVars, daemonVars, LaunchInv, TypeOK, ControlSound, StampsSound, SeenSound,
      RecordSound, VerifySound, RanSound, Sound, Dated, Fresh, Later, Kept, ExeInspected,
      IntInspected, ExeBelongs, IntBelongs, Pinned, Matches
<1>2. Open \/ Fstat => phase \in {"inspect", "verify"}
  BY DEF Open, Fstat, Call, LaunchInv, ControlSound, TypeOK
<1> QED
  BY <1>1, <1>2, FileSystemStep, NameStep, ReadStep, ShebangStep, DirectoryStep, OpenStep,
     FstatStep, VerifyStep, ExecStep, EndStep
  DEF Next

\* For every file system and every number of changes the invariant holds.
THEOREM LaunchCorrect == Spec => []LaunchInv
  BY LaunchInit, LaunchStep, PTL DEF Spec

\* The inodes that run are the recorded ones, however names are rebound.
THEOREM PinnedObjects == Spec => []PinnedObjectsRun
<1>1. LaunchInv => PinnedObjectsRun
  BY Empties DEF LaunchInv, PinnedObjectsRun, RanSound, VerifySound, Pinned
<1> QED
  BY <1>1, LaunchCorrect, PTL

\* The bytes that run are the recorded ones, unless they were overwritten in place
\* after verification had read them.
THEOREM RecordedBytes == Spec => []RecordedBytesRun
<1>1. LaunchInv => RecordedBytesRun
  BY DEF LaunchInv, RecordedBytesRun, RanSound
<1> QED
  BY <1>1, LaunchCorrect, PTL

\* A request whose files changed while Submit read them never runs.
THEOREM TornInspections == Spec => []TornInspectionNeverRuns
<1>1. LaunchInv => TornInspectionNeverRuns
  BY DEF LaunchInv, TornInspectionNeverRuns, VerifySound, ExeBelongs, IntBelongs,
     RecordSound, IntInspected, Kept
<1> QED
  BY <1>1, LaunchCorrect, PTL

-----------------------------------------------------------------------------
(* Nothing is rejected without a reason.                                    *)

\* While nothing has changed, every call of execute and of the helper succeeds.
LEMMA CallsSucceed ==
    ASSUME LaunchInv, Unchanged, edits = 0, phase \in {"verify", "helper"}
    PROVE  Succeeds
<1> USE DEF LaunchInv
<1>1. /\ Bound("exe") /\ Bound("dir")
      /\ record["int"] # NoMeta => Bound("int")
  BY DEF Unchanged, ExeInspected, IntInspected, Kept
<1>2. \A i \in Inodes : stamp[i] = 0
  BY DEF StampsSound, TypeOK
<1>3. CASE phase = "helper"
  <2>1. step = "exec"
    BY <1>3 DEF ControlSound
  <2>2. /\ fd["exe"] = record["exe"].inode
        /\ IF record["int"] = NoMeta THEN fd["int"] = None
           ELSE fd["int"] = record["int"].inode
    BY <1>3 DEF VerifySound, Pinned
  <2>3. IsExecutable(Launchee)
    BY <1>1, <2>2, LaunchAssumption DEF Bound, Launchee, IsExecutable, Inodes
  <2> QED
    BY <2>1, <2>3 DEF Succeeds
<1>4. CASE phase = "verify"
  <2>1. /\ target \in Targets /\ Bound(target)
        /\ path = record[target].path
        /\ step # "open" => fd[target] = record[target].inode
        /\ step = "verify" => seen.path = path /\ seen.stamp = 0
    BY <1>1, <1>4 DEF Unchanged, TypeOK, Targets, VerifySound
  <2>2. CASE step = "open"
    BY <2>1, <2>2 DEF Succeeds, Bound, IsExecutable, Inodes
  <2>3. CASE step = "compare"
    <3>1. target = "dir"
      BY <1>4, <2>3 DEF ControlSound
    <3>2. SameDirectory
      BY <1>2, <2>1, <2>3, <3>1 DEF SameDirectory, Bound, Inodes
    <3> QED
      BY <2>3, <3>2 DEF Succeeds
  <2>4. CASE step = "fstat"
    <3>1. target # "dir"
      BY <1>4, <2>4 DEF ControlSound
    <3> QED
      BY <2>1, <2>4, <3>1 DEF Succeeds, Bound
  <2>5. CASE step = "verify"
    <3>1. target # "dir" /\ seen.inode = fd[target] /\ target \in {"exe", "int"}
          /\ (target = "int" => record["int"] # NoMeta)
      BY <1>4, <2>1, <2>5 DEF ControlSound, VerifySound
    <3>2. Sound(record[target])
      BY <1>4, <3>1 DEF RecordSound, ExeInspected, IntInspected, Kept
    <3>3. content[fd[target]] = record[target].hash
      BY <1>2, <2>1, <2>5, <3>2 DEF Sound, Dated, Fresh, Bound, Inodes
    <3>4. record[target] \in Metas
      BY <2>1 DEF TypeOK
    <3>5. record[target] = [path |-> record[target].path, inode |-> record[target].inode,
                            stamp |-> record[target].stamp, hash |-> record[target].hash]
      BY <3>4 DEF Metas
    <3>6. SameAsRecorded(Hashed)
      BY <2>1, <2>5, <3>1, <3>3, <3>5 DEF SameAsRecorded, Hashed, Bound
    <3> QED
      BY <2>5, <3>6 DEF Succeeds
  <2> QED
    BY <1>4, <2>2, <2>3, <2>4, <2>5 DEF ControlSound
<1> QED
  BY <1>3, <1>4

\* What holds while nothing has changed is preserved.
LEMMA UnchangedStep ==
    ASSUME LaunchInv, Unchanged, UnchangedIsAccepted, [Next]_vars
    PROVE  Unchanged' /\ UnchangedIsAccepted'
<1> USE DEF LaunchInv, Call, Goto
<1>1. CASE FileSystem
  BY <1>1, FileSystemChanges DEF Unchanged, UnchangedIsAccepted, TypeOK
<1>2. CASE UNCHANGED vars
  BY <1>2
  DEF vars, fsVars, daemonVars, Unchanged, UnchangedIsAccepted, Bound, IsExecutable, Kept,
      ExeInspected, IntInspected
<1>3. CASE edits # 0 /\ UNCHANGED fsVars
  BY <1>3 DEF Unchanged, UnchangedIsAccepted, fsVars, TypeOK
<1>4. \A i \in Inodes : edits = 0 => stamp[i] = 0
  BY DEF StampsSound, TypeOK
<1>5. ASSUME edits = 0, Lookup \/ Resolve \/ (Open /\ phase = "inspect")
      PROVE  Unchanged' /\ UnchangedIsAccepted'
  <2>1. /\ UNCHANGED <<names, executable, edits, record, seen>>
        /\ phase = "inspect" /\ phase' = "inspect" /\ target' = target
    BY <1>5 DEF Lookup, Resolve, Open, fsVars, ControlSound, TypeOK
  <2>2. CASE Lookup
    BY <1>5, <2>1, <2>2
    DEF Lookup, Unchanged, UnchangedIsAccepted, Bound, IsExecutable, Kept, ExeInspected,
        IntInspected
  <2>3. CASE Resolve
    <3>1. path' \in Names /\ names'[path'] \in Inodes /\ step' \in {"open", "stat"}
      BY <2>1, <2>3, SymlinksEnd DEF Resolve, Succeeds
    <3> QED
      BY <1>5, <2>1, <3>1
      DEF Unchanged, UnchangedIsAccepted, Bound, IsExecutable, Kept, ExeInspected,
          IntInspected
  <2>4. CASE Open
    <3>1. path' = path /\ names'[path'] = fd'[target'] /\ step' = "fstat"
      BY <2>1, <2>4 DEF Open, TypeOK, ControlSound
    <3> QED
      BY <1>5, <2>1, <3>1
      DEF Unchanged, UnchangedIsAccepted, Bound, IsExecutable, Kept, ExeInspected,
          IntInspected
  <2> QED
    BY <1>5, <2>2, <2>3, <2>4
<1>6. ASSUME edits = 0, (Fstat /\ phase = "inspect") \/ HashFile
      PROVE  Unchanged' /\ UnchangedIsAccepted'
  <2>1. /\ UNCHANGED <<names, executable, edits, record, path, fd>>
        /\ phase = "inspect" /\ phase' = "inspect" /\ target' = target
        /\ step' \in {"hash", "shebang"} /\ step \in {"fstat", "hash"}
    BY <1>6 DEF Fstat, HashFile, fsVars, ControlSound, TypeOK
  <2>2. seen'.path = path /\ IsExecutable(fd[target])
    BY <1>6, <2>1 DEF Fstat, HashFile, Hashed, Succeeds, Unchanged
  <2> QED
    BY <1>6, <2>1, <2>2
    DEF Unchanged, UnchangedIsAccepted, Bound, IsExecutable, Kept, ExeInspected,
        IntInspected
<1>7. ASSUME edits = 0, ReadShebang
      PROVE  Unchanged' /\ UnchangedIsAccepted'
  <2>1. /\ UNCHANGED <<names, executable, edits, fd>>
        /\ phase = "inspect" /\ phase' = "inspect" /\ step = "shebang" /\ step' = "resolve"
        /\ target \in {"exe", "int"} /\ target' \in {"int", "dir"}
        /\ target = "int" => target' = "dir"
        /\ record' = [record EXCEPT ![target] = seen]
    BY <1>7 DEF ReadShebang, fsVars, ControlSound, TypeOK
  <2>2. /\ names[seen.path] = seen.inode /\ IsExecutable(seen.inode)
        /\ seen.stamp = 0
    BY <1>4, <1>7, <2>1, LaunchAssumption
    DEF Unchanged, SeenSound, Dated, TypeOK, Metas, Inodes
  <2>3. record'[target] = seen /\ \A t \in Targets \ {target} : record'[t] = record[t]
    BY <2>1 DEF TypeOK, Targets
  <2>4. CASE target = "exe"
    <3>1. Bound("exe")' /\ record'["int"] = NoMeta
      BY <2>1, <2>2, <2>3, <2>4 DEF Bound, IsExecutable, RecordSound, Targets
    <3> QED
      BY <2>1, <3>1 DEF Unchanged, UnchangedIsAccepted, Kept, ExeInspected, IntInspected
  <2>5. CASE target = "int"
    <3>1. Bound("exe")
      BY <1>7, <2>1, <2>5 DEF Unchanged, ExeInspected
    <3>2. Bound("int")' /\ Bound("exe")'
      BY <2>1, <2>2, <2>3, <2>5, <3>1 DEF Bound, IsExecutable, Targets
    <3> QED
      BY <2>1, <3>2 DEF Unchanged, UnchangedIsAccepted, Kept, ExeInspected, IntInspected
  <2> QED
    BY <2>1, <2>4, <2>5
<1>8. ASSUME edits = 0, StatDirectory
      PROVE  Unchanged' /\ UnchangedIsAccepted'
  <2> DEFINE m == [path |-> path, inode |-> StatInode(path),
                   stamp |-> stamp[StatInode(path)], hash |-> None]
  <2>1. /\ UNCHANGED <<names, executable, edits>>
        /\ phase = "inspect" /\ target = "dir" /\ step = "stat" /\ phase' = "stored"
        /\ record' = [record EXCEPT !["dir"] = m]
    BY <1>8 DEF StatDirectory, fsVars, ControlSound, TypeOK
  <2>2. StatInode(path) = names[path] /\ StatInode(path) \in Dirs
    BY <1>8, <2>1, BoundIsEnd DEF StatDirectory, Succeeds, Unchanged
  <2>3. names[m.path] = m.inode /\ m.inode \in Dirs /\ m.stamp = 0
    BY <1>4, <1>8, <2>2 DEF Inodes
  <2> HIDE DEF m
  <2>4. /\ record'["dir"] = m /\ record'["exe"] = record["exe"]
        /\ record'["int"] = record["int"]
    BY <2>1 DEF TypeOK, Targets
  <2>5. Bound("exe") /\ (record["int"] # NoMeta => Bound("int"))
    BY <1>8, <2>1 DEF Unchanged, ExeInspected, IntInspected
  <2>6. Bound("exe")' /\ Bound("dir")' /\ (record'["int"] # NoMeta => Bound("int")')
    BY <2>1, <2>3, <2>4, <2>5 DEF Bound, IsExecutable
  <2> QED
    BY <2>1, <2>6 DEF Unchanged, UnchangedIsAccepted, Kept, ExeInspected, IntInspected
<1>9. ASSUME edits = 0, Kept, Kept', UNCHANGED <<names, executable, edits, record>>
      PROVE  /\ Bound("exe")' /\ Bound("dir")' /\ UnchangedIsAccepted'
             /\ record'["int"] # NoMeta => Bound("int")'
             /\ phase' # "verify" => Unchanged'
  <2>1. Bound("exe") /\ Bound("dir") /\ (record["int"] # NoMeta => Bound("int"))
    BY <1>9 DEF Unchanged, ExeInspected, IntInspected
  <2>2. Bound("exe")' /\ Bound("dir")' /\ (record'["int"] # NoMeta => Bound("int")')
    BY <1>9, <2>1 DEF Bound, IsExecutable
  <2> QED
    BY <1>9, <2>2 DEF Unchanged, UnchangedIsAccepted, Kept, ExeInspected, IntInspected
<1>10. ASSUME edits = 0,
              \/ Execute \/ (Open /\ phase = "verify") \/ CompareDirectory
              \/ (Fstat /\ phase = "verify") \/ VerifyFile \/ ExecPinned
       PROVE  Unchanged' /\ UnchangedIsAccepted'
  <2>1. /\ UNCHANGED <<names, executable, edits, record>>
        /\ phase \in {"stored", "verify", "helper"} /\ Kept /\ Kept'
    BY <1>10 DEF Execute, Open, CompareDirectory, Fstat, VerifyFile, ExecPinned, fsVars,
       ControlSound, TypeOK, Kept
  <2>2. /\ Bound("exe")' /\ Bound("dir")' /\ UnchangedIsAccepted'
        /\ record'["int"] # NoMeta => Bound("int")'
        /\ phase' # "verify" => Unchanged'
    BY <1>9, <1>10, <2>1
  <2>3. ASSUME phase' = "verify"
        PROVE  /\ path' = record'[target'].path
               /\ step' # "open" => fd'[target'] = record'[target'].inode
               /\ step' = "verify" => seen'.path = path' /\ seen'.stamp = 0
    <3>1. CASE Execute \/ CompareDirectory
      BY <2>1, <3>1 DEF Execute, CompareDirectory
    <3>2. CASE Open
      <4>1. phase = "verify" /\ path = record[target].path /\ target \in Targets
        BY <1>10, <2>1, <3>2, <2>3 DEF Open, Unchanged, TypeOK
      <4>2. Bound(target)
        BY <1>10, <4>1 DEF Unchanged, Kept, ExeInspected, IntInspected, Targets, VerifySound
      <4>3. /\ fd'[target] = names[path] /\ target' = target /\ path' = path
            /\ step' \in {"compare", "fstat"}
        BY <3>2, <4>1 DEF Open, TypeOK
      <4> QED
        BY <2>1, <4>1, <4>2, <4>3 DEF Bound
    <3>3. CASE Fstat
      <4>1. /\ phase = "verify" /\ path = record[target].path
            /\ fd[target] = record[target].inode
        BY <1>10, <2>1, <3>3, <2>3 DEF Fstat, Unchanged
      <4>2. stamp[fd[target]] = 0
        BY <1>4, <1>10, <3>3 DEF Fstat, Succeeds, IsExecutable, Inodes
      <4> QED
        BY <2>1, <3>3, <4>1, <4>2 DEF Fstat
    <3>4. CASE VerifyFile
      BY <2>1, <2>3, <3>4 DEF VerifyFile
    <3>5. CASE ExecPinned
      BY <2>3, <3>5 DEF ExecPinned
    <3> QED
      BY <1>10, <3>1, <3>2, <3>3, <3>4, <3>5
  <2> QED
    BY <2>1, <2>2, <2>3 DEF Unchanged, Kept, ExeInspected, IntInspected
<1>11. ASSUME edits = 0, Fails
       PROVE  Unchanged' /\ UnchangedIsAccepted'
  <2>1. phase = "inspect"
    <3>1. phase \notin {"stored", "done", "refused", "rejected"}
      BY <1>11 DEF Fails, Succeeds, ControlSound
    <3> QED
      BY <1>11, <3>1, CallsSucceed DEF Fails, TypeOK
  <2>2. phase' = "refused"
    BY <1>11, <2>1 DEF Fails
  <2> QED
    BY <2>2 DEF Unchanged, UnchangedIsAccepted, Kept, ExeInspected, IntInspected
<1>12. ASSUME edits = 0, Restart
       PROVE  Unchanged' /\ UnchangedIsAccepted'
  <2>1. /\ UNCHANGED <<names, executable, edits, record>> /\ restarts' > 0
        /\ phase \in {"verify", "helper"} /\ phase' \in {"stored", "rejected"}
    BY <1>12 DEF Restart, fsVars, TypeOK
  <2>2. CASE phase' = "stored"
    BY <1>9, <1>12, <2>1, <2>2 DEF Kept
  <2>3. CASE phase' = "rejected"
    BY <2>1, <2>3 DEF Unchanged, UnchangedIsAccepted, Kept, ExeInspected, IntInspected
  <2> QED
    BY <2>1, <2>2, <2>3
<1>13. ASSUME Next, ~FileSystem PROVE UNCHANGED fsVars
  BY <1>13
  DEF Next, Lookup, Resolve, Open, Fstat, HashFile, ReadShebang, StatDirectory, Execute,
      CompareDirectory, VerifyFile, ExecPinned, Fails, Restart
<1>14. Open \/ Fstat => phase \in {"inspect", "verify"}
  BY DEF Open, Fstat, ControlSound, TypeOK
<1> QED
  BY <1>1, <1>2, <1>3, <1>5, <1>6, <1>7, <1>8, <1>10, <1>11, <1>12, <1>13, <1>14 DEF Next

\* A request is rejected for its files only after the file system has changed, and
\* otherwise only by a restart during its execution.
THEOREM UnchangedAccepted == Spec => []UnchangedIsAccepted
<1>1. Init => Unchanged /\ UnchangedIsAccepted
  BY DEF Init, Unchanged, UnchangedIsAccepted, Kept, ExeInspected, IntInspected
<1>2. LaunchInv /\ Unchanged /\ UnchangedIsAccepted /\ [Next]_vars
          => Unchanged' /\ UnchangedIsAccepted'
  BY UnchangedStep
<1> QED
  BY <1>1, <1>2, LaunchCorrect, PTL DEF Spec
===============================================================================
